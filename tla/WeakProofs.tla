------------------------------- MODULE WeakProofs -------------------------------
(***************************************************************************)
(* Weak, proved for any threads, objects, variables and side tables: the   *)
(* entries are exact, and weak variables are those of ZeroingWeak.         *)
(***************************************************************************)
EXTENDS WeakInv, SequenceTheorems, FiniteSetTheorems, TLAPS

--------------------------------------------------------------------------------
(* What an action does to the frames *)

\* The stacks of the other threads stay.
OthersStay(t) ==
  stack' \in [Thread -> Seq(FrameType)] /\ \A u \in Thread \ {t} : stack'[u] = stack[u]

\* The innermost frame of t becomes g.
Replaces(t, g) ==
  /\ OthersStay(t) /\ Len(stack'[t]) = Len(stack[t])
  /\ \A i \in 1 .. Len(stack[t]) - 1 : stack'[t][i] = stack[t][i]
  /\ stack'[t][Len(stack[t])] = g

Pops(t) ==
  /\ OthersStay(t) /\ Len(stack'[t]) = Len(stack[t]) - 1
  /\ \A i \in 1 .. Len(stack[t]) - 1 : stack'[t][i] = stack[t][i]

\* The innermost frame becomes g, and f is put on top of it.
Pushes(t, g, f) ==
  /\ OthersStay(t) /\ Len(stack'[t]) = Len(stack[t]) + 1
  /\ \A i \in 1 .. Len(stack[t]) - 1 : stack'[t][i] = stack[t][i]
  /\ stack'[t][Len(stack[t])] = g
  /\ stack'[t][Len(stack[t]) + 1] = f

\* The same call, further on.
Turned(f, g) == g \in FrameType /\ g.op = f.op /\ g.v = f.v /\ g.src = f.src /\ g.new = f.new

\* The innermost frame of a thread.
LEMMA TopFrame ==
  ASSUME TypeInv, NEW t \in Thread, stack[t] # <<>>
  PROVE  /\ stack[t] \in Seq(FrameType) /\ Len(stack[t]) \in Nat \ {0}
         /\ DOMAIN stack[t] = 1 .. Len(stack[t]) /\ Len(stack[t]) \in DOMAIN stack[t]
         /\ top(t) = stack[t][Len(stack[t])] /\ top(t) \in FrameType
<1>1. stack[t] \in Seq(FrameType)
  BY DEF TypeInv
<1>2. Len(stack[t]) \in Nat \ {0} /\ DOMAIN stack[t] = 1 .. Len(stack[t])
  BY <1>1
<1>3. top(t) = stack[t][Len(stack[t])]
  BY DEF top, Last
<1>4. stack[t][Len(stack[t])] \in FrameType
  BY <1>1, <1>2
<1> QED BY <1>1, <1>2, <1>3, <1>4

\* A sequence without its last element.
LEMMA FrontEffect ==
  ASSUME NEW S, NEW s \in Seq(S), s # <<>>
  PROVE  /\ Front(s) \in Seq(S) /\ Len(Front(s)) = Len(s) - 1
         /\ \A i \in 1 .. Len(s) - 1 : Front(s)[i] = s[i]
<1> DEFINE n == Len(s) - 1
<1>1. n \in Nat /\ 1 \in Int /\ n \in Int /\ \A i \in 1 .. n : s[i] \in S
  OBVIOUS
<1>2. n = Len(s) - 1 /\ Front(s) = SubSeq(s, 1, n)
  BY DEF Front
<1> HIDE DEF n
<1>3. /\ SubSeq(s, 1, n) \in Seq(S)
      /\ Len(SubSeq(s, 1, n)) = IF 1 <= n THEN n - 1 + 1 ELSE 0
      /\ \A i \in 1 .. n - 1 + 1 : SubSeq(s, 1, n)[i] = s[1 + i - 1]
  BY <1>1, SubSeqProperties
<1>4. n - 1 + 1 = n /\ \A i \in 1 .. n : 1 + i - 1 = i
  BY <1>1
<1> QED BY <1>1, <1>2, <1>3, <1>4

\* A sequence with another last element.
LEMMA LastReplaced ==
  ASSUME NEW S, NEW s \in Seq(S), s # <<>>, NEW g \in S
  PROVE  /\ Append(Front(s), g) \in Seq(S) /\ Len(Append(Front(s), g)) = Len(s)
         /\ \A i \in 1 .. Len(s) - 1 : Append(Front(s), g)[i] = s[i]
         /\ Append(Front(s), g)[Len(s)] = g
<1> DEFINE r == Front(s)
<1>1. r \in Seq(S) /\ Len(r) = Len(s) - 1 /\ \A i \in 1 .. Len(s) - 1 : r[i] = s[i]
  BY FrontEffect
<1>2. Len(s) \in Nat \ {0}
  OBVIOUS
<1> HIDE DEF r
<1>3. /\ Append(r, g) \in Seq(S) /\ Len(Append(r, g)) = Len(s)
      /\ \A i \in 1 .. Len(s) - 1 : Append(r, g)[i] = s[i]
      /\ Append(r, g)[Len(s)] = g
  BY <1>1, <1>2
<1> QED BY <1>3 DEF r

LEMMA SetEffect ==
  ASSUME TypeInv, NEW t \in Thread, stack[t] # <<>>, NEW g \in FrameType, Set(t, g)
  PROVE  Replaces(t, g)
<1>1. stack \in [Thread -> Seq(FrameType)] /\ stack[t] \in Seq(FrameType)
  BY DEF TypeInv
<1>2. stack' = [stack EXCEPT ![t] = Append(Front(stack[t]), g)]
  BY DEF Set
<1> QED BY <1>1, <1>2, LastReplaced DEF Replaces, OthersStay

LEMMA ReturnEffect ==
  ASSUME TypeInv, NEW t \in Thread, stack[t] # <<>>, Return(t) PROVE Pops(t)
<1>1. /\ Front(stack[t]) \in Seq(FrameType) /\ Len(Front(stack[t])) = Len(stack[t]) - 1
      /\ \A i \in 1 .. Len(stack[t]) - 1 : Front(stack[t])[i] = stack[t][i]
  BY TopFrame, FrontEffect
<1>2. stack \in [Thread -> Seq(FrameType)]
  BY DEF TypeInv
<1> QED BY <1>1, <1>2 DEF Return, Pops, OthersStay


\* A sequence with another last element, and one more.
LEMMA LastAndNext ==
  ASSUME NEW S, NEW s \in Seq(S), s # <<>>, NEW g \in S, NEW f \in S
  PROVE  LET r == Front(s) \o <<g, f>> IN
         /\ r \in Seq(S) /\ Len(r) = Len(s) + 1
         /\ \A i \in 1 .. Len(s) - 1 : r[i] = s[i]
         /\ r[Len(s)] = g /\ r[Len(s) + 1] = f
<1> DEFINE q == Front(s)
           e == <<g, f>>
<1>1. q \in Seq(S) /\ Len(q) = Len(s) - 1 /\ \A i \in 1 .. Len(s) - 1 : q[i] = s[i]
  BY FrontEffect
<1>2. Len(s) \in Nat \ {0}
  OBVIOUS
<1>3. e \in Seq(S) /\ Len(e) = 2 /\ e[1] = g /\ e[2] = f
  OBVIOUS
<1> HIDE DEF q, e
<1>4. /\ q \o e \in Seq(S) /\ Len(q \o e) = Len(q) + Len(e)
      /\ \A i \in 1 .. Len(q) + Len(e) : (q \o e)[i] = IF i <= Len(q) THEN q[i] ELSE e[i - Len(q)]
  BY <1>1, <1>3, ConcatProperties
<1>5. Len(q \o e) = Len(s) + 1 /\ \A i \in 1 .. Len(s) - 1 : (q \o e)[i] = s[i]
  BY <1>1, <1>2, <1>3, <1>4
<1>6. (q \o e)[Len(s)] = g /\ (q \o e)[Len(s) + 1] = f
  BY <1>1, <1>2, <1>3, <1>4
<1> QED BY <1>4, <1>5, <1>6 DEF q, e

\* A new frame.
LEMMA NewFrame ==
  ASSUME NEW op \in OpType, NEW pc \in PcType, NEW v \in Variable \cup {nil},
         NEW src \in Variable \cup {nil}, NEW o \in Object \cup {nil}
  PROVE  LET f == Frame(op, pc, v, src, o) IN
         /\ f \in FrameType /\ f.op = op /\ f.pc = pc /\ f.v = v /\ f.src = src /\ f.new = o
         /\ f.old = nil /\ f.want = <<>> /\ f.held = {}
BY DEF Frame, FrameType

LEMMA PcChanged ==
  ASSUME NEW f \in FrameType, NEW l \in PcType
  PROVE  LET g == [f EXCEPT !.pc = l] IN
         /\ Turned(f, g) /\ g.pc = l /\ g.old = f.old /\ g.want = f.want /\ g.held = f.held
BY DEF FrameType, Turned

LEMMA EnterEffect ==
  ASSUME TypeInv, NEW t \in Thread, stack[t] # <<>>, NEW l \in PcType, NEW f \in FrameType,
         Enter(t, l, f)
  PROVE  Pushes(t, [top(t) EXCEPT !.pc = l], f)
<1> DEFINE g == [top(t) EXCEPT !.pc = l]
<1>1. stack \in [Thread -> Seq(FrameType)] /\ stack[t] \in Seq(FrameType)
  BY DEF TypeInv
<1>2. stack' = [stack EXCEPT ![t] = Front(stack[t]) \o <<g, f>>]
  BY DEF Enter, top
<1>3. g \in FrameType
  BY TopFrame, PcChanged DEF Turned
<1> HIDE DEF g
<1>4. Pushes(t, g, f)
  BY <1>1, <1>2, <1>3, LastAndNext DEF Pushes, OthersStay
<1> QED BY <1>4 DEF g

\* A load ends; the copy or move that called it, if one did, has its result.
LoadPops(t, o) ==
  /\ OthersStay(t) /\ Len(stack'[t]) = Len(stack[t]) - 1
  /\ \A i \in 1 .. Len(stack[t]) - 2 : stack'[t][i] = stack[t][i]
  /\ Len(stack[t]) > 1 =>
       LET f == stack[t][Len(stack[t]) - 1]
           g == stack'[t][Len(stack[t]) - 1] IN
       /\ g \in FrameType /\ g.op = f.op /\ g.v = f.v /\ g.src = f.src /\ g.new = o
       /\ g.pc = f.pc /\ g.old = f.old /\ g.want = f.want /\ g.held = f.held

LEMMA LoadReturnsEffect ==
  ASSUME TypeInv, NEW t \in Thread, stack[t] # <<>>, NEW o \in Object \cup {nil}, LoadReturns(t, o)
  PROVE  LoadPops(t, o)
<1> DEFINE n == Len(stack[t])
           rest == Front(stack[t])
           r == IF rest = <<>> THEN rest ELSE Append(Front(rest), [Last(rest) EXCEPT !.new = o])
<1>1. stack \in [Thread -> Seq(FrameType)] /\ stack[t] \in Seq(FrameType) /\ n \in Nat \ {0}
  BY TopFrame DEF TypeInv
<1>2. rest \in Seq(FrameType) /\ Len(rest) = n - 1 /\ \A i \in 1 .. n - 1 : rest[i] = stack[t][i]
  BY <1>1, FrontEffect
<1>3. stack' = [stack EXCEPT ![t] = r]
  BY DEF LoadReturns
<1> HIDE DEF n, rest
<1>4. CASE rest = <<>>
  <2>1. n = 1 /\ r = rest
    BY <1>1, <1>2, <1>4
  <2> QED BY <1>1, <1>2, <1>3, <2>1 DEF LoadPops, OthersStay, n
<1>5. CASE rest # <<>>
  <2> DEFINE f == rest[n - 1]
             g == [f EXCEPT !.new = o]
  <2>1. n > 1 /\ f = stack[t][n - 1] /\ f \in FrameType
    BY <1>1, <1>2, <1>5
  <2>2. Last(rest) = f
    BY <1>2 DEF Last
  <2>3. /\ g \in FrameType /\ g.op = f.op /\ g.v = f.v /\ g.src = f.src /\ g.new = o
        /\ g.pc = f.pc /\ g.old = f.old /\ g.want = f.want /\ g.held = f.held
    <3>1. ASSUME NEW x \in FrameType PROVE
            LET y == [x EXCEPT !.new = o] IN
            /\ y \in FrameType /\ y.op = x.op /\ y.v = x.v /\ y.src = x.src /\ y.new = o
            /\ y.pc = x.pc /\ y.old = x.old /\ y.want = x.want /\ y.held = x.held
      BY DEF FrameType
    <3> QED BY <2>1, <3>1
  <2>4. r = Append(Front(rest), g)
    BY <1>5, <2>2
  <2> HIDE DEF g, r
  <2>5. /\ r \in Seq(FrameType) /\ Len(r) = n - 1 /\ r[n - 1] = g
        /\ \A i \in 1 .. n - 2 : r[i] = rest[i]
    <3>1. /\ r \in Seq(FrameType) /\ Len(r) = Len(rest)
          /\ \A i \in 1 .. Len(rest) - 1 : r[i] = rest[i]
          /\ r[Len(rest)] = g
      BY <1>2, <1>5, <2>3, <2>4, LastReplaced
    <3> QED BY <1>1, <1>2, <2>1, <3>1
  <2>6. \A i \in 1 .. n - 2 : r[i] = stack[t][i]
    BY <1>1, <1>2, <2>5
  <2>7. stack'[t] = r /\ OthersStay(t)
    BY <1>1, <1>3, <2>5 DEF OthersStay
  <2>8. n = Len(stack[t])
    BY DEF n
  <2> QED BY <2>1, <2>3, <2>5, <2>6, <2>7, <2>8 DEF LoadPops
<1> QED BY <1>4, <1>5


--------------------------------------------------------------------------------
(* What the frames of all threads keep when those of one change *)

\* The first m frames of t are still the same calls.
SameCall(f, g) ==
  g.op = f.op /\ g.v = f.v /\ g.src = f.src /\ (f.op = "dealloc" => g.new = f.new)

Keeps(t, m) ==
  /\ OthersStay(t) /\ m \in 0 .. Len(stack[t]) /\ m <= Len(stack'[t])
  /\ \A i \in 1 .. m : SameCall(stack[t][i], stack'[t][i])

\* Two frames that may not be at work at the same time.
Conflict(f, g) == OwnsOf(f) \cap UsesOf(g) # {} \/ OwnsOf(g) \cap UsesOf(f) # {}

\* A frame is one of the first m, or of another thread.
LEMMA KeptFrame ==
  ASSUME TypeInv, NEW t \in Thread, NEW m, Keeps(t, m), NEW u \in Thread,
         NEW i \in DOMAIN stack'[u], u = t => i <= m
  PROVE  /\ i \in DOMAIN stack[u] /\ SameCall(stack[u][i], stack'[u][i])
         /\ 1 \in DOMAIN stack[u] /\ SameCall(stack[u][1], stack'[u][1])
         /\ u # t => stack'[u] = stack[u]
<1>1. stack[u] \in Seq(FrameType) /\ stack'[u] \in Seq(FrameType)
  BY DEF TypeInv, Keeps, OthersStay
<1>2. i \in 1 .. Len(stack'[u]) /\ i \in Nat \ {0} /\ Len(stack[t]) \in Nat
  BY <1>1 DEF TypeInv
<1>3. CASE u = t
  BY <1>1, <1>2, <1>3 DEF Keeps
<1>4. CASE u # t
  BY <1>1, <1>2, <1>4 DEF Keeps, OthersStay, SameCall
<1> QED BY <1>3, <1>4

LEMMA ExclusiveKept ==
  ASSUME TypeInv, ExclusiveInv, NEW t \in Thread, NEW m, Keeps(t, m),
         \A i \in DOMAIN stack'[t] : i > m =>
           \A u \in Thread : \A j \in DOMAIN stack'[u] :
             Conflict(stack'[t][i], stack'[u][j]) => t = u /\ (i = j \/ Kin(stack'[t], i, j))
  PROVE  ExclusiveInv'
<1>1. ASSUME NEW u \in Thread, NEW w \in Thread,
             NEW i \in DOMAIN stack'[u], NEW j \in DOMAIN stack'[w],
             OwnsOf(stack'[u][i]) \cap UsesOf(stack'[w][j]) # {}
      PROVE  u = w /\ (i = j \/ Kin(stack'[u], i, j))
  <2>0. m \in Nat /\ i \in Nat /\ j \in Nat
    <3>1. /\ stack[t] \in Seq(FrameType) /\ stack'[u] \in Seq(FrameType)
          /\ stack'[w] \in Seq(FrameType)
      BY DEF TypeInv, Keeps, OthersStay
    <3> QED BY <3>1 DEF Keeps
  <2>1. CASE u = t /\ i > m
    <3>1. Conflict(stack'[u][i], stack'[w][j])
      BY <1>1 DEF Conflict
    <3> QED BY <2>1, <3>1
  <2>2. CASE w = t /\ j > m
    <3>1. Conflict(stack'[w][j], stack'[u][i])
      BY <1>1 DEF Conflict
    <3>2. w = u /\ (j = i \/ Kin(stack'[w], j, i))
      BY <2>2, <3>1
    <3> QED BY <3>2 DEF Kin
  <2>3. CASE (u = t => i <= m) /\ (w = t => j <= m)
    <3>1. /\ i \in DOMAIN stack[u] /\ SameCall(stack[u][i], stack'[u][i])
          /\ SameCall(stack[u][1], stack'[u][1])
      BY <2>3, KeptFrame
    <3>2. j \in DOMAIN stack[w] /\ SameCall(stack[w][j], stack'[w][j])
      BY <2>3, KeptFrame
    <3>3. OwnsOf(stack[u][i]) = OwnsOf(stack'[u][i]) /\ UsesOf(stack[w][j]) = UsesOf(stack'[w][j])
      BY <3>1, <3>2 DEF OwnsOf, UsesOf, SameCall
    <3>4. u = w /\ (i = j \/ Kin(stack[u], i, j))
      BY <1>1, <3>1, <3>2, <3>3 DEF ExclusiveInv
    <3> QED BY <3>1, <3>4 DEF Kin, SameCall
  <2> QED BY <2>0, <2>1, <2>2, <2>3
<1> QED BY <1>1 DEF ExclusiveInv

LEMMA OneDeallocKept ==
  ASSUME TypeInv, OneDeallocInv, NEW t \in Thread, NEW m, Keeps(t, m),
         \A i \in DOMAIN stack'[t] : i > m /\ stack'[t][i].op = "dealloc" =>
           \A u \in Thread : \A j \in DOMAIN stack'[u] :
             stack'[u][j].op = "dealloc" /\ stack'[u][j].new = stack'[t][i].new => t = u /\ i = j
  PROVE  OneDeallocInv'
<1>1. ASSUME NEW u \in Thread, NEW w \in Thread,
             NEW i \in DOMAIN stack'[u], NEW j \in DOMAIN stack'[w],
             stack'[u][i].op = "dealloc", stack'[w][j].op = "dealloc",
             stack'[u][i].new = stack'[w][j].new
      PROVE  u = w /\ i = j
  <2>0. m \in Nat /\ i \in Nat /\ j \in Nat
    <3>1. /\ stack[t] \in Seq(FrameType) /\ stack'[u] \in Seq(FrameType)
          /\ stack'[w] \in Seq(FrameType)
      BY DEF TypeInv, Keeps, OthersStay
    <3> QED BY <3>1 DEF Keeps
  <2>1. CASE u = t /\ i > m
    BY <1>1, <2>1
  <2>2. CASE w = t /\ j > m
    BY <1>1, <2>2
  <2>3. CASE (u = t => i <= m) /\ (w = t => j <= m)
    <3>1. i \in DOMAIN stack[u] /\ SameCall(stack[u][i], stack'[u][i])
      BY <2>3, KeptFrame
    <3>2. j \in DOMAIN stack[w] /\ SameCall(stack[w][j], stack'[w][j])
      BY <2>3, KeptFrame
    <3> QED BY <1>1, <3>1, <3>2 DEF OneDeallocInv, SameCall
  <2> QED BY <2>0, <2>1, <2>2, <2>3
<1> QED BY <1>1 DEF OneDeallocInv


--------------------------------------------------------------------------------
(* Steps that leave the variables and the objects alone *)

Quiet == UNCHANGED <<location, weakVars, referrers, object, strong, weakly_referenced>>

LEMMA QuietFrame ==
  ASSUME Quiet, NEW u, NEW i, NEW f, f = stack'[u][i], GoodFrame(u, f)
  PROVE  GoodFrame(u, stack[u][i])'
BY DEF Quiet, GoodFrame, FormOK, VarOK, ObjectOK, CopyOK

LEMMA QuietInv ==
  ASSUME IInv, Quiet, TypeInv', NEW t \in Thread, OthersStay(t),
         KinOK(stack'[t]), NilOK(stack'[t]),
         \A i \in DOMAIN stack'[t] : GoodFrame(t, stack'[t][i]),
         ExclusiveInv', OneDeallocInv'
  PROVE  IInv'
<1>1. ASSUME NEW u \in Thread PROVE KinOK(stack'[u]) /\ NilOK(stack'[u])
  BY DEF IInv, FramesInv, OthersStay
<1>2. ASSUME NEW u \in Thread, NEW i \in DOMAIN stack'[u] PROVE GoodFrame(u, stack[u][i])'
  <2>1. PICK f : f = stack'[u][i]
    OBVIOUS
  <2>2. GoodFrame(u, f)
    BY <2>1 DEF IInv, FramesInv, OthersStay
  <2> QED BY <2>1, <2>2, QuietFrame
<1>3. ASSUME NEW u \in Thread PROVE KinOK(stack[u])' /\ NilOK(stack[u])'
  <2>1. KinOK(stack[u])'
    BY <1>1 DEF KinOK
  <2>2. NilOK(stack[u])'
    BY <1>1 DEF NilOK, Quiet
  <2> QED BY <2>1, <2>2
<1>4. FramesInv'
  BY <1>2, <1>3 DEF FramesInv
<1>5. OwnedInv' /\ EntryInv'
  BY DEF IInv, OwnedInv, EntryInv, Quiet
<1> QED BY <1>4, <1>5 DEF IInv

\* The function of a frame, from where it is.
LEMMA OpOf ==
  ASSUME NEW f \in FrameType, FormOK(f)
  PROVE  /\ f.pc = "store" => f.op \in Stores
         /\ f.pc = "load" => f.op = "loadWeakRetained"
         /\ f.pc \in {"read", "class_initialize"} => f.op \in Stores \cup {"loadWeakRetained"}
         /\ f.pc = "body" => f.op \in {"initialize", "dealloc"}
         /\ f.pc = "done" => f.op = "initialize"
         /\ f.pc \in {"rootDealloc", "clear", "free"} => f.op = "dealloc"
         /\ f.pc \in {"init", "release"} => f.op \in Copies
         /\ f.pc \in {"destroy", "nil"} => f.op = "moveWeak"
         /\ f.op \in Copies => f.pc \in {"init", "release", "destroy", "nil"}
BY DEF FormOK, PcsOf, FrameType, OpType, Stores, Copies

LEMMA TopGood ==
  ASSUME IInv, NEW t \in Thread, stack[t] # <<>>
  PROVE  GoodFrame(t, top(t)) /\ FormOK(top(t)) /\ top(t) \in FrameType
<1>1. TypeInv /\ FramesInv
  BY DEF IInv
<1>2. top(t) = stack[t][Len(stack[t])] /\ Len(stack[t]) \in DOMAIN stack[t] /\ top(t) \in FrameType
  BY <1>1, TopFrame
<1> QED BY <1>1, <1>2 DEF FramesInv, GoodFrame

\* The innermost frame is the same call, further on: so the others are as good.
LEMMA TurnFrames ==
  ASSUME IInv, NEW t \in Thread, stack[t] # <<>>, top(t).op \notin Copies,
         NEW g, Replaces(t, g), Turned(top(t), g), FormOK(g)
  PROVE  /\ ExclusiveInv' /\ OneDeallocInv' /\ KinOK(stack'[t]) /\ NilOK(stack'[t])
         /\ \A i \in DOMAIN stack'[t] :
              \/ stack'[t][i] = g
              \/ i \in DOMAIN stack[t] /\ i # Len(stack[t]) /\ stack'[t][i] = stack[t][i]
         /\ g.pc \notin {"init", "release", "destroy", "nil"} /\ g.op # "copyWeak"
<1> DEFINE n == Len(stack[t])
           f == top(t)
<1>0. TypeInv /\ FramesInv /\ ExclusiveInv /\ OneDeallocInv
  BY DEF IInv
<1>1. /\ n \in Nat \ {0} /\ n \in DOMAIN stack[t] /\ DOMAIN stack[t] = 1 .. n /\ f = stack[t][n]
      /\ f \in FrameType
  BY <1>0, TopFrame
<1>2. /\ stack'[t] \in Seq(FrameType) /\ DOMAIN stack'[t] = 1 .. n /\ stack'[t][n] = g
      /\ \A i \in 1 .. n - 1 : stack'[t][i] = stack[t][i]
  BY <1>1 DEF Replaces, OthersStay
<1> HIDE DEF n
<1>3. Keeps(t, n)
  <2>1. \A i \in 1 .. n : SameCall(stack[t][i], stack'[t][i])
    BY <1>1, <1>2 DEF SameCall, Turned
  <2> QED BY <1>1, <2>1 DEF Keeps, Replaces, n
<1>4. ExclusiveInv' /\ OneDeallocInv'
  BY <1>0, <1>1, <1>2, <1>3, ExclusiveKept, OneDeallocKept
<1>5. KinOK(stack[t]) /\ NilOK(stack[t])
  BY <1>0 DEF FramesInv
<1>6. /\ Len(stack'[t]) = n /\ Len(stack[t]) = n
  BY DEF Replaces, n
<1>7. /\ g.op = f.op /\ g.v = f.v /\ f.op \notin Copies /\ g.op # "copyWeak"
      /\ g.pc \notin {"init", "release", "destroy", "nil"}
  BY DEF Turned, FormOK, PcsOf, Copies, Stores, FrameType, OpType
<1>8. KinOK(stack'[t])
  <2>1. \A i \in 1 .. n : stack'[t][i].op = stack[t][i].op /\ stack'[t][i].v = stack[t][i].v
    BY <1>1, <1>2, <1>7
  <2>2. stack[t][1].op \in Copies => n > 1 /\ stack'[t][1] = stack[t][1]
    BY <1>1, <1>2, <1>7
  <2> QED BY <1>1, <1>2, <1>5, <1>6, <2>1, <2>2 DEF KinOK
<1>9. NilOK(stack'[t])
  BY <1>1, <1>2, <1>6, <1>7 DEF NilOK
<1>10. \A i \in DOMAIN stack'[t] :
         \/ stack'[t][i] = g
         \/ i \in DOMAIN stack[t] /\ i # n /\ stack'[t][i] = stack[t][i]
  BY <1>1, <1>2
<1> QED BY <1>4, <1>6, <1>7, <1>8, <1>9, <1>10

\* A call goes on.
LEMMA TurnInv ==
  ASSUME IInv, Quiet, TypeInv', NEW t \in Thread, stack[t] # <<>>, top(t).op \notin Copies,
         NEW g, Replaces(t, g), Turned(top(t), g), FormOK(g),
         g.pc = "free" => referrers[g.new] = {}
  PROVE  IInv'
<1> DEFINE f == top(t)
<1>1. /\ ExclusiveInv' /\ OneDeallocInv' /\ KinOK(stack'[t]) /\ NilOK(stack'[t])
      /\ \A i \in DOMAIN stack'[t] :
           \/ stack'[t][i] = g
           \/ i \in DOMAIN stack[t] /\ i # Len(stack[t]) /\ stack'[t][i] = stack[t][i]
      /\ g.pc \notin {"init", "release", "destroy", "nil"} /\ g.op # "copyWeak"
  BY TurnFrames
<1>2. GoodFrame(t, f)
  BY TopGood
<1>3. VarOK(g)
  BY <1>1, <1>2 DEF GoodFrame, VarOK, Turned
<1>4. ObjectOK(g) /\ CopyOK(t, g)
  BY <1>1, <1>2 DEF GoodFrame, ObjectOK, CopyOK, Turned
<1>5. \A i \in DOMAIN stack[t] : GoodFrame(t, stack[t][i])
  BY DEF IInv, FramesInv
<1>6. \A i \in DOMAIN stack'[t] : GoodFrame(t, stack'[t][i])
  BY <1>1, <1>3, <1>4, <1>5 DEF GoodFrame
<1>7. OthersStay(t)
  BY DEF Replaces
<1> QED BY <1>1, <1>6, <1>7, QuietInv

--------------------------------------------------------------------------------
(* The calls that go on *)

LEMMA UnlockType ==
  ASSUME TypeInv, NEW t \in Thread, unlock(t) PROVE lock' \in [Table -> Thread \cup {nil}]
BY DEF TypeInv, unlock

LEMMA TablesType ==
  ASSUME NEW f \in FrameType, NEW o \in Object \cup {nil} PROVE Tables(f, o) \in Seq(Table)
<1>1. TableOf[o] \in Table /\ TableOf[f.new] \in Table
  BY TableAssumption DEF FrameType
<1>2. ASSUME NEW a \in Table, NEW b \in Table PROVE lockTwo(a, b) \in Seq(Table) /\ <<a>> \in Seq(Table)
  BY DEF lockTwo
<1> QED BY <1>1, <1>2 DEF Tables

LEMMA LockStep ==
  ASSUME IInv, NEW t \in Thread, Lock(t) PROVE IInv'
<1> DEFINE f == top(t)
           n == Head(f.want)
           g == [f EXCEPT !.want = Tail(f.want), !.held = f.held \cup {n}]
<1>1. stack[t] # <<>> /\ f.want # <<>> /\ TypeInv
  BY DEF Lock, IInv
<1>2. f \in FrameType /\ FormOK(f)
  BY <1>1, TopGood
<1>3. f.want \in Seq(Table) /\ f.held \in SUBSET Table
  BY <1>2 DEF FrameType
<1>4. n \in Table /\ Tail(f.want) \in Seq(Table) /\ f.held \cup {n} \in SUBSET Table
  BY <1>1, <1>3
<1>5. Turned(f, g) /\ g.pc = f.pc /\ g.old = f.old
  BY <1>2, <1>4 DEF Turned, FrameType, PcType
<1>6. Set(t, g) /\ lock' = [lock EXCEPT ![n] = t] /\ Quiet /\ UNCHANGED <<class, errors, calls>>
  BY DEF Lock, Quiet, heap
<1>7. g \in FrameType
  BY <1>5 DEF Turned
<1>8. Replaces(t, g)
  BY <1>1, <1>6, <1>7, SetEffect
<1>9. f.pc \in {"store", "load", "clear"}
  BY <1>1, <1>2 DEF FormOK
<1>10. f.op \notin Copies
  BY <1>2, <1>9, OpOf DEF Stores, Copies
<1>11. FormOK(g)
  BY <1>2, <1>5, <1>9 DEF FormOK, Turned
<1>12. TypeInv'
  BY <1>1, <1>4, <1>6, <1>8 DEF TypeInv, Quiet, Replaces, OthersStay
<1> HIDE DEF g
<1> QED BY <1>1, <1>5, <1>6, <1>8, <1>9, <1>10, <1>11, <1>12, TurnInv

\* Whatever the new place of a store or load, once its table is unlocked.
LEMMA BackStep ==
  ASSUME IInv, NEW t \in Thread, stack[t] # <<>>, top(t).op \in Stores \cup {"loadWeakRetained"},
         NEW g, Turned(top(t), g), Set(t, g), g.pc \in {"read", "class_initialize"}, g.want = <<>>,
         g.pc = "class_initialize" => g.old # nil, Quiet, lock' \in [Table -> Thread \cup {nil}], UNCHANGED <<errors, calls, class>>
  PROVE  IInv'
<1>1. TypeInv /\ g \in FrameType /\ FormOK(top(t)) /\ top(t) \in FrameType
  BY TopGood DEF IInv, Turned
<1>2. Replaces(t, g)
  BY <1>1, SetEffect
<1>3. top(t).op \notin Copies
  BY DEF Stores, Copies
<1>4. FormOK(g)
  BY <1>1 DEF FormOK, Turned, PcsOf, Stores, Copies
<1>5. TypeInv'
  BY <1>1, <1>2 DEF TypeInv, Quiet, Replaces, OthersStay
<1> QED BY <1>2, <1>3, <1>4, <1>5, TurnInv

LEMMA StoreRetryStep ==
  ASSUME IInv, NEW t \in Thread, StoreRetry(t) PROVE IInv'
<1> DEFINE g == [top(t) EXCEPT !.held = {}, !.pc = "read"]
<1>1. stack[t] # <<>> /\ top(t).pc = "store" /\ top(t).want = <<>> /\ TypeInv
  BY DEF StoreRetry, Locked, At, IInv
<1>2. top(t) \in FrameType /\ FormOK(top(t)) /\ top(t).op \in Stores
  BY <1>1, TopGood, OpOf
<1>3. Turned(top(t), g) /\ g.pc = "read" /\ g.want = <<>>
  BY <1>1, <1>2 DEF Turned, FrameType, PcType
<1>4. Set(t, g) /\ Quiet /\ UNCHANGED <<errors, calls, class>> /\ unlock(t)
  BY DEF StoreRetry, Quiet, heap
<1> HIDE DEF g
<1> QED BY <1>1, <1>2, <1>3, <1>4, UnlockType, BackStep

LEMMA StoreInitializesStep ==
  ASSUME IInv, NEW t \in Thread, StoreInitializes(t) PROVE IInv'
<1> DEFINE g == [top(t) EXCEPT !.held = {}, !.pc = "class_initialize", !.old = top(t).new]
<1>1. stack[t] # <<>> /\ top(t).pc = "store" /\ top(t).want = <<>> /\ TypeInv
  BY DEF StoreInitializes, Locked, At, IInv
<1>2. top(t) \in FrameType /\ FormOK(top(t)) /\ top(t).op \in Stores /\ top(t).new \in Object \cup {nil}
  BY <1>1, TopGood, OpOf DEF FrameType
<1>3. Turned(top(t), g) /\ g.pc = "class_initialize" /\ g.want = <<>> /\ g.old = top(t).new
  BY <1>1, <1>2 DEF Turned, FrameType, PcType
<1>4. Set(t, g) /\ Quiet /\ UNCHANGED <<errors, calls, class>> /\ unlock(t)
  BY DEF StoreInitializes, Quiet, heap
<1>5. top(t).new # nil
  BY DEF StoreInitializes, IsUninitialized
<1> HIDE DEF g
<1> QED BY <1>1, <1>2, <1>3, <1>4, <1>5, UnlockType, BackStep

\* The locks of a store, a load or a clearing come next.
LEMMA WantStep ==
  ASSUME IInv, NEW t \in Thread, stack[t] # <<>>, top(t).op \notin Copies,
         NEW g, Turned(top(t), g), Set(t, g), FormOK(g), g.pc # "free",
         Quiet, UNCHANGED <<errors, calls, class, lock>>
  PROVE  IInv'
<1>1. TypeInv /\ g \in FrameType
  BY DEF IInv, Turned
<1>2. Replaces(t, g)
  BY <1>1, SetEffect
<1>3. TypeInv'
  BY <1>1, <1>2 DEF TypeInv, Quiet, Replaces, OthersStay
<1> QED BY <1>2, <1>3, TurnInv

LEMMA ReadTablesStep ==
  ASSUME IInv, NEW t \in Thread, Read(t), haveOld(top(t).op) \/ top(t).new # nil PROVE IInv'
<1> DEFINE f == top(t)
           g == [f EXCEPT !.old = location[f.v], !.pc = "store", !.want = Tables(f, location[f.v])]
<1>1. stack[t] # <<>> /\ f.pc = "read" /\ f.op \in Stores /\ TypeInv
  BY DEF Read, At, IInv
<1>2. f \in FrameType /\ FormOK(f) /\ f.v \in Variable
  BY <1>1, TopGood DEF FormOK, Stores
<1>3. location[f.v] \in Object \cup {nil} /\ Tables(f, location[f.v]) \in Seq(Table)
  BY <1>1, <1>2, TablesType DEF TypeInv
<1>4. Turned(f, g) /\ g.pc = "store"
  BY <1>2, <1>3 DEF Turned, FrameType, PcType
<1>5. Set(t, g) /\ Quiet /\ UNCHANGED <<errors, calls, class, lock>>
  BY DEF Read, Quiet, heap
<1>6. FormOK(g)
  BY <1>1, <1>2, <1>4 DEF FormOK, Turned, PcsOf, Stores, Copies
<1>7. f.op \notin Copies
  BY <1>1 DEF Stores, Copies
<1> HIDE DEF g
<1> QED BY <1>1, <1>4, <1>5, <1>6, <1>7, WantStep


LEMMA LoadReadStep ==
  ASSUME IInv, NEW t \in Thread, LoadRead(t), location[top(t).v] # nil PROVE IInv'
<1> DEFINE f == top(t)
           o == location[f.v]
           g == [f EXCEPT !.old = o, !.pc = "load", !.want = <<TableOf[o]>>]
<1>1. stack[t] # <<>> /\ f.pc = "read" /\ f.op = "loadWeakRetained" /\ TypeInv
  BY DEF LoadRead, At, IInv
<1>2. f \in FrameType /\ FormOK(f) /\ f.v \in Variable
  BY <1>1, TopGood DEF FormOK
<1>3. o \in Object /\ TableOf[o] \in Table
  BY <1>1, <1>2, TableAssumption DEF TypeInv
<1>4. Set(t, g) /\ Quiet /\ UNCHANGED <<errors, calls, class, lock>>
  BY DEF LoadRead, Quiet, heap
<1> HIDE DEF o
<1>5. <<TableOf[o]>> \in Seq(Table)
  BY <1>3
<1>6. Turned(f, g) /\ g.pc = "load" /\ g.old = o
  BY <1>2, <1>3, <1>5 DEF Turned, FrameType, PcType
<1>7. FormOK(g)
  BY <1>1, <1>2, <1>3, <1>6, NilAssumption DEF FormOK, Turned, PcsOf, Stores, Copies
<1>8. f.op \notin Copies
  BY <1>1 DEF Copies
<1> HIDE DEF g
<1> QED BY <1>1, <1>4, <1>6, <1>7, <1>8, WantStep

LEMMA LoadRetryStep ==
  ASSUME IInv, NEW t \in Thread, Load(t), NEW l \in {"read", "class_initialize"},
         Set(t, [top(t) EXCEPT !.held = {}, !.pc = l]), UNCHANGED strong
  PROVE  IInv'
<1> DEFINE g == [top(t) EXCEPT !.held = {}, !.pc = l]
<1>1. stack[t] # <<>> /\ top(t).pc = "load" /\ top(t).want = <<>> /\ TypeInv
  BY DEF Load, Locked, At, IInv
<1>2. /\ top(t) \in FrameType /\ FormOK(top(t)) /\ top(t).op = "loadWeakRetained"
      /\ top(t).old # nil
  BY <1>1, TopGood, OpOf DEF FormOK
<1>3. l \in PcType
  BY DEF PcType
<1>4. Turned(top(t), g) /\ g.pc = l /\ g.want = <<>> /\ g.old = top(t).old
  BY <1>1, <1>2, <1>3 DEF Turned, FrameType
<1>5. Set(t, g) /\ Quiet /\ UNCHANGED <<errors, calls, class>> /\ unlock(t)
  BY DEF Load, Quiet
<1> HIDE DEF g
<1> QED BY <1>1, <1>2, <1>4, <1>5, UnlockType, BackStep

LEMMA ClassInitializedStep ==
  ASSUME IInv, NEW t \in Thread, ClassInitialize(t), UNCHANGED class,
         Set(t, [top(t) EXCEPT !.pc = "read", !.prev = TRUE])
  PROVE  IInv'
<1> DEFINE g == [top(t) EXCEPT !.pc = "read", !.prev = TRUE]
<1>1. stack[t] # <<>> /\ top(t).pc = "class_initialize" /\ TypeInv
  BY DEF ClassInitialize, At, IInv
<1>2. /\ top(t) \in FrameType /\ FormOK(top(t)) /\ top(t).op \in Stores \cup {"loadWeakRetained"}
      /\ top(t).want = <<>>
  BY <1>1, TopGood, OpOf DEF FormOK
<1>3. Turned(top(t), g) /\ g.pc = "read" /\ g.want = <<>>
  BY <1>1, <1>2 DEF Turned, FrameType, PcType
<1>4. /\ Set(t, g) /\ Quiet /\ UNCHANGED <<errors, calls, class>>
      /\ lock' \in [Table -> Thread \cup {nil}]
  BY <1>1 DEF ClassInitialize, Quiet, heap, TypeInv
<1> HIDE DEF g
<1> QED BY <1>1, <1>2, <1>3, <1>4, BackStep

LEMMA GotoStep ==
  ASSUME IInv, NEW t \in Thread, stack[t] # <<>>, NEW l \in PcType, Goto(t, l),
         top(t).op \in {"initialize", "dealloc"}, l \in PcsOf(top(t).op) \ {"clear"},
         top(t).pc # "clear", l = "free" => referrers[top(t).new] = {},
         Quiet, UNCHANGED <<errors, calls, class, lock>>
  PROVE  IInv'
<1> DEFINE g == [top(t) EXCEPT !.pc = l]
<1>1. TypeInv /\ top(t) \in FrameType /\ FormOK(top(t))
  BY TopGood DEF IInv
<1>2. Turned(top(t), g) /\ g.pc = l /\ g.want = top(t).want
  BY <1>1, PcChanged
<1>3. Set(t, g)
  BY DEF Goto
<1> HIDE DEF g
<1>4. top(t).op \notin Copies /\ g \in FrameType
  BY <1>2 DEF Copies, Turned
<1>5. FormOK(g)
  BY <1>1, <1>2 DEF FormOK, Turned, PcsOf, Stores, Copies
<1>6. Replaces(t, g)
  BY <1>1, <1>3, <1>4, SetEffect
<1>7. TypeInv'
  BY <1>1, <1>6 DEF TypeInv, Quiet, Replaces, OthersStay
<1>8. g.pc = "free" => referrers[g.new] = {}
  BY <1>2 DEF Turned
<1> QED BY <1>2, <1>4, <1>5, <1>6, <1>7, <1>8, TurnInv

LEMMA RootDeallocStep ==
  ASSUME IInv, NEW t \in Thread, rootDealloc(t) PROVE IInv'
<1> DEFINE f == top(t)
<1>1. stack[t] # <<>> /\ f.pc = "rootDealloc" /\ TypeInv /\ EntryInv
  BY DEF rootDealloc, At, IInv
<1>2. f \in FrameType /\ FormOK(f) /\ f.op = "dealloc" /\ f.new \in Object /\ f.want = <<>>
  BY <1>1, TopGood, OpOf DEF FormOK, FrameType
<1>3. Quiet /\ UNCHANGED <<errors, calls, class, lock>>
  BY DEF rootDealloc, Quiet, heap
<1>4. CASE f.new \in weakly_referenced
  <2> DEFINE g == [f EXCEPT !.pc = "clear", !.want = <<TableOf[f.new]>>]
  <2>1. TableOf[f.new] \in Table
    BY <1>2, TableAssumption
  <2>2. <<TableOf[f.new]>> \in Seq(Table)
    BY <2>1
  <2>3. Turned(f, g) /\ g.pc = "clear"
    BY <1>2, <2>2 DEF Turned, FrameType, PcType
  <2>4. Set(t, g)
    BY <1>4 DEF rootDealloc
  <2> HIDE DEF g
  <2>5. FormOK(g)
    BY <1>2, <2>3 DEF FormOK, Turned, PcsOf, Stores, Copies
  <2>6. f.op \notin Copies
    BY <1>2 DEF Copies
  <2> QED BY <1>1, <1>3, <2>3, <2>4, <2>5, <2>6, WantStep
<1>5. CASE f.new \notin weakly_referenced
  <2>1. referrers[f.new] = {}
    BY <1>1, <1>2, <1>5 DEF EntryInv
  <2>2. "free" \in PcsOf(f.op) \ {"clear"} /\ "free" \in PcType
    BY <1>2 DEF PcsOf, PcType, Stores
  <2>3. Goto(t, "free")
    BY <1>5 DEF rootDealloc
  <2> QED BY <1>1, <1>2, <1>3, <2>1, <2>2, <2>3, GotoStep
<1> QED BY <1>4, <1>5


--------------------------------------------------------------------------------
(* The calls that call *)

\* f is put on the frames of t; what it uses, its caller alone may have.
LEMMA PushInv ==
  ASSUME IInv, Quiet, TypeInv', NEW t \in Thread, stack[t] # <<>>,
         NEW g, NEW f, Pushes(t, g, f), Turned(top(t), g), GoodFrame(t, g), GoodFrame(t, f),
         KinOK(stack'[t]), f.op # "dealloc",
         \A u \in Thread : \A j \in DOMAIN stack[u] :
           Conflict(f, stack[u][j]) => u = t /\ Kin(stack[t], Len(stack[t]) + 1, j)
  PROVE  IInv'
<1> DEFINE n == Len(stack[t])
<1>0. TypeInv /\ FramesInv /\ ExclusiveInv /\ OneDeallocInv
  BY DEF IInv
<1>1. /\ n \in Nat \ {0} /\ n \in DOMAIN stack[t] /\ DOMAIN stack[t] = 1 .. n
      /\ top(t) = stack[t][n]
  BY <1>0, TopFrame
<1>2. /\ stack'[t] \in Seq(FrameType) /\ Len(stack'[t]) = n + 1 /\ DOMAIN stack'[t] = 1 .. n + 1
      /\ stack'[t][n] = g /\ stack'[t][n + 1] = f
      /\ \A i \in 1 .. n - 1 : stack'[t][i] = stack[t][i]
  BY <1>1 DEF Pushes, OthersStay
<1>3. Keeps(t, n)
  <2>1. \A i \in 1 .. n : SameCall(stack[t][i], stack'[t][i])
    BY <1>1, <1>2 DEF SameCall, Turned
  <2> QED BY <1>1, <1>2, <2>1 DEF Keeps, Pushes
<1> HIDE DEF n
<1>4. ASSUME NEW u \in Thread, NEW j \in DOMAIN stack'[u], Conflict(f, stack'[u][j])
      PROVE  t = u /\ (n + 1 = j \/ Kin(stack'[t], n + 1, j))
  <2>1. CASE u = t /\ j = n + 1
    BY <2>1
  <2>2. CASE ~(u = t /\ j = n + 1)
    <3>1. u = t => j <= n
      BY <1>1, <1>2, <2>2
    <3>2. /\ j \in DOMAIN stack[u] /\ SameCall(stack[u][j], stack'[u][j])
          /\ SameCall(stack[u][1], stack'[u][1])
      BY <1>0, <1>3, <3>1, KeptFrame
    <3>3. Conflict(f, stack[u][j])
      BY <1>4, <3>2 DEF Conflict, OwnsOf, UsesOf, SameCall
    <3>4. u = t /\ Kin(stack[t], n + 1, j)
      BY <3>2, <3>3 DEF n
    <3> QED BY <3>2, <3>4 DEF Kin, SameCall
  <2> QED BY <2>1, <2>2
<1>5. ExclusiveInv'
  <2>1. \A i \in DOMAIN stack'[t] : i > n => i = n + 1
    BY <1>1, <1>2
  <2> QED BY <1>0, <1>2, <1>3, <1>4, <2>1, ExclusiveKept
<1>6. OneDeallocInv'
  <2>1. \A i \in DOMAIN stack'[t] : i > n => i = n + 1
    BY <1>1, <1>2
  <2> QED BY <1>0, <1>2, <1>3, <2>1, OneDeallocKept
<1>7. \A i \in DOMAIN stack'[t] : GoodFrame(t, stack'[t][i])
  <2>1. \A i \in 1 .. n - 1 : GoodFrame(t, stack[t][i])
    BY <1>0, <1>1 DEF FramesInv
  <2>2. \A i \in 1 .. n + 1 : i = n + 1 \/ i = n \/ i \in 1 .. n - 1
    BY <1>1
  <2> QED BY <1>2, <2>1, <2>2
<1>8. NilOK(stack'[t])
  BY <1>1, <1>2 DEF NilOK
<1>9. OthersStay(t)
  BY DEF Pushes
<1> QED BY <1>5, <1>6, <1>7, <1>8, <1>9, QuietInv

\* On top of a call other than a copy or a move, anything but those and a load.
LEMMA PushKin ==
  ASSUME IInv, NEW t \in Thread, stack[t] # <<>>, NEW g, NEW f, Pushes(t, g, f), Turned(top(t), g),
         top(t).op \notin Copies, f.op \notin Copies \cup {"loadWeakRetained"}
  PROVE  KinOK(stack'[t])
<1> DEFINE n == Len(stack[t])
<1>0. TypeInv /\ FramesInv
  BY DEF IInv
<1>1. /\ n \in Nat \ {0} /\ n \in DOMAIN stack[t] /\ DOMAIN stack[t] = 1 .. n
      /\ top(t) = stack[t][n]
  BY <1>0, TopFrame
<1>2. /\ stack'[t] \in Seq(FrameType) /\ Len(stack'[t]) = n + 1 /\ DOMAIN stack'[t] = 1 .. n + 1
      /\ stack'[t][n] = g /\ stack'[t][n + 1] = f
      /\ \A i \in 1 .. n - 1 : stack'[t][i] = stack[t][i]
  BY <1>1 DEF Pushes, OthersStay
<1>3. KinOK(stack[t]) /\ Len(stack[t]) = n
  BY <1>0 DEF FramesInv
<1> HIDE DEF n
<1>4. g.op = top(t).op /\ g.v = top(t).v
  BY DEF Turned
<1>5. \A i \in 1 .. n : stack'[t][i].op = stack[t][i].op /\ stack'[t][i].v = stack[t][i].v
  BY <1>1, <1>2, <1>4
<1>6. stack[t][1].op \in Copies => n > 1 /\ stack'[t][1] = stack[t][1]
  BY <1>1, <1>2
<1>7. /\ \A i \in 1 .. n + 1 : i = n + 1 \/ i \in 1 .. n
      /\ n > 1 => 1 \in 1 .. n /\ 2 \in 1 .. n
      /\ 1 \in 1 .. n
  BY <1>1
<1>8. ASSUME NEW i \in DOMAIN stack'[t]
      PROVE  /\ stack'[t][i].op \in Copies => i = 1
             /\ stack'[t][i].op = "loadWeakRetained" /\ i > 1 =>
                  i = 2 /\ stack'[t][1].op \in Copies /\ stack'[t][1].pc = "init"
  <2>1. CASE i = n + 1
    BY <1>2, <2>1
  <2>2. CASE i \in 1 .. n
    <3>1. stack[t][i].op \in Copies => i = 1
      BY <1>1, <1>3, <2>2 DEF KinOK
    <3>2. stack[t][i].op = "loadWeakRetained" /\ i > 1 =>
            i = 2 /\ stack[t][1].op \in Copies /\ stack[t][1].pc = "init"
      BY <1>1, <1>3, <2>2 DEF KinOK
    <3> QED BY <1>5, <1>6, <2>2, <3>1, <3>2
  <2> QED BY <1>2, <1>7, <2>1, <2>2
<1>9. stack'[t][1].op \in Copies =>
        /\ stack'[t][2].op = stack[t][2].op /\ stack'[t][2].v = stack[t][2].v
        /\ stack'[t][1] = stack[t][1] /\ n > 1 /\ stack[t][1].op \in Copies
  BY <1>5, <1>6, <1>7
<1> QED BY <1>3, <1>8, <1>9 DEF KinOK

\* Nobody owns a shared variable.
LEMMA SharedFree ==
  ASSUME NEW v, Shared(v), NEW u \in Thread, NEW j \in DOMAIN stack[u]
  PROVE  v \notin OwnsOf(stack[u][j])
<1>1. ~Owns(u, v)
  BY DEF Shared
<1> QED BY <1>1 DEF Owns, OwnsOf, Inits

LEMMA IdleFree ==
  ASSUME NEW v, Idle(v), NEW u \in Thread, NEW j \in DOMAIN stack[u]
  PROVE  v \notin OwnsOf(stack[u][j]) /\ v \notin UsesOf(stack[u][j])
<1>1. ~Uses(u, v)
  BY DEF Idle
<1> QED BY <1>1 DEF Uses, OwnsOf, UsesOf

\* The caller of a new call is as good as it was.
LEMMA CallerGood ==
  ASSUME IInv, NEW t \in Thread, stack[t] # <<>>, top(t).op \notin Copies, NEW l \in PcType,
         l \in PcsOf(top(t).op) \ {"free", "load"},
         top(t).want # <<>> => l \in {"store", "clear"}, l = "class_initialize" => top(t).old # nil
  PROVE  LET g == [top(t) EXCEPT !.pc = l] IN Turned(top(t), g) /\ GoodFrame(t, g)
<1> DEFINE g == [top(t) EXCEPT !.pc = l]
<1>1. TypeInv /\ top(t) \in FrameType /\ GoodFrame(t, top(t)) /\ FormOK(top(t))
  BY TopGood DEF IInv
<1>2. Turned(top(t), g) /\ g.pc = l /\ g.want = top(t).want /\ g.old = top(t).old
  BY <1>1, PcChanged
<1> HIDE DEF g
<1>3. FormOK(g)
  BY <1>1, <1>2 DEF FormOK, Turned
<1>4. g.pc \notin {"init", "release", "destroy"} /\ g.op # "copyWeak"
  BY <1>1, <1>2 DEF PcsOf, Turned, Copies, Stores, FrameType, OpType
<1>5. VarOK(g) /\ ObjectOK(g) /\ CopyOK(t, g)
  BY <1>1, <1>2, <1>4 DEF GoodFrame, VarOK, ObjectOK, CopyOK, Turned
<1> QED BY <1>2, <1>3, <1>5 DEF g, GoodFrame


LEMMA RunsInitializeStep ==
  ASSUME IInv, NEW t \in Thread, ClassInitialize(t), class[top(t).old] = "uninitialized",
         class' = [class EXCEPT ![top(t).old] = t],
         Enter(t, "class_initialize", Frame("initialize", "body", nil, nil, top(t).old))
  PROVE  IInv'
<1> DEFINE f == Frame("initialize", "body", nil, nil, top(t).old)
           g == [top(t) EXCEPT !.pc = "class_initialize"]
<1>1. stack[t] # <<>> /\ top(t).pc = "class_initialize" /\ TypeInv
  BY DEF ClassInitialize, At, IInv
<1>2. /\ top(t) \in FrameType /\ FormOK(top(t)) /\ top(t).op \in Stores \cup {"loadWeakRetained"}
      /\ top(t).old \in Object \cup {nil} /\ top(t).want = <<>> /\ top(t).old # nil
  BY <1>1, TopGood, OpOf DEF FrameType, FormOK
<1>3. "initialize" \in OpType /\ "body" \in PcType /\ "class_initialize" \in PcType
  BY DEF OpType, PcType
<1>4. /\ f \in FrameType /\ f.op = "initialize" /\ f.pc = "body" /\ f.v = nil /\ f.src = nil
      /\ f.new = top(t).old /\ f.want = <<>>
  BY <1>2, <1>3 DEF Frame, FrameType
<1>5. Pushes(t, g, f)
  BY <1>1, <1>3, <1>4, EnterEffect
<1>6. top(t).op \notin Copies /\ "class_initialize" \in PcsOf(top(t).op) \ {"free", "load"}
  BY <1>2 DEF Copies, Stores, PcsOf
<1>7. Turned(top(t), g) /\ GoodFrame(t, g)
  BY <1>1, <1>2, <1>3, <1>6, CallerGood
<1> HIDE DEF f, g
<1>8. GoodFrame(t, f)
  BY <1>2, <1>4, NilAssumption DEF GoodFrame, FormOK, VarOK, ObjectOK, CopyOK, PcsOf, Stores, Copies, Inits
<1>9. KinOK(stack'[t])
  <2>1. f.op \notin Copies \cup {"loadWeakRetained"}
    BY <1>4 DEF Copies
  <2> QED BY <1>1, <1>5, <1>6, <1>7, <2>1, PushKin
<1>10. \A x : ~Conflict(f, x)
  BY <1>4 DEF Conflict, OwnsOf, UsesOf, Inits
<1>11. Quiet /\ UNCHANGED <<lock, errors, calls>>
  BY DEF ClassInitialize, Quiet, heap
<1>12. TypeInv'
  BY <1>1, <1>5, <1>11 DEF TypeInv, Quiet, Pushes, OthersStay
<1> QED BY <1>1, <1>4, <1>5, <1>7, <1>8, <1>9, <1>10, <1>11, <1>12, PushInv

\* +initialize and -dealloc store a weak reference to their object.
LEMMA NestedStoreStep ==
  ASSUME IInv, NEW t \in Thread, stack[t] # <<>>, top(t).pc = "body", NEW v \in weakVars, Shared(v),
         NEW op \in {"storeWeak", "storeWeakOrNil"}, NEW l \in PcType,
         l \in PcsOf(top(t).op) \ {"free", "load"},
         Enter(t, l, Frame(op, "read", v, nil, top(t).new)),
         Quiet, UNCHANGED <<lock, class, errors, calls>>
  PROVE  IInv'
<1> DEFINE f == Frame(op, "read", v, nil, top(t).new)
           g == [top(t) EXCEPT !.pc = l]
<1>1. TypeInv /\ v \in Variable
  BY DEF IInv, TypeInv
<1>2. /\ top(t) \in FrameType /\ FormOK(top(t)) /\ top(t).op \in {"initialize", "dealloc"}
      /\ top(t).new \in Object \cup {nil} /\ top(t).want = <<>>
  BY TopGood, OpOf DEF FrameType, FormOK
<1>3. op \in OpType /\ "read" \in PcType
  BY DEF OpType, PcType, Stores
<1>4. /\ f \in FrameType /\ f.op = op /\ f.pc = "read" /\ f.v = v /\ f.src = nil
      /\ f.new = top(t).new /\ f.want = <<>>
  BY <1>1, <1>2, <1>3 DEF Frame, FrameType
<1>5. Pushes(t, g, f)
  BY <1>1, <1>3, <1>4, EnterEffect
<1>6. top(t).op \notin Copies /\ l # "class_initialize"
  BY <1>2 DEF Copies, PcsOf, Stores
<1>7. Turned(top(t), g) /\ GoodFrame(t, g)
  BY <1>1, <1>2, <1>3, <1>6, CallerGood
<1> HIDE DEF f, g
<1>8. GoodFrame(t, f)
  BY <1>1, <1>4, NilAssumption
    DEF GoodFrame, FormOK, VarOK, ObjectOK, CopyOK, PcsOf, Stores, Copies, Inits
<1>9. KinOK(stack'[t])
  <2>1. f.op \notin Copies \cup {"loadWeakRetained"}
    BY <1>4 DEF Copies
  <2> QED BY <1>5, <1>6, <1>7, <2>1, PushKin
<1>10. ASSUME NEW u \in Thread, NEW j \in DOMAIN stack[u] PROVE ~Conflict(f, stack[u][j])
  <2>1. v \notin OwnsOf(stack[u][j])
    BY SharedFree
  <2>2. OwnsOf(f) = {} /\ UsesOf(f) \subseteq {v}
    BY <1>4 DEF OwnsOf, UsesOf, Inits
  <2> QED BY <2>1, <2>2 DEF Conflict
<1>11. TypeInv'
  BY <1>1, <1>5 DEF TypeInv, Quiet, Pushes, OthersStay
<1>12. f.op # "dealloc"
  BY <1>4
<1> QED BY <1>5, <1>7, <1>8, <1>9, <1>10, <1>11, <1>12, PushInv

LEMMA InitializeBodyStep ==
  ASSUME IInv, NEW t \in Thread, InitializeBody(t) PROVE IInv'
<1>1. /\ stack[t] # <<>> /\ top(t).pc = "body" /\ top(t).op = "initialize"
      /\ Quiet /\ UNCHANGED <<lock, class, errors, calls>>
  BY DEF InitializeBody, At, Quiet, heap
<1>2. "done" \in PcsOf(top(t).op) \ {"free", "load", "clear"} /\ "done" \in PcType
  BY <1>1 DEF PcsOf, PcType, Stores
<1>3. CASE Goto(t, "done")
  BY <1>1, <1>2, <1>3, GotoStep
<1>4. ASSUME NEW v \in weakVars, Shared(v),
             Enter(t, "done", Frame("storeWeak", "read", v, nil, top(t).new))
      PROVE  IInv'
  <2>1. "storeWeak" \in {"storeWeak", "storeWeakOrNil"}
    OBVIOUS
  <2> QED BY <1>1, <1>2, <1>4, <2>1, NestedStoreStep
<1> QED BY <1>3, <1>4 DEF InitializeBody

LEMMA DeallocBodyStep ==
  ASSUME IInv, NEW t \in Thread, DeallocBody(t) PROVE IInv'
<1>1. /\ stack[t] # <<>> /\ top(t).pc = "body" /\ top(t).op = "dealloc"
      /\ Quiet /\ UNCHANGED <<lock, class, errors, calls>>
  BY DEF DeallocBody, At, Quiet, heap
<1>2. "rootDealloc" \in PcsOf(top(t).op) \ {"free", "load", "clear"} /\ "rootDealloc" \in PcType
  BY <1>1 DEF PcsOf, PcType, Stores
<1>3. CASE Goto(t, "rootDealloc")
  BY <1>1, <1>2, <1>3, GotoStep
<1>4. ASSUME NEW v \in weakVars, Shared(v),
             Enter(t, "rootDealloc", Frame("storeWeakOrNil", "read", v, nil, top(t).new))
      PROVE  IInv'
  <2>1. "storeWeakOrNil" \in {"storeWeak", "storeWeakOrNil"}
    OBVIOUS
  <2> QED BY <1>1, <1>2, <1>4, <2>1, NestedStoreStep
<1> QED BY <1>3, <1>4 DEF DeallocBody


\* A copy or move on top is the only frame.
LEMMA CopyAlone ==
  ASSUME IInv, NEW t \in Thread, stack[t] # <<>>, top(t).op \in Copies
  PROVE  Len(stack[t]) = 1 /\ DOMAIN stack[t] = {1} /\ top(t) = stack[t][1]
<1>1. TypeInv /\ KinOK(stack[t])
  BY DEF IInv, FramesInv
<1>2. /\ top(t) = stack[t][Len(stack[t])] /\ Len(stack[t]) \in DOMAIN stack[t]
      /\ DOMAIN stack[t] = 1 .. Len(stack[t])
  BY <1>1, TopFrame
<1>3. Len(stack[t]) = 1
  BY <1>1, <1>2 DEF KinOK
<1> QED BY <1>2, <1>3

\* A copy or move makes a call for one of its variables.
LEMMA CopyCalls ==
  ASSUME IInv, Quiet, UNCHANGED <<lock, class, errors, calls>>,
         NEW t \in Thread, stack[t] # <<>>, top(t).op \in Copies,
         NEW l \in PcType, NEW f \in FrameType, Enter(t, l, f), f.src = nil, f.v \in OwnsOf(top(t)),
         f.op \in {"initWeak", "destroyWeak"}, GoodFrame(t, f), l \in PcsOf(top(t).op),
         \/ l = "release" /\ top(t).pc = "init" /\ f.op = "initWeak" /\ f.v = top(t).v
         \/ l = "nil" /\ f.op = "destroyWeak" /\ f.v = top(t).src
  PROVE  IInv'
<1> DEFINE g == [top(t) EXCEPT !.pc = l]
<1>1. TypeInv /\ ExclusiveInv
  BY DEF IInv
<1>2. top(t) \in FrameType /\ GoodFrame(t, top(t)) /\ FormOK(top(t))
  BY TopGood
<1>3. Len(stack[t]) = 1 /\ DOMAIN stack[t] = {1} /\ top(t) = stack[t][1]
  BY CopyAlone
<1>4. Pushes(t, g, f)
  BY <1>1, EnterEffect
<1>5. Turned(top(t), g) /\ g.pc = l /\ g.want = top(t).want /\ g.old = top(t).old
  BY <1>2, PcChanged
<1> HIDE DEF g
<1>6. top(t).want = <<>>
  BY <1>2, OpOf DEF FormOK
<1>7. GoodFrame(t, g)
  <2>1. FormOK(g)
    BY <1>2, <1>5, <1>6 DEF FormOK, Turned
  <2>2. g.op \notin Inits /\ g.op \notin {"storeWeak", "storeWeakOrNil", "destroyWeak", "loadWeakRetained"}
        /\ g.op # "dealloc" /\ g.pc # "init" /\ (g.pc = "nil" => g.op # "copyWeak")
    BY <1>5, OpOf, <2>1 DEF Turned, Copies, Inits
  <2>3. VarOK(g)
    BY <1>2, <1>5, <2>2 DEF GoodFrame, VarOK, Turned
  <2>4. ObjectOK(g) /\ CopyOK(t, g)
    BY <1>2, <1>5, <2>2 DEF GoodFrame, ObjectOK, CopyOK, Turned
  <2> QED BY <2>1, <2>3, <2>4 DEF GoodFrame
<1>8. Len(stack'[t]) = 2 /\ DOMAIN stack'[t] = 1 .. 2 /\ stack'[t][1] = g /\ stack'[t][2] = f
  BY <1>3, <1>4 DEF Pushes, OthersStay
<1>9. KinOK(stack'[t])
  <2>1. f.op \notin Copies \cup {"loadWeakRetained"} /\ g.op \in Copies /\ g.op # "loadWeakRetained"
    BY <1>5 DEF Turned, Copies
  <2>2. \A i \in 1 .. 2 : i = 1 \/ i = 2
    OBVIOUS
  <2> QED BY <1>5, <1>8, <2>1, <2>2 DEF KinOK, Turned
<1>10. ASSUME NEW u \in Thread, NEW j \in DOMAIN stack[u], Conflict(f, stack[u][j])
       PROVE  u = t /\ Kin(stack[t], Len(stack[t]) + 1, j)
  <2>1. OwnsOf(f) \subseteq OwnsOf(top(t)) /\ UsesOf(f) \subseteq UsesOf(top(t))
    <3>1. OwnsOf(f) \subseteq {f.v} /\ UsesOf(f) \subseteq {f.v} /\ f.v # nil
      <4>1. f.v \in Variable
        BY DEF GoodFrame, FormOK
      <4> QED BY <4>1, NilAssumption DEF OwnsOf, UsesOf
    <3>2. OwnsOf(top(t)) \subseteq {top(t).v, top(t).src}
      BY DEF OwnsOf
    <3> QED BY <3>1, <3>2 DEF UsesOf
  <2>2. Conflict(top(t), stack[u][j])
    BY <1>10, <2>1 DEF Conflict
  <2>3. u = t /\ (j = 1 \/ Kin(stack[t], 1, j) \/ Kin(stack[t], j, 1))
    BY <1>1, <1>3, <2>2, ZenonT(30) DEF Conflict, ExclusiveInv
  <2>4. j = 1
    BY <1>3, <2>3
  <2> QED BY <1>3, <2>3, <2>4 DEF Kin
<1>11. TypeInv'
  BY <1>1, <1>4 DEF TypeInv, Quiet, Pushes, OthersStay
<1>12. f.op # "dealloc"
  OBVIOUS
<1> QED BY <1>4, <1>5, <1>7, <1>9, <1>10, <1>11, <1>12, PushInv

LEMMA CopyInitStep ==
  ASSUME IInv, NEW t \in Thread, CopyInit(t) PROVE IInv'
<1> DEFINE f == Frame("initWeak", "read", top(t).v, nil, top(t).new)
<1>1. /\ stack[t] # <<>> /\ top(t).pc = "init" /\ Quiet /\ UNCHANGED <<lock, class, errors, calls>>
      /\ Enter(t, "release", f)
  BY DEF CopyInit, At, Quiet, heap
<1>2. top(t) \in FrameType /\ GoodFrame(t, top(t)) /\ FormOK(top(t)) /\ top(t).op \in Copies
  BY <1>1, TopGood, OpOf
<1>3. top(t).v \in Variable /\ top(t).v \notin weakVars /\ top(t).new \in Object \cup {nil}
  BY <1>1, <1>2 DEF GoodFrame, VarOK, FormOK, FrameType, Copies
<1>4. "initWeak" \in OpType /\ "read" \in PcType /\ "release" \in PcType
  BY DEF OpType, PcType, Stores
<1>5. /\ f \in FrameType /\ f.op = "initWeak" /\ f.pc = "read" /\ f.v = top(t).v /\ f.src = nil
      /\ f.want = <<>>
  BY <1>3, <1>4 DEF Frame, FrameType
<1> HIDE DEF f
<1>6. GoodFrame(t, f)
  BY <1>3, <1>5, NilAssumption
    DEF GoodFrame, FormOK, VarOK, ObjectOK, CopyOK, PcsOf, Stores, Copies, Inits
<1>7. "release" \in PcsOf(top(t).op) /\ f.v \in OwnsOf(top(t))
  BY <1>2, <1>5 DEF PcsOf, Stores, Copies, OwnsOf
<1> QED BY <1>1, <1>2, <1>4, <1>5, <1>6, <1>7, CopyCalls

LEMMA MoveDestroyStep ==
  ASSUME IInv, NEW t \in Thread, MoveDestroy(t) PROVE IInv'
<1> DEFINE f == Frame("destroyWeak", "read", top(t).src, nil, nil)
<1>1. /\ stack[t] # <<>> /\ top(t).pc = "destroy" /\ Quiet
      /\ UNCHANGED <<lock, class, errors, calls>> /\ Enter(t, "nil", f)
  BY DEF MoveDestroy, At, Quiet, heap
<1>2. top(t) \in FrameType /\ GoodFrame(t, top(t)) /\ FormOK(top(t)) /\ top(t).op = "moveWeak"
  BY <1>1, TopGood, OpOf
<1>3. top(t).src \in Variable /\ top(t).src \in weakVars /\ top(t).op \in Copies
  BY <1>1, <1>2 DEF GoodFrame, VarOK, FormOK, Copies
<1>4. "destroyWeak" \in OpType /\ "read" \in PcType /\ "nil" \in PcType
  BY DEF OpType, PcType, Stores
<1>5. /\ f \in FrameType /\ f.op = "destroyWeak" /\ f.pc = "read" /\ f.v = top(t).src /\ f.src = nil
      /\ f.want = <<>>
  BY <1>3, <1>4 DEF Frame, FrameType
<1> HIDE DEF f
<1>6. GoodFrame(t, f)
  BY <1>3, <1>5, NilAssumption
    DEF GoodFrame, FormOK, VarOK, ObjectOK, CopyOK, PcsOf, Stores, Copies, Inits
<1>7. "nil" \in PcsOf(top(t).op) /\ f.v \in OwnsOf(top(t))
  BY <1>2, <1>5 DEF PcsOf, Stores, Copies, OwnsOf
<1> QED BY <1>1, <1>2, <1>3, <1>4, <1>5, <1>6, <1>7, CopyCalls


--------------------------------------------------------------------------------
(* The calls that return *)

\* A frame that is good when the memory has changed.
LEMMA FrameAfter ==
  ASSUME NEW u, NEW i, NEW f, f = stack'[u][i], FormOK(f), VarOK(f)', ObjectOK(f)', CopyOK(u, f)'
  PROVE  GoodFrame(u, stack[u][i])'
BY DEF GoodFrame, FormOK, VarOK, ObjectOK, CopyOK

\* The innermost frame goes; the others are the calls they were, where they were.
Shrinks(t) ==
  /\ OthersStay(t) /\ Len(stack'[t]) = Len(stack[t]) - 1
  /\ \A i \in 1 .. Len(stack[t]) - 1 :
       SameCall(stack[t][i], stack'[t][i]) /\ stack'[t][i].pc = stack[t][i].pc

LEMMA ShrinksInv ==
  ASSUME IInv, NEW t \in Thread, stack[t] # <<>>, Shrinks(t)
  PROVE  ExclusiveInv' /\ OneDeallocInv' /\ \A u \in Thread : KinOK(stack[u])'
<1> DEFINE n == Len(stack[t])
<1>1. TypeInv /\ ExclusiveInv /\ OneDeallocInv /\ FramesInv
  BY DEF IInv
<1>2. n \in Nat \ {0} /\ DOMAIN stack[t] = 1 .. n
  BY <1>1, TopFrame
<1>3. Len(stack'[t]) = n - 1 /\ DOMAIN stack'[t] = 1 .. n - 1
  BY <1>2 DEF Shrinks, OthersStay
<1>4. Keeps(t, n - 1)
  BY <1>2, <1>3 DEF Keeps, Shrinks
<1>5. \A i \in DOMAIN stack'[t] : ~(i > n - 1)
  BY <1>2, <1>3
<1>6. ExclusiveInv' /\ OneDeallocInv'
  BY <1>1, <1>4, <1>5, ExclusiveKept, OneDeallocKept
<1>7. ASSUME NEW u \in Thread PROVE KinOK(stack[u])'
  <2>1. KinOK(stack[u])
    BY <1>1 DEF FramesInv
  <2>2. CASE u # t
    <3>1. stack'[u] = stack[u]
      BY <2>2 DEF Shrinks, OthersStay
    <3> QED BY <2>1, <3>1 DEF KinOK
  <2>3. CASE u = t
    <3>1. \A i \in 1 .. n - 1 :
            /\ stack'[t][i].op = stack[t][i].op /\ stack'[t][i].v = stack[t][i].v
            /\ stack'[t][i].src = stack[t][i].src /\ stack'[t][i].pc = stack[t][i].pc
      BY DEF Shrinks, SameCall
    <3>2. Len(stack[t]) = n
      OBVIOUS
    <3> HIDE DEF n
    <3>3. \A i \in DOMAIN stack'[t] : i \in DOMAIN stack[t] /\ (i > 1 => 1 \in 1 .. n - 1)
      BY <1>2, <1>3
    <3>4. Len(stack'[t]) > 1 => n > 1 /\ 1 \in 1 .. n - 1 /\ 2 \in 1 .. n - 1
      BY <1>2, <1>3
    <3>5. KinOK(stack'[t])
      <4>1. ASSUME NEW i \in DOMAIN stack'[t]
            PROVE  /\ stack'[t][i].op \in Copies => i = 1
                   /\ stack'[t][i].op = "loadWeakRetained" /\ i > 1 =>
                        i = 2 /\ stack'[t][1].op \in Copies /\ stack'[t][1].pc = "init"
        <5>1. i \in DOMAIN stack[t] /\ i \in 1 .. n - 1
          BY <1>3, <3>3
        <5>2. /\ stack[t][i].op \in Copies => i = 1
              /\ stack[t][i].op = "loadWeakRetained" /\ i > 1 =>
                   i = 2 /\ stack[t][1].op \in Copies /\ stack[t][1].pc = "init"
          BY <2>1, <2>3, <5>1 DEF KinOK
        <5> QED BY <3>1, <3>3, <5>1, <5>2
      <4>2. ASSUME Len(stack'[t]) > 1, stack'[t][1].op \in Copies
            PROVE  \/ /\ stack'[t][1].pc = "init" /\ stack'[t][2].op = "loadWeakRetained"
                      /\ stack'[t][2].v = stack'[t][1].src
                   \/ /\ stack'[t][1].pc = "release" /\ stack'[t][2].op = "initWeak"
                      /\ stack'[t][2].v = stack'[t][1].v
                   \/ stack'[t][1].pc = "destroy" /\ stack'[t][2].op = "dealloc"
                   \/ /\ stack'[t][1].pc = "nil" /\ stack'[t][2].op = "destroyWeak"
                      /\ stack'[t][2].v = stack'[t][1].src
        BY <2>1, <2>3, <3>1, <3>2, <3>4, <4>2 DEF KinOK
      <4> QED BY <4>1, <4>2 DEF KinOK
    <3> QED BY <2>3, <3>5 DEF KinOK
  <2> QED BY <2>2, <2>3
<1> QED BY <1>6, <1>7

\* What a call returns to, when it is a copy or a move.
LEMMA ReturnsTo ==
  ASSUME IInv, NEW t \in Thread, Len(stack[t]) = 2, stack[t][1].op \in Copies
  PROVE  /\ top(t) = stack[t][2] /\ 1 \in DOMAIN stack[t]
         /\ \/ stack[t][1].pc = "init"    /\ top(t).op = "loadWeakRetained" /\ top(t).v = stack[t][1].src
            \/ stack[t][1].pc = "release" /\ top(t).op = "initWeak"         /\ top(t).v = stack[t][1].v
            \/ stack[t][1].pc = "destroy" /\ top(t).op = "dealloc"
            \/ stack[t][1].pc = "nil"     /\ top(t).op = "destroyWeak"      /\ top(t).v = stack[t][1].src
<1>1. TypeInv /\ KinOK(stack[t])
  BY DEF IInv, FramesInv
<1>2. stack[t] # <<>>
  <2>1. Len(stack[t]) # Len(<<>>)
    OBVIOUS
  <2> QED BY <2>1
<1>3. top(t) = stack[t][2] /\ DOMAIN stack[t] = 1 .. 2
  BY <1>1, <1>2, TopFrame
<1> QED BY <1>1, <1>3 DEF KinOK

\* A move whose destroyWeak is not what returns is not at its last step.
LEMMA NilKept ==
  ASSUME IInv, NEW t \in Thread, stack[t] # <<>>, Shrinks(t), top(t).op # "destroyWeak"
  PROVE  ~(Len(stack'[t]) = 1 /\ stack'[t][1].pc = "nil")
<1>1. TypeInv /\ FramesInv
  BY DEF IInv
<1>2. ASSUME Len(stack'[t]) = 1, stack'[t][1].pc = "nil" PROVE FALSE
  <2>0. Len(stack[t]) \in Nat \ {0} /\ DOMAIN stack[t] = 1 .. Len(stack[t])
    BY <1>1, TopFrame
  <2>1. Len(stack[t]) = 2 /\ stack[t][1].pc = "nil" /\ 1 \in DOMAIN stack[t]
    <3>0. Len(stack'[t]) = Len(stack[t]) - 1
      BY DEF Shrinks
    <3>1. Len(stack[t]) = 2
      <4>1. PICK n \in Nat, m \in {Len(stack'[t])} : n = Len(stack[t])
        BY <2>0
      <4>2. m = 1 /\ m = n - 1
        BY <1>2, <3>0, <4>1
      <4>3. n = 2
        BY <4>2
      <4> QED BY <4>1, <4>3
    <3>2. 1 \in 1 .. Len(stack[t]) - 1
      BY <3>1
    <3> QED BY <1>2, <2>0, <3>1, <3>2 DEF Shrinks
  <2>2. stack[t][1] \in FrameType /\ FormOK(stack[t][1])
    BY <1>1, <2>1 DEF FramesInv, GoodFrame, TypeInv
  <2>3. stack[t][1].op \in Copies
    BY <2>1, <2>2, OpOf DEF Copies
  <2> QED BY <2>1, <2>3, ReturnsTo
<1> QED BY <1>2

LEMMA InitializeDoneStep ==
  ASSUME IInv, NEW t \in Thread, InitializeDone(t) PROVE IInv'
<1> DEFINE n == Len(stack[t])
<1>1. stack[t] # <<>> /\ top(t).pc = "done" /\ TypeInv /\ FramesInv
  BY DEF InitializeDone, At, IInv
<1>2. top(t) \in FrameType /\ FormOK(top(t)) /\ top(t).op = "initialize"
  BY <1>1, TopGood, OpOf
<1>3. Pops(t)
  BY <1>1, ReturnEffect DEF InitializeDone
<1>4. Shrinks(t)
  BY <1>3 DEF Pops, Shrinks, SameCall
<1>5. Quiet /\ UNCHANGED <<lock, errors, calls>> /\ class' = [class EXCEPT ![top(t).new] = "initialized"]
  BY DEF InitializeDone, Quiet, heap
<1>6. TypeInv'
  BY <1>1, <1>3, <1>5 DEF TypeInv, Quiet, Pops, OthersStay
<1>7. ExclusiveInv' /\ OneDeallocInv' /\ KinOK(stack'[t])
  <2>1. KinOK(stack[t])'
    BY <1>1, <1>4, ShrinksInv
  <2>2. KinOK(stack'[t])
    BY <2>1 DEF KinOK
  <2> QED BY <1>1, <1>4, <2>2, ShrinksInv
<1>8. NilOK(stack'[t])
  BY <1>1, <1>2, <1>4, NilKept DEF NilOK
<1>9. \A i \in DOMAIN stack'[t] : GoodFrame(t, stack'[t][i])
  <2>1. DOMAIN stack[t] = 1 .. n /\ n \in Nat \ {0} /\ DOMAIN stack'[t] = 1 .. n - 1
    BY <1>1, <1>3, TopFrame DEF Pops, OthersStay
  <2>2. \A i \in DOMAIN stack'[t] : i \in DOMAIN stack[t] /\ stack'[t][i] = stack[t][i]
    BY <1>3, <2>1 DEF Pops
  <2> QED BY <1>1, <2>2 DEF FramesInv
<1>10. OthersStay(t)
  BY <1>3 DEF Pops
<1> QED BY <1>5, <1>6, <1>7, <1>8, <1>9, <1>10, QuietInv


\* A load returns to the copy or move that called it, or to the program.
LEMMA LoadShrinks ==
  ASSUME IInv, NEW t \in Thread, stack[t] # <<>>, top(t).op = "loadWeakRetained", NEW o, LoadPops(t, o)
  PROVE  /\ Shrinks(t) /\ Len(stack[t]) \in {1, 2} /\ DOMAIN stack'[t] \subseteq {1}
         /\ Len(stack[t]) = 2 => /\ 1 \in DOMAIN stack[t] /\ stack[t][1].op \in Copies
                                 /\ stack[t][1].pc = "init"
<1>1. TypeInv /\ KinOK(stack[t])
  BY DEF IInv, FramesInv
<1>2. PICK n \in Nat \ {0} : n = Len(stack[t])
  BY <1>1, TopFrame
<1>3. DOMAIN stack[t] = 1 .. n /\ top(t) = stack[t][n] /\ n \in DOMAIN stack[t]
  BY <1>1, <1>2, TopFrame
<1>4. n = 1 \/ (n = 2 /\ stack[t][1].op \in Copies /\ stack[t][1].pc = "init")
  <2>1. n > 1 => n = 2 /\ stack[t][1].op \in Copies /\ stack[t][1].pc = "init"
    BY <1>1, <1>3 DEF KinOK
  <2>2. n \in Nat /\ n # 0
    OBVIOUS
  <2>3. n = 1 \/ n > 1
    BY <2>2
  <2> QED BY <2>1, <2>3
<1>5. Len(stack'[t]) = n - 1 /\ stack'[t] \in Seq(FrameType) /\ OthersStay(t)
  BY <1>2 DEF LoadPops, OthersStay
<1>6. CASE n = 1
  <2>1. 1 .. n - 1 = {} /\ Len(stack'[t]) = 0
    BY <1>5, <1>6
  <2> QED BY <1>2, <1>5, <1>6, <2>1 DEF Shrinks
<1>7. CASE n = 2
  <2>1. 1 .. n - 1 = {1} /\ Len(stack'[t]) = 1 /\ n - 1 = 1
    BY <1>5, <1>7
  <2>2. /\ stack'[t][1].op = stack[t][1].op /\ stack'[t][1].v = stack[t][1].v
        /\ stack'[t][1].src = stack[t][1].src /\ stack'[t][1].pc = stack[t][1].pc
    BY <1>2, <1>7 DEF LoadPops
  <2>3. SameCall(stack[t][1], stack'[t][1])
    BY <1>4, <1>7, <2>2 DEF SameCall, Copies
  <2>4. DOMAIN stack'[t] = {1}
    BY <1>5, <2>1
  <2>5. Shrinks(t)
    BY <1>2, <1>5, <2>1, <2>2, <2>3 DEF Shrinks
  <2> QED BY <1>2, <1>3, <1>4, <1>7, <2>4, <2>5
<1> QED BY <1>4, <1>6, <1>7

LEMMA LoadNilStep ==
  ASSUME IInv, Quiet, TypeInv', NEW t \in Thread, stack[t] # <<>>, top(t).op = "loadWeakRetained",
         LoadPops(t, nil)
  PROVE  IInv'
<1>1. TypeInv /\ FramesInv
  BY DEF IInv
<1>2. /\ Shrinks(t) /\ Len(stack[t]) \in {1, 2} /\ DOMAIN stack'[t] \subseteq {1}
      /\ Len(stack[t]) = 2 => /\ 1 \in DOMAIN stack[t] /\ stack[t][1].op \in Copies
                              /\ stack[t][1].pc = "init"
  BY LoadShrinks
<1>3. ExclusiveInv' /\ OneDeallocInv' /\ KinOK(stack'[t])
  <2>1. KinOK(stack[t])'
    BY <1>2, ShrinksInv
  <2>2. KinOK(stack'[t])
    BY <2>1 DEF KinOK
  <2> QED BY <1>2, <2>2, ShrinksInv
<1>4. NilOK(stack'[t])
  BY <1>2, NilKept DEF NilOK
<1>5. ASSUME NEW i \in DOMAIN stack'[t] PROVE GoodFrame(t, stack'[t][i])
  <2>1. i = 1 /\ Len(stack[t]) = 2
    <3>1. i = 1
      BY <1>2, <1>5
    <3>2. stack'[t] \in Seq(FrameType)
      BY DEF LoadPops, OthersStay
    <3>3. Len(stack'[t]) # 0
      BY <1>5, <3>2
    <3>4. Len(stack'[t]) = Len(stack[t]) - 1
      BY DEF LoadPops
    <3>5. Len(stack[t]) # 1
      BY <3>3, <3>4
    <3> QED BY <1>2, <3>1, <3>5
  <2>2. GoodFrame(t, stack[t][1]) /\ stack[t][1].pc = "init"
    BY <1>1, <1>2, <2>1 DEF FramesInv
  <2>3. /\ stack'[t][1].op = stack[t][1].op /\ stack'[t][1].v = stack[t][1].v
        /\ stack'[t][1].src = stack[t][1].src /\ stack'[t][1].pc = stack[t][1].pc
        /\ stack'[t][1].old = stack[t][1].old /\ stack'[t][1].want = stack[t][1].want
        /\ stack'[t][1].new = nil
    BY <2>1 DEF LoadPops
  <2>4. stack[t][1].op \in Copies
    BY <1>2, <2>1
  <2> QED BY <2>1, <2>2, <2>3, <2>4 DEF GoodFrame, FormOK, VarOK, ObjectOK, CopyOK, Copies
<1>6. OthersStay(t)
  BY DEF LoadPops
<1> QED BY <1>3, <1>4, <1>5, <1>6, QuietInv

\* A load that retains.
LEMMA LoadRetainsStep ==
  ASSUME IInv, TypeInv', NEW t \in Thread, stack[t] # <<>>, top(t).op = "loadWeakRetained",
         NEW o \in Object, object[o] = "live", LoadPops(t, o),
         strong' = [strong EXCEPT ![t][o] = @ + 1],
         UNCHANGED <<location, weakVars, referrers, object, weakly_referenced>>
  PROVE  IInv'
<1>1. TypeInv /\ FramesInv /\ OwnedInv /\ EntryInv
  BY DEF IInv
<1>2. /\ Shrinks(t) /\ Len(stack[t]) \in {1, 2} /\ DOMAIN stack'[t] \subseteq {1}
      /\ Len(stack[t]) = 2 => /\ 1 \in DOMAIN stack[t] /\ stack[t][1].op \in Copies
                              /\ stack[t][1].pc = "init"
  BY LoadShrinks
<1>3. ExclusiveInv' /\ OneDeallocInv' /\ \A u \in Thread : KinOK(stack[u])'
  BY <1>2, ShrinksInv
<1>4. /\ \A u \in Thread, p \in Object : strong'[u][p] \in Nat /\ strong'[u][p] >= strong[u][p]
      /\ strong'[t][o] > 0 /\ \A u \in Thread, p \in Object : p # o => strong'[u][p] = strong[u][p]
  BY <1>1 DEF TypeInv
<1>5. ASSUME NEW u \in Thread PROVE NilOK(stack[u])'
  <2>1. CASE u # t
    <3>1. stack'[u] = stack[u] /\ NilOK(stack[u])
      BY <1>1, <2>1 DEF FramesInv, LoadPops, OthersStay
    <3> QED BY <3>1 DEF NilOK
  <2>2. CASE u = t
    BY <1>2, <2>2, NilKept DEF NilOK
  <2> QED BY <2>1, <2>2
<1>6. ASSUME NEW u \in Thread, NEW i \in DOMAIN stack'[u] PROVE GoodFrame(u, stack[u][i])'
  <2>1. CASE u # t
    <3>1. PICK f : f = stack'[u][i]
      OBVIOUS
    <3>2. GoodFrame(u, f) /\ f \in FrameType
      BY <1>1, <2>1, <3>1 DEF FramesInv, LoadPops, OthersStay, TypeInv
    <3>3. FormOK(f) /\ VarOK(f)' /\ ObjectOK(f)'
      BY <3>2 DEF GoodFrame, VarOK, ObjectOK
    <3>4. f.new # nil => f.new \in Object
      BY <3>2 DEF FrameType
    <3>5. f.new # nil => strong'[u][f.new] >= strong[u][f.new] /\ strong'[u][f.new] \in Nat
                           /\ strong[u][f.new] \in Nat
      BY <1>1, <1>4, <3>4 DEF TypeInv
    <3>6. CopyOK(u, f)'
      BY <3>2, <3>5 DEF CopyOK, GoodFrame
    <3> QED BY <3>1, <3>3, <3>6, FrameAfter
  <2>2. CASE u = t
    <3>1. i = 1 /\ Len(stack[t]) = 2
      <4>1. i = 1
        BY <1>2, <1>6, <2>2
      <4>2. stack'[t] \in Seq(FrameType)
        BY DEF LoadPops, OthersStay
      <4>3. Len(stack'[t]) # 0
        BY <1>6, <2>2, <4>2
      <4>4. Len(stack'[t]) = Len(stack[t]) - 1
        BY DEF LoadPops
      <4>5. Len(stack[t]) # 1
        BY <4>3, <4>4
      <4> QED BY <1>2, <4>1, <4>5
    <3>2. GoodFrame(t, stack[t][1]) /\ stack[t][1].pc = "init" /\ stack[t][1].op \in Copies
      BY <1>1, <1>2, <3>1 DEF FramesInv
    <3>3. PICK f : f = stack'[t][1]
      OBVIOUS
    <3>4. /\ f.op = stack[t][1].op /\ f.v = stack[t][1].v /\ f.src = stack[t][1].src
          /\ f.pc = stack[t][1].pc /\ f.old = stack[t][1].old /\ f.want = stack[t][1].want
          /\ f.new = o
      BY <3>1, <3>3 DEF LoadPops
    <3>5. FormOK(f) /\ VarOK(f)' /\ ObjectOK(f)' /\ CopyOK(t, f)'
      BY <1>4, <3>2, <3>4 DEF GoodFrame, FormOK, VarOK, ObjectOK, CopyOK, Copies
    <3> QED BY <2>2, <3>1, <3>3, <3>5, FrameAfter
  <2> QED BY <2>1, <2>2
<1>7. FramesInv'
  BY <1>3, <1>5, <1>6 DEF FramesInv
<1>8. OwnedInv' /\ EntryInv'
  <2>1. ASSUME NEW p \in Object PROVE (object[p] = "live" <=> \E u \in Thread : strong[u][p] > 0)'
    BY <1>1, <1>4 DEF OwnedInv
  <2> QED BY <1>1, <2>1 DEF OwnedInv, EntryInv
<1> QED BY <1>3, <1>7, <1>8 DEF IInv


LEMMA LoadReadNilStep ==
  ASSUME IInv, NEW t \in Thread, LoadRead(t), location[top(t).v] = nil PROVE IInv'
<1>1. stack[t] # <<>> /\ top(t).op = "loadWeakRetained" /\ TypeInv
  BY DEF LoadRead, At, IInv
<1>2. LoadReturns(t, nil) /\ Quiet /\ UNCHANGED <<lock, class, errors, calls>>
  BY DEF LoadRead, Quiet, heap
<1>3. LoadPops(t, nil)
  BY <1>1, <1>2, LoadReturnsEffect
<1>4. TypeInv'
  BY <1>1, <1>2, <1>3 DEF TypeInv, Quiet, LoadPops, OthersStay
<1> QED BY <1>1, <1>2, <1>3, <1>4, LoadNilStep

LEMMA LoadStep ==
  ASSUME IInv, NEW t \in Thread, Load(t) PROVE IInv'
<1> DEFINE f == top(t)
           o == f.old
<1>1. stack[t] # <<>> /\ f.pc = "load" /\ TypeInv /\ unlock(t)
  BY DEF Load, Locked, At, IInv
<1>2. f \in FrameType /\ FormOK(f) /\ f.op = "loadWeakRetained" /\ o \in Object
  BY <1>1, TopGood, OpOf DEF FormOK, FrameType
<1>3. lock' \in [Table -> Thread \cup {nil}]
  BY <1>1, UnlockType
<1>4. UNCHANGED <<location, weakVars, referrers, object, weakly_referenced, class, errors, calls>>
  BY DEF Load
<1>5. CASE location[f.v] # o
  <2>1. Set(t, [top(t) EXCEPT !.held = {}, !.pc = "read"]) /\ UNCHANGED strong
    BY <1>5 DEF Load
  <2> QED BY <2>1, LoadRetryStep
<1>6. CASE location[f.v] = o /\ class[o] \notin {"initialized", t}
  <2>1. Set(t, [top(t) EXCEPT !.held = {}, !.pc = "class_initialize"]) /\ UNCHANGED strong
    BY <1>6 DEF Load
  <2> QED BY <2>1, LoadRetryStep
<1>7. CASE location[f.v] = o /\ class[o] \in {"initialized", t} /\ tryRetain(o)
  <2>1. LoadReturns(t, o) /\ strong' = [strong EXCEPT ![t][o] = @ + 1]
    BY <1>7 DEF Load
  <2>2. LoadPops(t, o)
    BY <1>1, <1>2, <2>1, LoadReturnsEffect
  <2>3. TypeInv'
    <3>1. strong' \in [Thread -> [Object -> Nat]]
      <4>1. strong \in [Thread -> [Object -> Nat]] /\ strong[t] \in [Object -> Nat]
        BY <1>1 DEF TypeInv
      <4>2. [strong[t] EXCEPT ![o] = @ + 1] \in [Object -> Nat]
        BY <1>2, <4>1
      <4> QED BY <2>1, <4>1, <4>2
    <3> QED BY <1>1, <1>3, <1>4, <2>2, <3>1 DEF TypeInv, LoadPops, OthersStay
  <2>4. object[o] = "live"
    BY <1>7 DEF tryRetain
  <2> HIDE DEF o
  <2> QED BY <1>1, <1>2, <1>4, <2>1, <2>2, <2>3, <2>4, LoadRetainsStep
<1>8. CASE location[f.v] = o /\ class[o] \in {"initialized", t} /\ ~tryRetain(o)
  <2>1. LoadReturns(t, nil) /\ UNCHANGED strong
    BY <1>8 DEF Load
  <2>2. LoadPops(t, nil)
    BY <1>1, <2>1, LoadReturnsEffect
  <2>3. TypeInv' /\ Quiet
    BY <1>1, <1>3, <1>4, <2>1, <2>2 DEF TypeInv, LoadPops, OthersStay, Quiet
  <2> QED BY <1>1, <1>2, <2>2, <2>3, LoadNilStep
<1> QED BY <1>5, <1>6, <1>7, <1>8

--------------------------------------------------------------------------------
(* The calls that change a variable *)

\* Who else is at work on a variable that the innermost frame of t owns: the copy or
\* move it is a part of.
LEMMA OwnsAlone ==
  ASSUME IInv, NEW t \in Thread, stack[t] # <<>>, NEW v \in OwnsOf(top(t)),
         NEW u \in Thread, NEW i \in DOMAIN stack[u], v \in UsesOf(stack[u][i]),
         u # t \/ i # Len(stack[t])
  PROVE  /\ u = t /\ i = 1 /\ Len(stack[t]) = 2 /\ stack[t][1].op \in Copies
         /\ \/ stack[t][1].pc = "release" /\ top(t).op = "initWeak"
            \/ stack[t][1].pc = "nil" /\ top(t).op = "destroyWeak"
<1>1. TypeInv /\ ExclusiveInv
  BY DEF IInv
<1>2. PICK n \in Nat : n = Len(stack[t])
  BY <1>1, TopFrame
<1>3. n # 0 /\ DOMAIN stack[t] = 1 .. n /\ top(t) = stack[t][n] /\ n \in DOMAIN stack[t]
  BY <1>1, <1>2, TopFrame
<1>4. u = t /\ (n = i \/ Kin(stack[t], n, i))
  <2>1. OwnsOf(stack[t][n]) \cap UsesOf(stack[u][i]) # {}
    BY <1>3
  <2> QED BY <1>1, <1>3, <2>1 DEF ExclusiveInv
<1>5. n = 2 /\ i = 1 /\ stack[t][1].op \in Copies
  <2>1. i \in 1 .. 2 /\ n \in 1 .. 2 /\ i # n /\ i \in 1 .. n /\ stack[t][1].op \in Copies
    BY <1>2, <1>3, <1>4 DEF Kin
  <2> QED BY <2>1
<1>6. top(t).op \notin {"loadWeakRetained", "dealloc"}
  BY DEF OwnsOf, Inits
<1> QED BY <1>2, <1>4, <1>5, <1>6, ReturnsTo

\* The memory changes in one variable, and no more entries come to what is not live.
OneVariable(v) ==
  /\ UNCHANGED <<object, strong>>
  /\ weakVars' \in {weakVars \cup {v}, weakVars \ {v}}
  /\ \A o \in Object : object[o] # "live" => referrers'[o] \subseteq referrers[o]

LEMMA OneVariableFrame ==
  ASSUME IInv, NEW t \in Thread, stack[t] # <<>>, NEW v \in Variable, OneVariable(v),
         weakVars' # weakVars => v \in OwnsOf(top(t)),
         weakVars' = weakVars \ {v} => weakVars' = weakVars \/ top(t).op = "destroyWeak",
         weakVars' = weakVars \cup {v} => weakVars' = weakVars \/ top(t).op # "destroyWeak",
         NEW u \in Thread, NEW i \in DOMAIN stack[u], u # t \/ i # Len(stack[t]),
         NEW f, f = stack[u][i]
  PROVE  FormOK(f) /\ VarOK(f)' /\ ObjectOK(f)' /\ CopyOK(u, f)'
<1>1. TypeInv /\ GoodFrame(u, f) /\ f \in FrameType
  BY DEF IInv, FramesInv, TypeInv
<1>2. FormOK(f) /\ CopyOK(u, f)'
  BY <1>1 DEF GoodFrame, CopyOK, OneVariable
<1>3. ObjectOK(f)'
  <2>1. f.op = "dealloc" => f.new \in Object /\ object[f.new] = "deallocating"
    BY <1>1 DEF GoodFrame, ObjectOK, FormOK, FrameType
  <2>2. f.op = "dealloc" => referrers'[f.new] \subseteq referrers[f.new]
    BY <2>1 DEF OneVariable
  <2> QED BY <1>1, <2>1, <2>2 DEF GoodFrame, ObjectOK, OneVariable
<1>4. VarOK(f)'
  <2>1. CASE weakVars' = weakVars
    BY <1>1, <2>1 DEF GoodFrame, VarOK
  <2>2. CASE weakVars' # weakVars /\ v \notin UsesOf(f)
    <3>1. f.v # v /\ f.src # v
      BY <2>2, NilAssumption DEF UsesOf
    <3>2. (f.v \in weakVars' <=> f.v \in weakVars) /\ (f.src \in weakVars' <=> f.src \in weakVars)
      BY <3>1 DEF OneVariable
    <3> QED BY <1>1, <3>2 DEF GoodFrame, VarOK
  <2>3. CASE weakVars' # weakVars /\ v \in UsesOf(f)
    <3>1. /\ f.op \in Copies
          /\ \/ f.pc = "release" /\ top(t).op = "initWeak"
             \/ f.pc = "nil" /\ top(t).op = "destroyWeak"
      BY <2>3, OwnsAlone
    <3>2. f.op \notin Inits \cup {"storeWeak", "storeWeakOrNil", "destroyWeak", "loadWeakRetained"}
      BY <3>1 DEF Copies, Inits
    <3>3. CASE f.pc = "release" /\ top(t).op = "initWeak"
      <4>1. weakVars' = weakVars \cup {v} /\ f.src \in weakVars
        BY <1>1, <2>3, <3>3 DEF OneVariable, GoodFrame, VarOK
      <4> QED BY <3>2, <3>3, <4>1 DEF VarOK
    <3>4. CASE f.pc = "nil" /\ top(t).op = "destroyWeak"
      <4>1. f.op # "copyWeak"
        BY <1>1, <1>2, <3>4, OpOf
      <4> QED BY <3>2, <3>4, <4>1 DEF VarOK
    <3> QED BY <3>1, <3>3, <3>4
  <2> QED BY <2>1, <2>2, <2>3
<1> QED BY <1>2, <1>3, <1>4


LEMMA OneVariablePop ==
  ASSUME IInv, TypeInv', EntryInv', NEW t \in Thread, stack[t] # <<>>, Pops(t),
         NEW v \in Variable, OneVariable(v),
         weakVars' # weakVars => v \in OwnsOf(top(t)),
         top(t).op = "destroyWeak" => weakVars' = weakVars \ {v} /\ v = top(t).v,
         top(t).op # "destroyWeak" => weakVars' = weakVars \cup {v}
  PROVE  IInv'
<1>1. TypeInv /\ FramesInv /\ OwnedInv
  BY DEF IInv
<1>2. Shrinks(t)
  BY DEF Pops, Shrinks, SameCall
<1>3. ExclusiveInv' /\ OneDeallocInv' /\ \A u \in Thread : KinOK(stack[u])'
  BY <1>2, ShrinksInv
<1>4. PICK n \in Nat : n = Len(stack[t])
  BY <1>1, TopFrame
<1>5. n # 0 /\ DOMAIN stack[t] = 1 .. n /\ DOMAIN stack'[t] = 1 .. n - 1 /\ Len(stack'[t]) = n - 1
  BY <1>1, <1>4, TopFrame DEF Pops, OthersStay
<1>6. ASSUME NEW u \in Thread, NEW i \in DOMAIN stack'[u]
      PROVE  i \in DOMAIN stack[u] /\ stack'[u][i] = stack[u][i] /\ (u # t \/ i # Len(stack[t]))
  <2>1. CASE u = t
    BY <1>4, <1>5, <1>6, <2>1 DEF Pops
  <2>2. CASE u # t
    BY <1>6, <2>2 DEF Pops, OthersStay
  <2> QED BY <2>1, <2>2
<1>7. ASSUME NEW u \in Thread, NEW i \in DOMAIN stack'[u] PROVE GoodFrame(u, stack[u][i])'
  <2>1. PICK f : f = stack'[u][i]
    OBVIOUS
  <2>2. i \in DOMAIN stack[u] /\ f = stack[u][i] /\ (u # t \/ i # Len(stack[t]))
    BY <1>6, <2>1
  <2>3. FormOK(f) /\ VarOK(f)' /\ ObjectOK(f)' /\ CopyOK(u, f)'
    BY <2>2, OneVariableFrame
  <2> QED BY <2>1, <2>3, FrameAfter
<1>8. ASSUME NEW u \in Thread PROVE NilOK(stack[u])'
  <2>1. ASSUME Len(stack'[u]) = 1, stack'[u][1].pc = "nil" PROVE stack'[u][1].src \notin weakVars'
    <3>1. stack'[u] \in Seq(FrameType)
      BY DEF Pops, OthersStay
    <3>2. 1 \in DOMAIN stack'[u]
      BY <2>1, <3>1
    <3>3. 1 \in DOMAIN stack[u] /\ stack'[u][1] = stack[u][1] /\ (u # t \/ 1 # Len(stack[t]))
      BY <1>6, <3>2
    <3>4. stack[u][1] \in FrameType /\ FormOK(stack[u][1])
      BY <1>1, <3>3 DEF FramesInv, GoodFrame, TypeInv
    <3>5. stack[u][1].op = "moveWeak" /\ stack[u][1].op \in Copies /\ stack[u][1].src \in Variable
      BY <2>1, <3>3, <3>4, OpOf DEF Copies, FormOK
    <3>6. CASE u # t
      <4>1. stack[u][1].src \notin weakVars
        BY <1>1, <2>1, <3>6 DEF FramesInv, NilOK, Pops, OthersStay
      <4>2. stack[u][1].src # v \/ weakVars' = weakVars \/ weakVars' = weakVars \ {v}
        <5>1. ASSUME stack[u][1].src = v, weakVars' # weakVars PROVE FALSE
          <6>1. v \in UsesOf(stack[u][1])
            BY <5>1, NilAssumption DEF UsesOf
          <6> QED BY <3>3, <3>6, <5>1, <6>1, OwnsAlone
        <5> QED BY <5>1
      <4> QED BY <3>3, <4>1, <4>2
    <3>7. CASE u = t
      <4>1. Len(stack[t]) = 2
        <5>1. n - 1 = 1
          BY <1>5, <2>1, <3>7
        <5> QED BY <1>4, <5>1
      <4>2. top(t).op = "destroyWeak" /\ top(t).v = stack[t][1].src
        BY <2>1, <3>3, <3>5, <3>7, <4>1, ReturnsTo
      <4> QED BY <3>3, <3>7, <4>2
    <3> QED BY <3>6, <3>7
  <2> QED BY <2>1 DEF NilOK
<1>9. FramesInv'
  BY <1>3, <1>7, <1>8 DEF FramesInv
<1>10. OwnedInv'
  BY <1>1 DEF OwnedInv, OneVariable
<1> QED BY <1>3, <1>9, <1>10 DEF IInv

LEMMA ReadNilStep ==
  ASSUME IInv, NEW t \in Thread, Read(t), ~haveOld(top(t).op), top(t).new = nil PROVE IInv'
<1> DEFINE v == top(t).v
<1>1. stack[t] # <<>> /\ top(t).pc = "read" /\ top(t).op \in Stores /\ TypeInv /\ EntryInv
  BY DEF Read, At, IInv
<1>2. top(t) \in FrameType /\ FormOK(top(t)) /\ GoodFrame(t, top(t))
  BY <1>1, TopGood
<1>3. /\ location' = [location EXCEPT ![v] = nil] /\ weakVars' = weakVars \cup {v} /\ Return(t)
      /\ UNCHANGED <<referrers, lock, object, strong, weakly_referenced, class, errors, calls>>
  BY DEF Read, heap
<1>4. Pops(t)
  BY <1>1, <1>3, ReturnEffect
<1>5. top(t).op \in Inits /\ v \in Variable /\ v \notin weakVars
  BY <1>1, <1>2 DEF Stores, haveOld, Inits, FormOK, GoodFrame, VarOK
<1>6. TypeInv'
  BY <1>1, <1>3, <1>4, <1>5 DEF TypeInv, Pops, OthersStay
<1> HIDE DEF v
<1>7. EntryInv'
  <2>1. ASSUME NEW o \in Object PROVE referrers[o] = {x \in weakVars' : location'[x] = o}
    <3>1. location'[v] # o /\ \A x \in weakVars : location'[x] = location[x]
      BY <1>1, <1>3, <1>5, NilAssumption DEF TypeInv
    <3>2. {x \in weakVars' : location'[x] = o} = {x \in weakVars : location[x] = o}
      BY <1>3, <3>1
    <3> QED BY <1>1, <3>2 DEF EntryInv
  <2> QED BY <1>1, <1>3, <2>1 DEF EntryInv
<1>8. OneVariable(v)
  BY <1>3 DEF OneVariable
<1>9. v \in OwnsOf(top(t)) /\ top(t).op # "destroyWeak"
  BY <1>5 DEF OwnsOf, Inits, v
<1> QED BY <1>1, <1>3, <1>4, <1>5, <1>6, <1>7, <1>8, <1>9, OneVariablePop

LEMMA MoveNilStep ==
  ASSUME IInv, NEW t \in Thread, MoveNil(t) PROVE IInv'
<1> DEFINE v == top(t).src
<1>1. stack[t] # <<>> /\ top(t).pc = "nil" /\ TypeInv /\ EntryInv /\ FramesInv
  BY DEF MoveNil, At, IInv
<1>2. top(t) \in FrameType /\ FormOK(top(t)) /\ top(t).op = "moveWeak" /\ top(t).op \in Copies
  BY <1>1, TopGood, OpOf DEF Copies
<1>3. /\ location' = [location EXCEPT ![v] = nil] /\ weakVars' = weakVars \cup {v} /\ Return(t)
      /\ UNCHANGED <<referrers, lock, object, strong, weakly_referenced, class, errors, calls>>
  BY DEF MoveNil, heap
<1>4. Pops(t)
  BY <1>1, <1>3, ReturnEffect
<1>5. v \in Variable /\ v \notin weakVars
  BY <1>1, <1>2, CopyAlone DEF FormOK, FramesInv, NilOK
<1>6. TypeInv'
  BY <1>1, <1>3, <1>4, <1>5 DEF TypeInv, Pops, OthersStay
<1> HIDE DEF v
<1>7. EntryInv'
  <2>1. ASSUME NEW o \in Object PROVE referrers[o] = {x \in weakVars' : location'[x] = o}
    <3>1. location'[v] # o /\ \A x \in weakVars : location'[x] = location[x]
      BY <1>1, <1>3, <1>5, NilAssumption DEF TypeInv
    <3>2. {x \in weakVars' : location'[x] = o} = {x \in weakVars : location[x] = o}
      BY <1>3, <3>1
    <3> QED BY <1>1, <3>2 DEF EntryInv
  <2> QED BY <1>1, <1>3, <2>1 DEF EntryInv
<1>8. OneVariable(v)
  BY <1>3 DEF OneVariable
<1>9. v \in OwnsOf(top(t)) /\ top(t).op # "destroyWeak"
  BY <1>2 DEF OwnsOf, v
<1> QED BY <1>1, <1>3, <1>4, <1>5, <1>6, <1>7, <1>8, <1>9, OneVariablePop

LEMMA ReadStep ==
  ASSUME IInv, NEW t \in Thread, Read(t) PROVE IInv'
BY ReadNilStep, ReadTablesStep


\* What is left of the entries when the variable of a store is unregistered.
LEMMA Unregistered ==
  ASSUME IInv, NEW t \in Thread, Store(t)
  PROVE  LET f == top(t)
             r == IF haveOld(f.op) THEN Unregister(f.v, f.old) ELSE referrers IN
         /\ r \in [Object -> SUBSET Variable] /\ errors' = errors
         /\ \A o \in Object : r[o] = {x \in weakVars \ {f.v} : location[x] = o}
<1> DEFINE f == top(t)
           r == IF haveOld(f.op) THEN Unregister(f.v, f.old) ELSE referrers
<1>1. stack[t] # <<>> /\ f.pc = "store" /\ TypeInv /\ EntryInv /\ ~Changed(f)
  BY DEF Store, Locked, At, IInv
<1>2. f \in FrameType /\ FormOK(f) /\ GoodFrame(t, f) /\ f.op \in Stores /\ f.v \in Variable
  BY <1>1, TopGood, OpOf DEF FormOK, Stores
<1>3. CASE haveOld(f.op)
  <2>1. f.v \in weakVars /\ location[f.v] = f.old /\ f.old \in Object \cup {nil}
    BY <1>1, <1>2, <1>3 DEF haveOld, Changed, GoodFrame, VarOK, FrameType
  <2>2. f.old # nil => f.v \in referrers[f.old]
    BY <1>1, <2>1 DEF EntryInv
  <2>3. errors' = errors
    BY <1>3, <2>2 DEF Store, Complains
  <2>4. r = IF f.old = nil THEN referrers ELSE [referrers EXCEPT ![f.old] = @ \ {f.v}]
    BY <1>3 DEF Unregister
  <2>5. r \in [Object -> SUBSET Variable]
    BY <1>1, <2>4, ZenonT(30) DEF TypeInv
  <2>6. ASSUME NEW o \in Object PROVE r[o] = {x \in weakVars \ {f.v} : location[x] = o}
    <3>1. referrers[o] = {x \in weakVars : location[x] = o}
      BY <1>1 DEF EntryInv
    <3>2. CASE o = f.old
      BY <1>1, <2>4, <3>1, <3>2, NilAssumption DEF TypeInv
    <3>3. CASE o # f.old
      <4>1. r[o] = referrers[o]
        BY <1>1, <2>4, <3>3 DEF TypeInv
      <4> QED BY <2>1, <3>1, <3>3, <4>1
    <3> QED BY <3>2, <3>3
  <2> QED BY <2>3, <2>5, <2>6
<1>4. CASE ~haveOld(f.op)
  <2>1. f.v \notin weakVars
    BY <1>2, <1>4 DEF haveOld, Stores, Inits, GoodFrame, VarOK
  <2>2. errors' = errors
    BY <1>4 DEF Store
  <2>3. \A o \in Object : r[o] = {x \in weakVars : location[x] = o}
    BY <1>1, <1>4 DEF EntryInv
  <2>4. \A o \in Object : {x \in weakVars : location[x] = o} = {x \in weakVars \ {f.v} : location[x] = o}
    BY <2>1
  <2> QED BY <1>1, <1>4, <2>2, <2>3, <2>4 DEF TypeInv
<1> QED BY <1>3, <1>4

LEMMA StoreStep ==
  ASSUME IInv, NEW t \in Thread, Store(t) PROVE IInv'
<1> DEFINE f == top(t)
<1>1. stack[t] # <<>> /\ f.pc = "store" /\ TypeInv /\ EntryInv /\ OwnedInv
  BY DEF Store, Locked, At, IInv
<1>2. f \in FrameType /\ FormOK(f) /\ GoodFrame(t, f) /\ f.op \in Stores /\ f.v \in Variable
  BY <1>1, TopGood, OpOf DEF FormOK, Stores
<1>3. PICK r \in [Object -> SUBSET Variable] :
        /\ r = IF haveOld(f.op) THEN Unregister(f.v, f.old) ELSE referrers
        /\ \A o \in Object : r[o] = {x \in weakVars \ {f.v} : location[x] = o}
  BY Unregistered
<1>4. PICK v \in Variable, new \in {Registered(f)} : v = f.v
  BY <1>2
<1>5. /\ errors' = errors /\ unlock(t) /\ Return(t) /\ UNCHANGED <<object, strong, class, calls>>
  BY Unregistered DEF Store
<1>6. \A o \in Object : r[o] = {x \in weakVars \ {v} : location[x] = o} /\ r[o] \subseteq referrers[o]
  BY <1>1, <1>3, <1>4 DEF EntryInv
<1>7. Pops(t) /\ lock' \in [Table -> Thread \cup {nil}]
  BY <1>1, <1>5, ReturnEffect, UnlockType
<1>8. CASE haveNew(f.op)
  <2>1. /\ referrers' = IF new = nil THEN r ELSE [r EXCEPT ![new] = @ \cup {v}]
        /\ weakly_referenced' = weakly_referenced \cup ({new} \ {nil})
        /\ location' = [location EXCEPT ![v] = new]
        /\ weakVars' = weakVars \cup {v}
    BY <1>3, <1>4, <1>8 DEF Store
  <2>2. new \in Object \cup {nil} /\ (new # nil => object[new] = "live")
    BY <1>2, <1>4 DEF Registered, FrameType
  <2>3. referrers' \in [Object -> SUBSET Variable]
    BY <2>1, <2>2
  <2>4. TypeInv'
    BY <1>1, <1>5, <1>7, <2>1, <2>2, <2>3 DEF TypeInv, Pops, OthersStay
  <2>5. ASSUME NEW o \in Object
        PROVE  /\ referrers'[o] = {x \in weakVars' : location'[x] = o}
               /\ referrers'[o] # {} => o \in weakly_referenced' /\ object'[o] # "freed"
    <3>1. \A x \in weakVars' : location'[x] = IF x = v THEN new ELSE location[x]
      BY <1>1, <2>1, <2>2 DEF TypeInv
    <3>2. CASE o = new
      <4>1. new # nil /\ referrers'[o] = r[o] \cup {v}
        BY <2>1, <3>2, NilAssumption
      <4>2. {x \in weakVars' : location'[x] = o} = {x \in weakVars \ {v} : location[x] = o} \cup {v}
        BY <2>1, <3>1, <3>2
      <4> QED BY <1>5, <1>6, <2>1, <2>2, <3>2, <4>1, <4>2
    <3>3. CASE o # new
      <4>1. referrers'[o] = r[o]
        BY <2>1, <3>3
      <4>2. {x \in weakVars' : location'[x] = o} = {x \in weakVars \ {v} : location[x] = o}
        BY <2>1, <3>1, <3>3
      <4>3. referrers'[o] # {} => referrers[o] # {}
        BY <1>6, <4>1
      <4> QED BY <1>1, <1>5, <1>6, <2>1, <4>1, <4>2, <4>3 DEF EntryInv
    <3> QED BY <3>2, <3>3
  <2>6. EntryInv'
    BY <2>5 DEF EntryInv
  <2>7. OneVariable(v)
    <3>1. ASSUME NEW o \in Object, object[o] # "live" PROVE referrers'[o] \subseteq referrers[o]
      <4>1. o # new
        BY <2>2, <3>1, NilAssumption
      <4>2. referrers'[o] = r[o]
        BY <2>1, <4>1
      <4> QED BY <1>6, <4>2
    <3> QED BY <1>5, <2>1, <3>1 DEF OneVariable
  <2>8. weakVars' # weakVars => v \in OwnsOf(top(t))
    <3>1. f.op \in Inits \/ f.op \in {"storeWeak", "storeWeakOrNil"}
      BY <1>8 DEF haveNew, Stores, Inits
    <3>2. CASE f.op \in Inits
      BY <1>4, <3>2 DEF OwnsOf, Inits
    <3>3. CASE f.op \in {"storeWeak", "storeWeakOrNil"}
      BY <1>2, <1>4, <2>1, <3>3 DEF GoodFrame, VarOK
    <3> QED BY <3>1, <3>2, <3>3
  <2>9. f.op # "destroyWeak"
    BY <1>8 DEF haveNew
  <2> QED BY <1>1, <1>7, <2>1, <2>4, <2>6, <2>7, <2>8, <2>9, OneVariablePop
<1>9. CASE ~haveNew(f.op)
  <2>1. /\ referrers' = r /\ weakVars' = weakVars \ {v} /\ UNCHANGED <<weakly_referenced, location>>
    BY <1>3, <1>4, <1>9 DEF Store
  <2>2. f.op = "destroyWeak"
    BY <1>2, <1>9 DEF haveNew
  <2>3. TypeInv'
    BY <1>1, <1>5, <1>7, <2>1 DEF TypeInv, Pops, OthersStay
  <2>4. EntryInv'
    BY <1>1, <1>5, <1>6, <2>1 DEF EntryInv
  <2>5. OneVariable(v)
    BY <1>5, <1>6, <2>1 DEF OneVariable
  <2>6. v \in OwnsOf(top(t))
    BY <1>4, <2>2 DEF OwnsOf
  <2> QED BY <1>1, <1>4, <1>7, <2>1, <2>2, <2>3, <2>4, <2>5, <2>6, OneVariablePop
<1> QED BY <1>8, <1>9


--------------------------------------------------------------------------------
(* The end of an object *)

LEMMA ClearStep ==
  ASSUME IInv, NEW t \in Thread, clearDeallocating(t) PROVE IInv'
<1> DEFINE f == top(t)
           o == f.new
<1>0. PICK g : g = [top(t) EXCEPT !.held = {}, !.pc = "free"]
  OBVIOUS
<1>1. /\ stack[t] # <<>> /\ f.pc = "clear" /\ f.want = <<>>
      /\ TypeInv /\ EntryInv /\ OwnedInv /\ FramesInv
  BY DEF clearDeallocating, Locked, At, IInv
<1>2. f \in FrameType /\ FormOK(f) /\ GoodFrame(t, f) /\ f.op = "dealloc" /\ o \in Object
  BY <1>1, TopGood, OpOf DEF FormOK, FrameType
<1>3. referrers[o] = {x \in weakVars : location[x] = o} /\ o # nil
  BY <1>1, <1>2, NilAssumption DEF EntryInv
<1>4. /\ location' = [v \in Variable |-> IF v \in referrers[o] THEN nil ELSE location[v]]
      /\ errors' = 0
  <2> DEFINE wrong == {v \in referrers[o] : location[v] \notin {o, nil}}
  <2>1. wrong = {}
    BY <1>3
  <2>2. Cardinality(wrong) = 0
    BY <2>1, FS_EmptySet
  <2>3. location' = [v \in Variable |-> IF v \in referrers[o] \ wrong THEN nil ELSE location[v]]
        /\ errors' = errors + Cardinality(wrong)
    BY DEF clearDeallocating
  <2> HIDE DEF wrong
  <2> QED BY <1>1, <2>1, <2>2, <2>3 DEF TypeInv
<1>5. /\ referrers' = [referrers EXCEPT ![o] = {}] /\ unlock(t) /\ Set(t, g)
      /\ UNCHANGED <<weakVars, object, strong, weakly_referenced, class, calls>>
  BY <1>0 DEF clearDeallocating, heap
<1>6. Turned(f, g) /\ g.pc = "free" /\ g.want = <<>>
  BY <1>0, <1>1, <1>2 DEF Turned, FrameType, PcType
<1>7. FormOK(g) /\ f.op \notin Copies /\ g \in FrameType
  BY <1>2, <1>6 DEF FormOK, Turned, PcsOf, Stores, Copies
<1>8. Replaces(t, g) /\ lock' \in [Table -> Thread \cup {nil}]
  BY <1>1, <1>5, <1>7, SetEffect, UnlockType
<1>9. TypeInv'
  BY <1>1, <1>2, <1>4, <1>5, <1>8 DEF TypeInv, Replaces, OthersStay
<1>10. /\ ExclusiveInv' /\ OneDeallocInv' /\ KinOK(stack'[t]) /\ NilOK(stack'[t])
       /\ \A i \in DOMAIN stack'[t] :
            \/ stack'[t][i] = g
            \/ i \in DOMAIN stack[t] /\ i # Len(stack[t]) /\ stack'[t][i] = stack[t][i]
       /\ g.pc \notin {"init", "release", "destroy", "nil"} /\ g.op # "copyWeak"
  BY <1>1, <1>6, <1>7, <1>8, TurnFrames
<1>11. \A p \in Object : referrers'[p] \subseteq referrers[p] /\ (p # o => referrers'[p] = referrers[p])
  BY <1>1, <1>5 DEF TypeInv
<1>12. ASSUME NEW u, NEW f1, f1 \in FrameType, GoodFrame(u, f1)
       PROVE  FormOK(f1) /\ VarOK(f1)' /\ ObjectOK(f1)' /\ CopyOK(u, f1)'
  <2>1. f1.op = "dealloc" => f1.new \in Object
    BY <1>12 DEF GoodFrame, FormOK, FrameType
  <2>2. f1.op = "dealloc" => referrers'[f1.new] \subseteq referrers[f1.new]
    BY <1>11, <2>1
  <2>3. ObjectOK(f1)'
    BY <1>5, <1>12, <2>2 DEF GoodFrame, ObjectOK
  <2> QED BY <1>5, <1>12, <2>3 DEF GoodFrame, VarOK, CopyOK
<1>13. FormOK(g) /\ VarOK(g)' /\ ObjectOK(g)' /\ CopyOK(t, g)'
  <2>1. referrers'[g.new] = {} /\ object'[g.new] = "deallocating"
    BY <1>1, <1>2, <1>5, <1>6 DEF TypeInv, Turned, GoodFrame, ObjectOK
  <2>2. VarOK(g)' /\ CopyOK(t, g)'
    BY <1>2, <1>5, <1>6, <1>10 DEF GoodFrame, VarOK, CopyOK, Turned
  <2> QED BY <1>7, <2>1, <2>2 DEF ObjectOK
<1>14. ASSUME NEW u \in Thread, NEW i \in DOMAIN stack'[u] PROVE GoodFrame(u, stack[u][i])'
  <2>1. PICK f1 : f1 = stack'[u][i]
    OBVIOUS
  <2>2. CASE u = t /\ f1 = g
    BY <1>13, <2>1, <2>2, FrameAfter
  <2>3. CASE ~(u = t /\ f1 = g)
    <3>1. i \in DOMAIN stack[u] /\ f1 = stack[u][i]
      BY <1>8, <1>10, <2>1, <2>3 DEF Replaces, OthersStay
    <3>2. f1 \in FrameType /\ GoodFrame(u, f1)
      BY <1>1, <3>1 DEF TypeInv, FramesInv
    <3> QED BY <1>12, <2>1, <3>2, FrameAfter
  <2> QED BY <2>2, <2>3
<1>15. ASSUME NEW u \in Thread PROVE KinOK(stack[u])' /\ NilOK(stack[u])'
  <2>1. KinOK(stack'[u]) /\ NilOK(stack'[u])
    BY <1>1, <1>8, <1>10 DEF FramesInv, Replaces, OthersStay
  <2>2. KinOK(stack[u])'
    BY <2>1 DEF KinOK
  <2>3. NilOK(stack[u])'
    BY <1>5, <2>1 DEF NilOK
  <2> QED BY <2>2, <2>3
<1>16. FramesInv'
  BY <1>14, <1>15 DEF FramesInv
<1>17. EntryInv'
  <2>1. ASSUME NEW p \in Object PROVE referrers'[p] = {x \in weakVars : location'[x] = p}
    <3>1. \A x \in weakVars : location'[x] = IF location[x] = o THEN nil ELSE location[x]
      BY <1>1, <1>3, <1>4 DEF TypeInv
    <3>2. p # nil /\ referrers[p] = {x \in weakVars : location[x] = p}
      BY <1>1, NilAssumption DEF EntryInv
    <3>3. CASE p = o
      <4>1. referrers'[p] = {}
        BY <1>1, <1>5, <3>3 DEF TypeInv
      <4> QED BY <3>1, <3>2, <3>3, <4>1
    <3>4. CASE p # o
      BY <1>11, <3>1, <3>2, <3>4
    <3> QED BY <3>3, <3>4
  <2>2. ASSUME NEW p \in Object, referrers'[p] # {} PROVE p \in weakly_referenced' /\ object'[p] # "freed"
    BY <1>1, <1>5, <1>11, <2>2 DEF EntryInv
  <2> QED BY <1>5, <2>1, <2>2 DEF EntryInv
<1>18. OwnedInv'
  BY <1>1, <1>5 DEF OwnedInv
<1> QED BY <1>9, <1>10, <1>16, <1>17, <1>18 DEF IInv


LEMMA FreeStep ==
  ASSUME IInv, NEW t \in Thread, Free(t) PROVE IInv'
<1> DEFINE o == top(t).new
<1>1. stack[t] # <<>> /\ top(t).pc = "free" /\ TypeInv /\ EntryInv /\ OwnedInv /\ FramesInv /\ OneDeallocInv
  BY DEF Free, At, IInv
<1>2. /\ top(t) \in FrameType /\ FormOK(top(t)) /\ GoodFrame(t, top(t)) /\ top(t).op = "dealloc"
      /\ o \in Object /\ object[o] = "deallocating" /\ referrers[o] = {}
  BY <1>1, TopGood, OpOf DEF FormOK, FrameType, GoodFrame, ObjectOK
<1>3. /\ object' = [object EXCEPT ![o] = "freed"] /\ Return(t)
      /\ UNCHANGED <<location, weakVars, referrers, lock, strong, weakly_referenced, class, errors, calls>>
  BY DEF Free
<1>4. Pops(t)
  BY <1>1, <1>3, ReturnEffect
<1>5. Shrinks(t)
  BY <1>4 DEF Pops, Shrinks, SameCall
<1>6. ExclusiveInv' /\ OneDeallocInv' /\ \A u \in Thread : KinOK(stack[u])'
  BY <1>1, <1>5, ShrinksInv
<1>7. TypeInv'
  BY <1>1, <1>2, <1>3, <1>4 DEF TypeInv, Pops, OthersStay
<1>8. PICK n \in Nat : n = Len(stack[t])
  BY <1>1, TopFrame
<1>9. /\ n # 0 /\ DOMAIN stack[t] = 1 .. n /\ DOMAIN stack'[t] = 1 .. n - 1 /\ n \in DOMAIN stack[t]
      /\ top(t) = stack[t][n]
  BY <1>1, <1>4, <1>8, TopFrame DEF Pops, OthersStay
<1>10. ASSUME NEW u \in Thread, NEW i \in DOMAIN stack'[u] PROVE GoodFrame(u, stack[u][i])'
  <2>1. PICK f : f = stack'[u][i]
    OBVIOUS
  <2>2. i \in DOMAIN stack[u] /\ f = stack[u][i] /\ (u # t \/ i # n)
    <3>1. CASE u = t
      BY <1>4, <1>8, <1>9, <1>10, <2>1, <3>1 DEF Pops
    <3>2. CASE u # t
      BY <1>4, <1>10, <2>1, <3>2 DEF Pops, OthersStay
    <3> QED BY <3>1, <3>2
  <2>3. f \in FrameType /\ GoodFrame(u, f)
    BY <1>1, <2>2 DEF TypeInv, FramesInv
  <2>4. f.op = "dealloc" => f.new # o
    BY <1>1, <1>2, <1>9, <2>2 DEF OneDeallocInv
  <2>5. f.op = "dealloc" => object'[f.new] = "deallocating"
    <3>1. f.op = "dealloc" => f.new \in Object /\ object[f.new] = "deallocating"
      BY <2>3 DEF GoodFrame, FormOK, ObjectOK, FrameType
    <3> QED BY <1>1, <1>3, <2>4, <3>1 DEF TypeInv
  <2>6. FormOK(f) /\ VarOK(f)' /\ ObjectOK(f)' /\ CopyOK(u, f)'
    BY <1>3, <2>3, <2>5 DEF GoodFrame, VarOK, ObjectOK, CopyOK
  <2> QED BY <2>1, <2>6, FrameAfter
<1>11. ASSUME NEW u \in Thread PROVE NilOK(stack[u])'
  <2>1. CASE u # t
    BY <1>1, <1>3, <1>4, <2>1 DEF NilOK, FramesInv, Pops, OthersStay
  <2>2. CASE u = t
    <3>1. top(t).op # "destroyWeak"
      BY <1>2
    <3> QED BY <1>1, <1>5, <2>2, <3>1, NilKept DEF NilOK
  <2> QED BY <2>1, <2>2
<1>12. FramesInv'
  BY <1>6, <1>10, <1>11 DEF FramesInv
<1>13. OwnedInv' /\ EntryInv'
  <2>1. \A p \in Object : object'[p] = IF p = o THEN "freed" ELSE object[p]
    BY <1>1, <1>3 DEF TypeInv
  <2>2. OwnedInv'
    BY <1>1, <1>2, <1>3, <2>1 DEF OwnedInv
  <2>3. EntryInv'
    BY <1>1, <1>2, <1>3, <2>1 DEF EntryInv
  <2> QED BY <2>2, <2>3
<1> QED BY <1>6, <1>7, <1>12, <1>13 DEF IInv

\* One reference less, and the deallocation if it was the last one.
LEMMA ReleasedInv ==
  ASSUME IInv, NEW t \in Thread, NEW o \in Object, strong[t][o] > 0, NEW fs, Released(t, o, fs),
         UNCHANGED <<location, weakVars, referrers, weakly_referenced, lock, class, errors>>,
         calls' \in Nat,
         \/ fs = <<>>
         \/ \E g : /\ fs = <<g>> /\ stack[t] # <<>> /\ top(t).op = "moveWeak" /\ top(t).pc = "release"
                   /\ Turned(top(t), g) /\ g.pc = "destroy" /\ g.want = <<>>
  PROVE  IInv'
<1> DEFINE last == Unowned(strong', o)
<1>1. TypeInv /\ EntryInv /\ OwnedInv /\ FramesInv /\ OneDeallocInv /\ ExclusiveInv
  BY DEF IInv
<1>2. PICK d : d = Frame("dealloc", "body", nil, nil, o)
  OBVIOUS
<1>3. /\ d \in FrameType /\ d.op = "dealloc" /\ d.pc = "body" /\ d.v = nil /\ d.src = nil /\ d.new = o
      /\ d.want = <<>>
  BY <1>2 DEF Frame, FrameType, OpType, PcType
<1>4. PICK g, m : \/ m = 0 /\ fs = <<>>
                  \/ /\ m = 1 /\ fs = <<g>> /\ stack[t] # <<>> /\ top(t).op = "moveWeak"
                     /\ top(t).pc = "release" /\ Turned(top(t), g) /\ g.pc = "destroy" /\ g.want = <<>>
  <2>1. CASE fs = <<>>
    BY <2>1
  <2>2. CASE fs # <<>>
    BY <2>2
  <2> QED BY <2>1, <2>2
<1>5. PICK s : s = IF last THEN Append(fs, d) ELSE fs
  OBVIOUS
<1>6. m \in {0, 1} /\ fs \in Seq(FrameType) /\ Len(fs) = m /\ (m = 1 => fs[1] = g)
  <2>1. CASE m = 0 /\ fs = <<>>
    BY <2>1
  <2>2. CASE m = 1 /\ fs = <<g>> /\ g \in FrameType
    <3> HIDE DEF FrameType
    <3> QED BY <2>2
  <2> QED BY <1>4, <2>1, <2>2 DEF Turned
<1>7. /\ s \in Seq(FrameType) /\ m <= Len(s)
      /\ \A i \in DOMAIN s : \/ i = 1 /\ m = 1 /\ s[i] = g
                             \/ i = m + 1 /\ last /\ s[i] = d
  <2>1. CASE last
    <3>1. s = Append(fs, d) /\ s \in Seq(FrameType) /\ Len(s) = m + 1 /\ s[m + 1] = d
          /\ (m = 1 => s[1] = g)
      BY <1>3, <1>5, <1>6, <2>1
    <3>2. DOMAIN s = 1 .. m + 1
      BY <3>1
    <3> QED BY <1>6, <2>1, <3>1, <3>2
  <2>2. CASE ~last
    <3>1. s = fs
      BY <1>5, <2>2
    <3> QED BY <1>6, <3>1
  <2> QED BY <2>1, <2>2
<1>8. /\ strong' = [strong EXCEPT ![t][o] = @ - 1]
      /\ object' = IF last THEN [object EXCEPT ![o] = "deallocating"] ELSE object
      /\ stack' = [stack EXCEPT ![t] = s]
  BY <1>2, <1>5 DEF Released
<1>9. /\ strong' \in [Thread -> [Object -> Nat]]
      /\ \A u \in Thread, p \in Object :
           strong'[u][p] = IF u = t /\ p = o THEN strong[t][o] - 1 ELSE strong[u][p]
  <2>1. strong \in [Thread -> [Object -> Nat]] /\ strong[t] \in [Object -> Nat] /\ strong[t][o] - 1 \in Nat
    BY <1>1 DEF TypeInv
  <2>2. [strong[t] EXCEPT ![o] = @ - 1] \in [Object -> Nat]
    BY <2>1
  <2> QED BY <1>8, <2>1, <2>2
<1>10. OthersStay(t) /\ stack'[t] = s
  BY <1>1, <1>7, <1>8 DEF TypeInv, OthersStay
<1> HIDE DEF last
<1>11. TypeInv'
  BY <1>1, <1>8, <1>9, <1>10 DEF TypeInv, OthersStay
<1>12. m = 1 => /\ top(t).op \in Copies /\ Len(stack[t]) = 1 /\ DOMAIN stack[t] = {1}
                /\ top(t) = stack[t][1]
  BY <1>4, CopyAlone DEF Copies
<1>13. Keeps(t, m)
  <2>1. m = 1 => SameCall(stack[t][1], s[1])
    <3>1. m = 1 => s[1] = g
      <4>1. m = 1 => 1 \in DOMAIN s
        BY <1>7
      <4> QED BY <1>7, <4>1
    <3> QED BY <1>4, <1>12, <3>1 DEF SameCall, Turned
  <2>2. m \in 0 .. Len(stack[t])
    <3>1. Len(stack[t]) \in Nat
      BY <1>1 DEF TypeInv
    <3> QED BY <1>6, <1>12, <3>1
  <2>3. \A i \in 1 .. m : m = 1 /\ i = 1
    BY <1>6
  <2> QED BY <1>7, <1>10, <2>1, <2>2, <2>3 DEF Keeps
<1>14. \A i \in DOMAIN s : i > m => s[i] = d /\ last
  BY <1>6, <1>7
<1>15. ExclusiveInv'
  <2>1. \A x : ~Conflict(d, x)
    BY <1>3 DEF Conflict, OwnsOf, UsesOf, Inits
  <2>2. \A i \in DOMAIN stack'[t] : i > m => \A x : ~Conflict(stack'[t][i], x)
    BY <1>10, <1>14, <2>1
  <2> QED BY <1>1, <1>13, <2>2, ExclusiveKept
<1>16. object[o] = "live"
  BY <1>1 DEF OwnedInv
<1>17. ASSUME NEW u \in Thread, NEW i \in DOMAIN stack[u] 
       PROVE  stack[u][i].op = "dealloc" => stack[u][i].new # o
  <2>1. GoodFrame(u, stack[u][i])
    BY <1>1 DEF FramesInv
  <2> QED BY <1>16, <2>1 DEF GoodFrame, ObjectOK
<1>18. OneDeallocInv'
  <2>1. ASSUME NEW i \in DOMAIN stack'[t], i > m, NEW u \in Thread, NEW j \in DOMAIN stack'[u],
               stack'[u][j].op = "dealloc", stack'[u][j].new = stack'[t][i].new
        PROVE  t = u /\ i = j
    <3>1. stack'[t][i].new = o /\ i = m + 1
      BY <1>3, <1>6, <1>7, <1>10, <2>1
    <3>2. CASE u = t /\ j > m
      BY <1>6, <1>7, <1>10, <2>1, <3>1, <3>2
    <3>3. CASE u = t => j <= m
      <4>1. j \in DOMAIN stack[u] /\ SameCall(stack[u][j], stack'[u][j])
        BY <1>1, <1>13, <3>3, KeptFrame
      <4>2. stack[u][j].op = "dealloc" /\ stack[u][j].new = o
        BY <2>1, <3>1, <4>1 DEF SameCall
      <4> QED BY <1>17, <4>1, <4>2
    <3>4. j \in Nat
      BY <1>7, <1>10, <1>11 DEF TypeInv
    <3> QED BY <1>6, <3>2, <3>3, <3>4
  <2> QED BY <1>1, <1>13, <2>1, OneDeallocKept
<1>19. ASSUME NEW u \in Thread, NEW i \in DOMAIN stack'[u] PROVE GoodFrame(u, stack[u][i])'
  <2>1. PICK f : f = stack'[u][i]
    OBVIOUS
  <2>2. CASE u # t
    <3>1. f \in FrameType /\ GoodFrame(u, f) /\ (f.op = "dealloc" => f.new # o)
      BY <1>1, <1>10, <1>17, <2>1, <2>2 DEF TypeInv, FramesInv, OthersStay
    <3>2. f.op = "dealloc" => object'[f.new] = object[f.new]
      <4>1. f.op = "dealloc" => f.new \in Object
        BY <3>1 DEF GoodFrame, FormOK, FrameType
      <4> QED BY <1>1, <1>8, <3>1, <4>1 DEF TypeInv
    <3>3. f.new # nil => strong'[u][f.new] = strong[u][f.new]
      <4>1. f.new # nil => f.new \in Object
        BY <3>1 DEF FrameType
      <4> QED BY <1>9, <2>2, <4>1
    <3>4. FormOK(f) /\ VarOK(f)' /\ ObjectOK(f)' /\ CopyOK(u, f)'
      BY <3>1, <3>2, <3>3 DEF GoodFrame, VarOK, ObjectOK, CopyOK
    <3> QED BY <2>1, <3>4, FrameAfter
  <2>3. CASE u = t /\ f = d /\ last
    <3>1. object'[o] = "deallocating"
      BY <1>1, <1>8, <2>3 DEF TypeInv
    <3>2. FormOK(d) /\ VarOK(d)' /\ ObjectOK(d)' /\ CopyOK(t, d)'
      BY <1>3, <3>1, NilAssumption
        DEF FormOK, VarOK, ObjectOK, CopyOK, PcsOf, Stores, Copies, Inits
    <3> QED BY <2>1, <2>3, <3>2, FrameAfter
  <2>4. CASE u = t /\ f = g /\ m = 1
    <3>1. GoodFrame(t, top(t)) /\ FormOK(top(t))
      BY <1>4, <2>4, TopGood
    <3>2. FormOK(g) /\ VarOK(g)' /\ ObjectOK(g)' /\ CopyOK(t, g)'
      BY <1>4, <2>4, <3>1
        DEF GoodFrame, FormOK, VarOK, ObjectOK, CopyOK, PcsOf, Stores, Copies, Inits, Turned
    <3> QED BY <2>1, <2>4, <3>2, FrameAfter
  <2> QED BY <1>7, <1>10, <1>19, <2>1, <2>2, <2>3, <2>4
<1>20. ASSUME NEW u \in Thread PROVE KinOK(stack[u])' /\ NilOK(stack[u])'
  <2>1. CASE u # t
    <3>1. stack'[u] = stack[u] /\ KinOK(stack[u]) /\ NilOK(stack[u])
      BY <1>1, <1>10, <2>1 DEF FramesInv, OthersStay
    <3> QED BY <3>1 DEF KinOK, NilOK
  <2>2. CASE u = t
    <3>1. Len(s) \in Nat /\ DOMAIN s = 1 .. Len(s)
      BY <1>7
    <3>2. Len(s) > 1 => m = 1 /\ s[1] = g /\ s[2] = d
      <4>1. Len(s) > 1 => 1 \in DOMAIN s /\ 2 \in DOMAIN s
        BY <3>1
      <4> QED BY <1>6, <1>7, <4>1
    <3>3. \A i \in DOMAIN s : /\ s[i].op \in Copies => i = 1
                              /\ s[i].op # "loadWeakRetained"
      BY <1>3, <1>4, <1>7 DEF Turned, Copies
    <3>4. KinOK(s)
      BY <1>3, <1>4, <3>2, <3>3 DEF KinOK
    <3>5. Len(s) = 1 => s[1].pc # "nil"
      <4>1. Len(s) = 1 => 1 \in DOMAIN s
        BY <3>1
      <4> QED BY <1>3, <1>4, <1>7, <4>1
    <3> QED BY <1>10, <2>2, <3>4, <3>5 DEF KinOK, NilOK
  <2> QED BY <2>1, <2>2
<1>21. FramesInv'
  BY <1>19, <1>20 DEF FramesInv
<1>22. OwnedInv'
  <2>1. ASSUME NEW p \in Object PROVE object'[p] = "live" <=> \E u \in Thread : strong'[u][p] > 0
    <3>1. CASE p = o
      <4>1. last <=> \A u \in Thread : ~(strong'[u][o] > 0)
        BY <1>9 DEF last, Unowned
      <4> QED BY <1>1, <1>8, <1>16, <3>1, <4>1 DEF TypeInv
    <3>2. CASE p # o
      <4>1. object'[p] = object[p]
        BY <1>1, <1>8, <3>2 DEF TypeInv
      <4> QED BY <1>1, <1>9, <3>2, <4>1 DEF OwnedInv
    <3> QED BY <3>1, <3>2
  <2> QED BY <2>1 DEF OwnedInv
<1>23. EntryInv'
  <2>1. \A p \in Object : object'[p] = "freed" => object[p] = "freed"
    BY <1>1, <1>8 DEF TypeInv
  <2> QED BY <1>1, <2>1 DEF EntryInv
<1> QED BY <1>11, <1>15, <1>18, <1>21, <1>22, <1>23 DEF IInv


LEMMA ReleaseStep ==
  ASSUME IInv, NEW t \in Thread, NEW o \in Object, Release(t, o) PROVE IInv'
<1>1. calls' \in Nat
  BY DEF Release, IInv, TypeInv
<1>2. /\ strong[t][o] > 0 /\ Released(t, o, <<>>)
      /\ UNCHANGED <<location, weakVars, referrers, weakly_referenced, lock, class, errors>>
  BY DEF Release
<1> QED BY <1>1, <1>2, ReleasedInv

\* The copy of nil has nothing to release.
LEMMA CopyReleaseNilStep ==
  ASSUME IInv, NEW t \in Thread, CopyRelease(t), top(t).new = nil PROVE IInv'
<1>0. PICK g : g = [top(t) EXCEPT !.pc = "destroy"]
  OBVIOUS
<1>1. stack[t] # <<>> /\ top(t).pc = "release" /\ TypeInv /\ FramesInv
  BY DEF CopyRelease, At, IInv
<1>2. top(t) \in FrameType /\ FormOK(top(t)) /\ GoodFrame(t, top(t)) /\ top(t).op \in Copies
  BY <1>1, TopGood, OpOf
<1>3. Len(stack[t]) = 1 /\ DOMAIN stack[t] = {1} /\ top(t) = stack[t][1]
  BY <1>1, <1>2, CopyAlone
<1>4. Quiet /\ UNCHANGED <<lock, class, errors, calls>>
  BY DEF CopyRelease, Quiet
<1>5. CASE top(t).op = "copyWeak"
  <2>1. Return(t)
    BY <1>5 DEF CopyRelease, Return
  <2>2. Pops(t)
    BY <1>1, <2>1, ReturnEffect
  <2>3. Shrinks(t)
    BY <2>2 DEF Pops, Shrinks, SameCall
  <2>4. ExclusiveInv' /\ OneDeallocInv' /\ \A u \in Thread : KinOK(stack[u])'
    BY <1>1, <2>3, ShrinksInv
  <2>5. TypeInv'
    BY <1>1, <1>4, <2>2 DEF TypeInv, Pops, OthersStay, Quiet
  <2>6. DOMAIN stack'[t] = {} /\ Len(stack'[t]) = 0
    <3>1. stack'[t] \in Seq(FrameType) /\ Len(stack'[t]) = 0
      BY <1>3, <2>2 DEF Pops, OthersStay
    <3> QED BY <3>1
  <2>7. KinOK(stack'[t])
    BY <2>6 DEF KinOK
  <2>8. NilOK(stack'[t])
    BY <2>6 DEF NilOK
  <2> QED BY <1>4, <2>2, <2>4, <2>5, <2>6, <2>7, <2>8, QuietInv DEF Pops
<1>6. CASE top(t).op = "moveWeak"
  <2>1. Set(t, g)
    BY <1>0, <1>6 DEF CopyRelease, Set
  <2>2. Turned(top(t), g) /\ g.pc = "destroy" /\ g.want = top(t).want
    <3>1. "destroy" \in PcType
      BY DEF PcType
    <3> QED BY <1>0, <1>2, <3>1, PcChanged
  <2>3. Replaces(t, g)
    BY <1>1, <2>1, <2>2, SetEffect DEF Turned
  <2>4. TypeInv'
    BY <1>1, <1>4, <2>3 DEF TypeInv, Replaces, OthersStay, Quiet
  <2>5. stack'[t] \in Seq(FrameType) /\ Len(stack'[t]) = 1 /\ DOMAIN stack'[t] = {1} /\ stack'[t][1] = g
    <3>1. stack'[t] \in Seq(FrameType) /\ Len(stack'[t]) = 1 /\ stack'[t][1] = g
      BY <1>3, <2>3 DEF Replaces, OthersStay
    <3> QED BY <3>1
  <2>6. GoodFrame(t, g)
    BY <1>1, <1>2, <1>6, <2>2
      DEF GoodFrame, FormOK, VarOK, ObjectOK, CopyOK, PcsOf, Stores, Copies, Inits, Turned
  <2>7. KinOK(stack'[t])
    BY <2>5, <1>6, <2>2 DEF KinOK, Turned
  <2>8. NilOK(stack'[t])
    BY <2>2, <2>5 DEF NilOK
  <2>9. Keeps(t, 1)
    BY <1>3, <2>2, <2>3, <2>5 DEF Keeps, Replaces, SameCall, Turned
  <2>10. ExclusiveInv' /\ OneDeallocInv'
    <3>1. \A i \in DOMAIN stack'[t] : ~(i > 1)
      BY <2>5
    <3>2. ExclusiveInv'
      BY <2>9, <3>1, ExclusiveKept DEF IInv
    <3>3. OneDeallocInv'
      BY <2>9, <3>1, OneDeallocKept DEF IInv
    <3> QED BY <3>2, <3>3
  <2> QED BY <1>4, <2>3, <2>4, <2>5, <2>6, <2>7, <2>8, <2>10, QuietInv DEF Replaces
<1> QED BY <1>2, <1>5, <1>6 DEF Copies

LEMMA CopyReleaseStep ==
  ASSUME IInv, NEW t \in Thread, CopyRelease(t) PROVE IInv'
<1>0. PICK g : g = [top(t) EXCEPT !.pc = "destroy"]
  OBVIOUS
<1>1. stack[t] # <<>> /\ top(t).pc = "release" /\ TypeInv
  BY DEF CopyRelease, At, IInv
<1>2. top(t) \in FrameType /\ FormOK(top(t)) /\ GoodFrame(t, top(t)) /\ top(t).op \in Copies
  BY <1>1, TopGood, OpOf
<1>3. CASE top(t).new = nil
  BY <1>3, CopyReleaseNilStep
<1>4. CASE top(t).new # nil
  <2>1. top(t).new \in Object /\ strong[t][top(t).new] > 0
    BY <1>1, <1>2, <1>4 DEF FrameType, GoodFrame, CopyOK
  <2>2. Len(stack[t]) = 1 /\ stack[t] \in Seq(FrameType)
    BY <1>1, <1>2, CopyAlone DEF TypeInv
  <2>3. Front(stack[t]) = <<>>
    <3>1. Front(stack[t]) \in Seq(FrameType) /\ Len(Front(stack[t])) = 0
      BY <1>1, <2>2, FrontEffect
    <3> QED BY <3>1
  <2>4. Turned(top(t), g) /\ g.pc = "destroy" /\ g.want = <<>>
    <3>1. "destroy" \in PcType
      BY DEF PcType
    <3>2. top(t).want = <<>>
      BY <1>1, <1>2 DEF FormOK
    <3> QED BY <1>0, <1>2, <3>1, <3>2, PcChanged
  <2>5. PICK fs : /\ fs = IF top(t).op = "copyWeak" THEN <<>> ELSE Append(<<>>, g)
                  /\ Released(t, top(t).new, fs)
    BY <1>0, <1>4, <2>3 DEF CopyRelease
  <2>6. \/ fs = <<>>
        \/ fs = <<g>> /\ top(t).op = "moveWeak"
    <3>1. Append(<<>>, g) = <<g>>
      OBVIOUS
    <3> QED BY <1>2, <2>5, <3>1 DEF Copies
  <2>7. UNCHANGED <<location, weakVars, referrers, weakly_referenced, lock, class, errors>> /\ calls' \in Nat
    BY <1>1 DEF CopyRelease, TypeInv
  <2> QED BY <1>1, <2>1, <2>4, <2>5, <2>6, <2>7, ReleasedInv
<1> QED BY <1>3, <1>4


--------------------------------------------------------------------------------
(* The calls of the program *)

\* A thread with no call makes one, which has its variables to itself where it must.
LEMMA StartInv ==
  ASSUME IInv, Quiet, TypeInv', NEW t \in Thread, stack[t] = <<>>, OthersStay(t),
         KinOK(stack'[t]), NilOK(stack'[t]),
         \A i \in DOMAIN stack'[t] :
           /\ GoodFrame(t, stack'[t][i]) /\ stack'[t][i].op # "dealloc"
           /\ \A u \in Thread : \A j \in DOMAIN stack[u] : ~Conflict(stack'[t][i], stack[u][j])
           /\ \A j \in DOMAIN stack'[t] : i = j \/ Kin(stack'[t], i, j)
  PROVE  IInv'
<1>1. Keeps(t, 0)
  <2>1. Len(stack[t]) = 0 /\ Len(stack'[t]) \in Nat
    BY DEF OthersStay
  <2> QED BY <2>1 DEF Keeps
<1>2. ASSUME NEW i \in DOMAIN stack'[t], NEW u \in Thread, NEW j \in DOMAIN stack'[u],
             Conflict(stack'[t][i], stack'[u][j])
      PROVE  t = u /\ (i = j \/ Kin(stack'[t], i, j))
  BY <1>2 DEF OthersStay
<1>3. ExclusiveInv'
  BY <1>1, <1>2, ExclusiveKept DEF IInv
<1>4. OneDeallocInv'
  BY <1>1, OneDeallocKept DEF IInv
<1> QED BY <1>3, <1>4, QuietInv

LEMMA CallStep ==
  ASSUME IInv, NEW t \in Thread, Call(t) PROVE IInv'
<1>1. PICK v \in Variable, o \in Object \cup {nil}, op \in Stores \cup {"loadWeakRetained"} :
        /\ v \in weakVars <=> op \notin {"initWeak", "initWeakOrNil"}
        /\ IF op \in {"storeWeak", "storeWeakOrNil", "loadWeakRetained"} THEN Shared(v) ELSE Idle(v)
        /\ stack' = [stack EXCEPT ![t] = <<Frame(op, "read", v, nil, o)>>]
  BY DEF Call
<1>2. PICK f : f = Frame(op, "read", v, nil, o)
  OBVIOUS
<1>3. /\ f \in FrameType /\ f.op = op /\ f.pc = "read" /\ f.v = v /\ f.src = nil /\ f.new = o
      /\ f.want = <<>>
  BY <1>2 DEF Frame, FrameType, OpType, PcType
<1>4. /\ stack[t] = <<>> /\ Quiet /\ UNCHANGED <<lock, class, errors>> /\ calls' = calls + 1
      /\ TypeInv
  BY DEF Call, Quiet, heap, IInv
<1>5. PICK s : s = <<f>>
  OBVIOUS
<1>6. s \in Seq(FrameType) /\ Len(s) = 1 /\ DOMAIN s = {1} /\ s[1] = f
  <2> HIDE DEF FrameType
  <2> QED BY <1>3, <1>5
<1>7. OthersStay(t) /\ stack'[t] = s
  BY <1>1, <1>2, <1>4, <1>5, <1>6 DEF TypeInv, OthersStay
<1>8. TypeInv'
  BY <1>4, <1>7 DEF TypeInv, OthersStay, Quiet
<1>9. GoodFrame(t, f) /\ op \notin Copies \cup {"dealloc"}
  BY <1>1, <1>3, NilAssumption
    DEF GoodFrame, FormOK, VarOK, ObjectOK, CopyOK, PcsOf, Stores, Copies, Inits
<1>10. ASSUME NEW u \in Thread, NEW j \in DOMAIN stack[u] PROVE ~Conflict(f, stack[u][j])
  <2>1. v # nil /\ OwnsOf(f) \subseteq {v} /\ UsesOf(f) \subseteq {v}
    BY <1>3, <1>9, NilAssumption DEF OwnsOf, UsesOf, Copies
  <2>2. CASE op \in {"storeWeak", "storeWeakOrNil", "loadWeakRetained"}
    <3>1. OwnsOf(f) = {}
      BY <1>3, <2>2 DEF OwnsOf, Inits
    <3>2. v \notin OwnsOf(stack[u][j])
      BY <1>1, <2>2, SharedFree
    <3> QED BY <2>1, <3>1, <3>2 DEF Conflict
  <2>3. CASE op \notin {"storeWeak", "storeWeakOrNil", "loadWeakRetained"}
    <3>1. v \notin OwnsOf(stack[u][j]) /\ v \notin UsesOf(stack[u][j])
      BY <1>1, <2>3, IdleFree
    <3> QED BY <2>1, <3>1 DEF Conflict
  <2> QED BY <2>2, <2>3
<1>11. KinOK(s) /\ NilOK(s)
  BY <1>3, <1>6, <1>9 DEF KinOK, NilOK
<1> QED BY <1>3, <1>4, <1>6, <1>7, <1>8, <1>9, <1>10, <1>11, StartInv

LEMMA CallCopyStep ==
  ASSUME IInv, NEW t \in Thread, CallCopy(t) PROVE IInv'
<1>1. PICK dst \in Variable \ weakVars, src \in weakVars, op \in {"copyWeak", "moveWeak"} :
        /\ Idle(dst) /\ IF op = "moveWeak" THEN Idle(src) ELSE Shared(src)
        /\ stack' = [stack EXCEPT ![t] =
             <<Frame(op, "init", dst, src, nil), Frame("loadWeakRetained", "read", src, nil, nil)>>]
  BY DEF CallCopy
<1>2. PICK f, g : f = Frame(op, "init", dst, src, nil) /\ g = Frame("loadWeakRetained", "read", src, nil, nil)
  OBVIOUS
<1>3. /\ stack[t] = <<>> /\ Quiet /\ UNCHANGED <<lock, class, errors>> /\ calls' = calls + 1
      /\ TypeInv /\ src \in Variable
  BY DEF CallCopy, Quiet, heap, IInv, TypeInv
<1>4. /\ f \in FrameType /\ f.op = op /\ f.pc = "init" /\ f.v = dst /\ f.src = src /\ f.new = nil
      /\ f.want = <<>>
  BY <1>2, <1>3 DEF Frame, FrameType, OpType, PcType, Copies
<1>5. /\ g \in FrameType /\ g.op = "loadWeakRetained" /\ g.pc = "read" /\ g.v = src /\ g.src = nil
      /\ g.new = nil /\ g.want = <<>>
  BY <1>2, <1>3 DEF Frame, FrameType, OpType, PcType
<1>6. PICK s : s = <<f, g>>
  OBVIOUS
<1>7. s \in Seq(FrameType) /\ Len(s) = 2 /\ DOMAIN s = {1, 2} /\ s[1] = f /\ s[2] = g
  <2> HIDE DEF FrameType
  <2>1. s \in Seq(FrameType) /\ Len(s) = 2 /\ s[1] = f /\ s[2] = g
    BY <1>4, <1>5, <1>6
  <2> QED BY <2>1
<1>8. OthersStay(t) /\ stack'[t] = s
  BY <1>1, <1>2, <1>3, <1>6, <1>7 DEF TypeInv, OthersStay
<1>9. TypeInv'
  BY <1>3, <1>8 DEF TypeInv, OthersStay, Quiet
<1>10. dst # src /\ dst # nil /\ src # nil /\ dst \in Variable /\ dst \notin weakVars
  BY <1>3, NilAssumption
<1>11. GoodFrame(t, f) /\ GoodFrame(t, g)
  BY <1>3, <1>4, <1>5, <1>10
    DEF GoodFrame, FormOK, VarOK, ObjectOK, CopyOK, PcsOf, Stores, Copies, Inits
<1>12. ASSUME NEW u \in Thread, NEW j \in DOMAIN stack[u]
       PROVE  ~Conflict(f, stack[u][j]) /\ ~Conflict(g, stack[u][j])
  <2>1. dst \notin OwnsOf(stack[u][j]) /\ dst \notin UsesOf(stack[u][j])
    BY <1>1, IdleFree
  <2>2. src \notin OwnsOf(stack[u][j])
    BY <1>1, IdleFree, SharedFree
  <2>3. op = "moveWeak" => src \notin UsesOf(stack[u][j])
    BY <1>1, IdleFree
  <2>4. UsesOf(f) = {dst, src} /\ UsesOf(g) = {src} /\ OwnsOf(g) = {}
    BY <1>4, <1>5, <1>10 DEF UsesOf, OwnsOf, Inits
  <2>5. OwnsOf(f) = IF op = "moveWeak" THEN {dst, src} ELSE {dst}
    BY <1>4 DEF OwnsOf, Inits
  <2> QED BY <2>1, <2>2, <2>3, <2>4, <2>5 DEF Conflict
<1>13. KinOK(s) /\ NilOK(s)
  BY <1>4, <1>5, <1>7 DEF KinOK, NilOK, Copies
<1>14. \A i, j \in DOMAIN s : Kin(s, i, j)
  BY <1>4, <1>7 DEF Kin, Copies
<1> QED BY <1>3, <1>4, <1>5, <1>7, <1>8, <1>9, <1>11, <1>12, <1>13, <1>14, StartInv

\* The memory that is reused has no entry.
LEMMA AllocStep ==
  ASSUME IInv, NEW t \in Thread, NEW o \in Object, Alloc(t, o) PROVE IInv'
<1>1. /\ object[o] = "freed" /\ object' = [object EXCEPT ![o] = "live"]
      /\ strong' = [strong EXCEPT ![t][o] = 1] /\ weakly_referenced' = weakly_referenced \ {o}
      /\ UNCHANGED <<location, weakVars, referrers, lock, class, stack, errors>> /\ calls' = calls + 1
  BY DEF Alloc
<1>2. TypeInv /\ FramesInv /\ ExclusiveInv /\ OneDeallocInv /\ OwnedInv /\ EntryInv
  BY DEF IInv
<1>3. /\ strong' \in [Thread -> [Object -> Nat]]
      /\ \A u \in Thread, p \in Object :
           strong'[u][p] = IF u = t /\ p = o THEN 1 ELSE strong[u][p]
  <2>1. strong \in [Thread -> [Object -> Nat]] /\ [strong[t] EXCEPT ![o] = 1] \in [Object -> Nat]
    BY <1>2 DEF TypeInv
  <2> QED BY <1>1, <2>1
<1>4. \A p \in Object : object'[p] = IF p = o THEN "live" ELSE object[p]
  BY <1>1, <1>2 DEF TypeInv
<1>5. TypeInv'
  BY <1>1, <1>2, <1>3 DEF TypeInv
<1>6. OwnedInv'
  <2>1. ASSUME NEW p \in Object PROVE object'[p] = "live" <=> \E u \in Thread : strong'[u][p] > 0
    <3>1. CASE p = o
      BY <1>3, <1>4, <3>1
    <3>2. CASE p # o
      BY <1>2, <1>3, <1>4, <3>2 DEF OwnedInv
    <3> QED BY <3>1, <3>2
  <2> QED BY <2>1 DEF OwnedInv
<1>7. EntryInv'
  BY <1>1, <1>2, <1>4 DEF EntryInv
<1>8. ASSUME NEW u \in Thread, NEW i \in DOMAIN stack'[u] PROVE GoodFrame(u, stack[u][i])'
  <2>1. PICK f : f = stack'[u][i]
    OBVIOUS
  <2>2. f \in FrameType /\ GoodFrame(u, f)
    BY <1>1, <1>2, <1>8, <2>1 DEF TypeInv, FramesInv
  <2>3. f.op = "dealloc" => object'[f.new] = object[f.new]
    BY <1>1, <1>4, <2>2, NilAssumption DEF FrameType, GoodFrame, FormOK, ObjectOK
  <2>4. f.new # nil /\ strong[u][f.new] > 0 => strong'[u][f.new] > 0
    BY <1>3, <2>2 DEF FrameType
  <2>5. FormOK(f) /\ VarOK(f)' /\ ObjectOK(f)' /\ CopyOK(u, f)'
    BY <1>1, <2>2, <2>3, <2>4 DEF GoodFrame, VarOK, ObjectOK, CopyOK
  <2> QED BY <2>1, <2>5, FrameAfter
<1>9. ASSUME NEW u \in Thread PROVE KinOK(stack[u])' /\ NilOK(stack[u])'
  BY <1>1, <1>2 DEF FramesInv, KinOK, NilOK
<1>10. FramesInv' /\ ExclusiveInv' /\ OneDeallocInv'
  <2>1. FramesInv'
    BY <1>8, <1>9 DEF FramesInv
  <2>2. ExclusiveInv' /\ OneDeallocInv'
    BY <1>1, <1>2, SMTT(20) DEF ExclusiveInv, OneDeallocInv
  <2> QED BY <2>1, <2>2
<1> QED BY <1>5, <1>6, <1>7, <1>10 DEF IInv


--------------------------------------------------------------------------------
(* The invariant holds *)

LEMMA ClassInitializeStep ==
  ASSUME IInv, NEW t \in Thread, ClassInitialize(t) PROVE IInv'
<1>1. \/ /\ class[top(t).old] = "uninitialized"
         /\ class' = [class EXCEPT ![top(t).old] = t]
         /\ Enter(t, "class_initialize", Frame("initialize", "body", nil, nil, top(t).old))
      \/ Set(t, [top(t) EXCEPT !.pc = "read", !.prev = TRUE]) /\ UNCHANGED class
  BY DEF ClassInitialize
<1> QED BY <1>1, RunsInitializeStep, ClassInitializedStep

LEMMA StutterStep ==
  ASSUME IInv, UNCHANGED vars PROVE IInv'
<1>1. TypeInv /\ FramesInv /\ ExclusiveInv /\ OneDeallocInv /\ OwnedInv /\ EntryInv
  BY DEF IInv
<1>2. TypeInv'
  BY <1>1 DEF vars, TypeInv
<1>3. ExclusiveInv' /\ OneDeallocInv' /\ OwnedInv' /\ EntryInv'
  BY <1>1, ZenonT(30) DEF vars, heap, ExclusiveInv, OneDeallocInv, OwnedInv, EntryInv
<1>4. FramesInv'
  <2>1. Quiet /\ stack' = stack
    BY DEF vars, heap, Quiet
  <2>2. ASSUME NEW u \in Thread PROVE KinOK(stack[u])' /\ NilOK(stack[u])'
    BY <1>1, <2>1 DEF FramesInv, KinOK, NilOK, Quiet
  <2>3. ASSUME NEW u \in Thread, NEW i \in DOMAIN stack'[u] PROVE GoodFrame(u, stack[u][i])'
    <3>1. PICK f : f = stack'[u][i]
      OBVIOUS
    <3>2. GoodFrame(u, f)
      BY <1>1, <2>1, <3>1 DEF FramesInv
    <3> QED BY <2>1, <3>1, <3>2, QuietFrame
  <2> QED BY <2>2, <2>3 DEF FramesInv
<1> QED BY <1>2, <1>3, <1>4 DEF IInv

\* At the start there are no frames.
LEMMA InitInv ==
  Init => IInv
<1> SUFFICES ASSUME Init PROVE IInv
  OBVIOUS
<1>1. \A u \in Thread : stack[u] = <<>> /\ DOMAIN stack[u] = {}
  BY DEF Init
<1>2. TypeInv
  <2>1. /\ strong \in [Thread -> [Object -> 0 .. 1]] /\ weakly_referenced \in SUBSET Object
        /\ class \in [Object -> Thread \cup {"uninitialized", "initialized"}]
        /\ location \in [Variable -> Object \cup {nil}] /\ weakVars \in SUBSET Variable
        /\ referrers \in [Object -> SUBSET Variable] /\ lock \in [Table -> Thread \cup {nil}]
        /\ object \in [Object -> {"live", "deallocating", "freed"}]
        /\ errors = 0 /\ calls = 0
    BY DEF Init
  <2>2. strong \in [Thread -> [Object -> Nat]]
    BY <2>1
  <2>3. stack \in [Thread -> Seq(FrameType)]
    <3> HIDE DEF FrameType
    <3>1. <<>> \in Seq(FrameType)
      OBVIOUS
    <3> QED BY <3>1 DEF Init
  <2> QED BY <2>1, <2>2, <2>3 DEF TypeInv
<1>3. FramesInv
  <2>1. ASSUME NEW u \in Thread PROVE KinOK(stack[u]) /\ NilOK(stack[u])
    <3>1. Len(stack[u]) = 0
      BY <1>1
    <3> QED BY <1>1, <3>1 DEF KinOK, NilOK
  <2> QED BY <1>1, <2>1 DEF FramesInv
<1>4. ExclusiveInv /\ OneDeallocInv
  BY <1>1 DEF ExclusiveInv, OneDeallocInv
<1>5. OwnedInv
  <2>1. ASSUME NEW o \in Object PROVE \E u \in Thread : strong[u][o] > 0
    <3>1. PICK u \in Thread : strong[u][o] # 0
      BY DEF Init, Unowned
    <3>2. strong[u][o] \in Nat
      BY <1>2 DEF TypeInv
    <3> QED BY <3>1, <3>2
  <2> QED BY <2>1 DEF Init, OwnedInv
<1>6. EntryInv
  <2>1. ASSUME NEW o \in Object PROVE referrers[o] = {v \in weakVars : location[v] = o}
    <3>1. referrers[o] = {v \in Variable : location[v] = o} /\ o # nil
      BY NilAssumption DEF Init
    <3>2. \A v \in Variable \ weakVars : location[v] = nil
      BY DEF Init
    <3>3. weakVars \subseteq Variable
      BY DEF Init
    <3> QED BY <3>1, <3>2, <3>3
  <2>2. \A o \in Object : object[o] = "live" /\ (referrers[o] # {} => o \in weakly_referenced)
    BY DEF Init
  <2> QED BY <2>1, <2>2 DEF EntryInv
<1> QED BY <1>2, <1>3, <1>4, <1>5, <1>6 DEF IInv

LEMMA StepInv ==
  ASSUME IInv, [Next]_vars PROVE IInv'
<1>1. CASE UNCHANGED vars
  BY <1>1, StutterStep
<1>2. ASSUME NEW t \in Thread, Step(t) PROVE IInv'
  <2>1. CASE Lock(t) \/ Read(t) \/ StoreRetry(t) \/ StoreInitializes(t) \/ Store(t)
    BY <2>1, LockStep, ReadStep, StoreRetryStep, StoreInitializesStep, StoreStep
  <2>2. CASE ClassInitialize(t) \/ InitializeBody(t) \/ InitializeDone(t)
    BY <2>2, ClassInitializeStep, InitializeBodyStep, InitializeDoneStep
  <2>3. CASE LoadRead(t) \/ Load(t)
    BY <2>3, LoadReadStep, LoadReadNilStep, LoadStep
  <2>4. CASE DeallocBody(t) \/ rootDealloc(t) \/ clearDeallocating(t) \/ Free(t)
    BY <2>4, DeallocBodyStep, RootDeallocStep, ClearStep, FreeStep
  <2>5. CASE CopyInit(t) \/ CopyRelease(t) \/ MoveDestroy(t) \/ MoveNil(t)
    BY <2>5, CopyInitStep, CopyReleaseStep, MoveDestroyStep, MoveNilStep
  <2> QED BY <1>2, <2>1, <2>2, <2>3, <2>4, <2>5 DEF Step
<1>3. ASSUME NEW t \in Thread, Call(t) \/ CallCopy(t) \/ \E o \in Object : Release(t, o) \/ Alloc(t, o)
      PROVE  IInv'
  BY <1>3, CallStep, CallCopyStep, ReleaseStep, AllocStep
<1> QED BY <1>1, <1>2, <1>3 DEF Next

\* In every state, every frame's variables, object and copy are as its code expects.
THEOREM InvariantHolds ==
  Spec => []IInv
<1>1. Init => IInv
  BY InitInv
<1>2. IInv /\ [Next]_vars => IInv'
  BY StepInv
<1> QED BY <1>1, <1>2, PTL DEF Spec

\* The entry of an object is the set of the variables that hold it, whenever nobody
\* holds its table's lock, and objc_weak_error is never called, whatever the threads
\* store, load, copy, move, destroy and deallocate.
THEOREM EntriesExactHolds ==
  Spec => []EntriesExact
<1>1. IInv => EntriesExact
  BY DEF IInv, TypeInv, EntryInv, EntriesExact
<1> QED BY <1>1, InvariantHolds, PTL


--------------------------------------------------------------------------------
(* Weak variables are those of ZeroingWeak *)

LEMMA ValueAt ==
  ASSUME NEW v \in Variable
  PROVE  /\ Value[v] = IF v \notin weakVars THEN "raw"
                       ELSE IF location[v] # nil /\ object[location[v]] # "live" THEN nil
                       ELSE location[v]
         /\ Value'[v] = IF v \notin weakVars' THEN "raw"
                        ELSE IF location'[v] # nil /\ object'[location'[v]] # "live" THEN nil
                        ELSE location'[v]
BY DEF Value

\* What the program sees is a function of these.
LEMMA ValueStays ==
  ASSUME \A v \in Variable : Value'[v] = Value[v] PROVE Value' = Value
BY DEF Value

LEMMA Stutters ==
  ASSUME UNCHANGED <<location, weakVars, object, strong>> PROVE UNCHANGED Z!vars
BY DEF Z!vars, Value

\* A store into a variable, of nil, of a live object or of the end of the variable.
LEMMA StoresValue ==
  ASSUME IInv, NEW v \in Variable, NEW x, UNCHANGED <<object, strong>>,
         \/ x = nil
         \/ x \in Object /\ object[x] = "live"
         \/ x = "raw",
         Value'[v] = x, \A w \in Variable \ {v} : Value'[w] = Value[w]
  PROVE  Z!Next
<1>1. Value' = [Value EXCEPT ![v] = x]
  BY ZenonT(30) DEF Value
<1>2. x \in Object => Z!Owned(strong, x)
  <2>1. CASE x \in Object /\ object[x] = "live"
    BY <2>1 DEF IInv, OwnedInv, Z!Owned
  <2> QED BY <2>1, NilAssumption, RawAssumption
<1>3. Z!Store(v, x)
  BY <1>1, <1>2 DEF Z!Store
<1> QED BY <1>3 DEF Z!Next

LEMMA ReadImplements ==
  ASSUME IInv, NEW t \in Thread, Read(t) PROVE [Z!Next]_Z!vars
<1>1. UNCHANGED <<object, strong>>
  BY DEF Read, heap
<1>2. CASE haveOld(top(t).op) \/ top(t).new # nil
  <2>1. UNCHANGED <<location, weakVars>>
    BY <1>2 DEF Read
  <2> QED BY <1>1, <2>1, Stutters
<1>3. CASE ~haveOld(top(t).op) /\ top(t).new = nil
  <2>1. PICK v : v = top(t).v
    OBVIOUS
  <2>2. location' = [location EXCEPT ![v] = nil] /\ weakVars' = weakVars \cup {v}
    BY <1>3, <2>1 DEF Read
  <2>3. v \in Variable
    <3>1. stack[t] # <<>> /\ top(t).op \in Stores
      BY DEF Read, At
    <3>2. FormOK(top(t))
      BY <3>1, TopGood
    <3> QED BY <2>1, <3>1, <3>2 DEF FormOK, Stores
  <2>4. Value'[v] = nil /\ \A w \in Variable \ {v} : Value'[w] = Value[w]
    <3>1. location \in [Variable -> Object \cup {nil}]
      BY DEF IInv, TypeInv
    <3> QED BY <1>1, <2>2, <2>3, <3>1, ValueAt
  <2>5. Z!Next
    BY <1>1, <2>3, <2>4, StoresValue
  <2> QED BY <2>5
<1> QED BY <1>2, <1>3

LEMMA MoveNilImplements ==
  ASSUME IInv, NEW t \in Thread, MoveNil(t) PROVE [Z!Next]_Z!vars
<1>1. UNCHANGED <<object, strong>>
  BY DEF MoveNil, heap
<1>2. PICK v : v = top(t).src
  OBVIOUS
<1>3. location' = [location EXCEPT ![v] = nil] /\ weakVars' = weakVars \cup {v}
  BY <1>2 DEF MoveNil
<1>4. v \in Variable
  <2>1. stack[t] # <<>> /\ top(t).pc = "nil"
    BY DEF MoveNil, At
  <2>2. FormOK(top(t)) /\ top(t).op = "moveWeak"
    BY <2>1, TopGood, OpOf
  <2> QED BY <1>2, <2>2 DEF FormOK, Copies
<1>5. Value'[v] = nil /\ \A w \in Variable \ {v} : Value'[w] = Value[w]
  <2>1. location \in [Variable -> Object \cup {nil}]
    BY DEF IInv, TypeInv
  <2> QED BY <1>1, <1>3, <1>4, <2>1, ValueAt
<1>6. Z!Next
  BY <1>1, <1>4, <1>5, StoresValue
<1> QED BY <1>6

LEMMA StoreImplements ==
  ASSUME IInv, NEW t \in Thread, Store(t) PROVE [Z!Next]_Z!vars
<1>1. UNCHANGED <<object, strong>>
  BY DEF Store
<1>2. PICK v, x : v = top(t).v /\ x = Registered(top(t))
  OBVIOUS
<1>3. stack[t] # <<>> /\ top(t).pc = "store" /\ TypeInv
  BY DEF Store, Locked, At, IInv
<1>4. top(t) \in FrameType /\ top(t).op \in Stores /\ FormOK(top(t))
  BY <1>3, TopGood, OpOf
<1>5. v \in Variable
  BY <1>2, <1>4 DEF FormOK, Stores
<1>6. CASE haveNew(top(t).op)
  <2>1. location' = [location EXCEPT ![v] = x] /\ weakVars' = weakVars \cup {v}
    BY <1>2, <1>6 DEF Store
  <2>2. x = nil \/ (x \in Object /\ object[x] = "live")
    BY <1>2, <1>4 DEF Registered, FrameType
  <2>3. Value'[v] = x /\ \A w \in Variable \ {v} : Value'[w] = Value[w]
    <3>1. location'[v] = x /\ \A w \in Variable \ {v} : location'[w] = location[w]
      BY <1>3, <1>5, <2>1 DEF TypeInv
    <3>2. Value'[v] = x
      BY <1>1, <1>5, <2>1, <2>2, <3>1, ValueAt
    <3>3. ASSUME NEW w \in Variable \ {v} PROVE Value'[w] = Value[w]
      BY <1>1, <2>1, <3>1, ValueAt
    <3> QED BY <3>2, <3>3
  <2>4. Z!Next
    BY <1>1, <1>5, <2>2, <2>3, StoresValue
  <2> QED BY <2>4
<1>7. CASE ~haveNew(top(t).op)
  <2>1. location' = location /\ weakVars' = weakVars \ {v}
    BY <1>2, <1>7 DEF Store
  <2>2. Value'[v] = "raw" /\ \A w \in Variable \ {v} : Value'[w] = Value[w]
    BY <1>1, <1>5, <2>1, ValueAt
  <2>3. Z!Next
    BY <1>1, <1>5, <2>2, StoresValue
  <2> QED BY <2>3
<1> QED BY <1>6, <1>7

\* A load that finds its object alive is the load of ZeroingWeak.
LEMMA LoadImplements ==
  ASSUME IInv, NEW t \in Thread, Load(t) PROVE [Z!Next]_Z!vars
<1>1. UNCHANGED <<location, weakVars, object>>
  BY DEF Load
<1>2. CASE UNCHANGED strong
  BY <1>1, <1>2, Stutters
<1>3. CASE ~UNCHANGED strong
  <2>1. PICK v, o : v = top(t).v /\ o = top(t).old
    OBVIOUS
  <2>2. location[v] = o /\ object[o] = "live" /\ strong' = [strong EXCEPT ![t][o] = @ + 1]
    BY <1>3, <2>1 DEF Load, tryRetain
  <2>3. v \in weakVars /\ v \in Variable /\ o # nil /\ o \in Object
    <3>1. stack[t] # <<>> /\ top(t).pc = "load" /\ TypeInv
      BY DEF Load, Locked, At, IInv
    <3>2. GoodFrame(t, top(t)) /\ top(t) \in FrameType /\ FormOK(top(t)) /\ top(t).op = "loadWeakRetained"
      BY <3>1, TopGood, OpOf
    <3> QED BY <2>1, <3>1, <3>2 DEF GoodFrame, FormOK, VarOK, FrameType, TypeInv
  <2>4. Value[v] = o
    BY <2>2, <2>3, ValueAt
  <2>5. Value' = Value
    BY <1>1 DEF Value
  <2>6. Z!Load(t, v)
    BY <1>1, <2>2, <2>3, <2>4, <2>5 DEF Z!Load
  <2> QED BY <2>3, <2>6 DEF Z!Next
<1> QED BY <1>2, <1>3

\* A release, and all the variables of the object are nil at once.
LEMMA ReleasedImplements ==
  ASSUME IInv, NEW t \in Thread, NEW o \in Object, strong[t][o] > 0, NEW fs, Released(t, o, fs),
         UNCHANGED <<location, weakVars>>
  PROVE  [Z!Next]_Z!vars
<1> DEFINE last == Unowned(strong', o)
<1>1. /\ strong' = [strong EXCEPT ![t][o] = @ - 1]
      /\ object' = IF last THEN [object EXCEPT ![o] = "deallocating"] ELSE object
  BY DEF Released
<1>2. TypeInv /\ object[o] = "live" /\ o # nil /\ o # "raw"
  BY NilAssumption, RawAssumption DEF IInv, OwnedInv
<1>3. \A u \in Thread : strong'[u][o] \in Nat
  <2>1. strong \in [Thread -> [Object -> Nat]] /\ [strong[t] EXCEPT ![o] = @ - 1] \in [Object -> Nat]
    BY <1>2 DEF TypeInv
  <2> QED BY <1>1, <2>1
<1>4. last <=> ~Z!Owned(strong', o)
  BY <1>3 DEF Unowned, Z!Owned
<1> HIDE DEF last
<1>5. \A p \in Object : object'[p] = IF last /\ p = o THEN "deallocating" ELSE object[p]
  BY <1>1, <1>2 DEF TypeInv
<1>6. \A v \in Variable : Value'[v] = IF Value[v] = o /\ last THEN nil ELSE Value[v]
  <2>1. \A v \in Variable : location[v] \in Object \cup {nil}
    BY <1>2 DEF TypeInv
  <2> QED BY <1>2, <1>5, <2>1, ValueAt
<1>7. Value' = [v \in Variable |-> IF Value[v] = o /\ ~Z!Owned(strong', o) THEN nil ELSE Value[v]]
  BY <1>4, <1>6 DEF Value
<1>8. {p \in Object : object'[p] = "freed"} = {p \in Object : object[p] = "freed"}
  BY <1>2, <1>5
<1>9. Z!Release(t, o)
  BY <1>1, <1>7, <1>8 DEF Z!Release
<1> QED BY <1>9 DEF Z!Next

\* The variables of a deallocating object count as nil already.
LEMMA ClearImplements ==
  ASSUME IInv, NEW t \in Thread, clearDeallocating(t) PROVE [Z!Next]_Z!vars
<1>1. PICK o : o = top(t).new
  OBVIOUS
<1>2. stack[t] # <<>> /\ top(t).pc = "clear" /\ TypeInv /\ EntryInv
  BY DEF clearDeallocating, Locked, At, IInv
<1>3. o \in Object /\ object[o] = "deallocating" /\ o # nil
  <2>1. top(t) \in FrameType /\ FormOK(top(t)) /\ GoodFrame(t, top(t)) /\ top(t).op = "dealloc"
    BY <1>2, TopGood, OpOf
  <2> QED BY <1>1, <2>1, NilAssumption DEF FormOK, FrameType, GoodFrame, ObjectOK
<1>4. UNCHANGED <<weakVars, object, strong>>
  BY DEF clearDeallocating, heap
<1>5. \A v \in Variable : location'[v] = location[v] \/ (v \in referrers[o] /\ location'[v] = nil)
  <2>1. PICK wrong : location' = [v \in Variable |-> IF v \in referrers[o] \ wrong THEN nil
                                                   ELSE location[v]]
    BY <1>1 DEF clearDeallocating
  <2> QED BY <2>1
<1>6. \A v \in referrers[o] : v \in weakVars /\ location[v] = o
  BY <1>2, <1>3 DEF EntryInv
<1>7. \A v \in Variable : Value'[v] = Value[v]
  BY <1>3, <1>4, <1>5, <1>6, ValueAt
<1>8. Value' = Value
  BY <1>7, ValueStays
<1> QED BY <1>4, <1>8 DEF Z!vars

LEMMA FreeImplements ==
  ASSUME IInv, NEW t \in Thread, Free(t) PROVE [Z!Next]_Z!vars
<1>1. PICK o : o = top(t).new
  OBVIOUS
<1>2. stack[t] # <<>> /\ top(t).pc = "free" /\ TypeInv /\ OwnedInv
  BY DEF Free, At, IInv
<1>3. o \in Object /\ object[o] = "deallocating"
  <2>1. top(t) \in FrameType /\ FormOK(top(t)) /\ GoodFrame(t, top(t)) /\ top(t).op = "dealloc"
    BY <1>2, TopGood, OpOf
  <2> QED BY <1>1, <2>1 DEF FormOK, FrameType, GoodFrame, ObjectOK
<1>4. object' = [object EXCEPT ![o] = "freed"] /\ UNCHANGED <<location, weakVars, strong>>
  BY <1>1 DEF Free
<1>5. \A p \in Object : object'[p] = IF p = o THEN "freed" ELSE object[p]
  BY <1>2, <1>4 DEF TypeInv
<1>6. \A v \in Variable : Value'[v] = Value[v]
  <2>1. \A v \in Variable : location[v] \in Object \cup {nil}
    BY <1>2 DEF TypeInv
  <2> QED BY <1>3, <1>4, <1>5, <2>1, ValueAt
<1>7. Value' = Value
  BY <1>6, ValueStays
<1>8. {p \in Object : object'[p] = "freed"} = {p \in Object : object[p] = "freed"} \cup {o}
  BY <1>3, <1>5
<1>9. ~Z!Owned(strong, o)
  BY <1>2, <1>3 DEF OwnedInv, Z!Owned
<1>10. Z!Free(o)
  BY <1>3, <1>4, <1>7, <1>8, <1>9 DEF Z!Free
<1> QED BY <1>3, <1>10 DEF Z!Next

\* No weak variable holds the address that becomes a new object.
LEMMA AllocImplements ==
  ASSUME IInv, NEW t \in Thread, NEW o \in Object, Alloc(t, o) PROVE [Z!Next]_Z!vars
<1>1. /\ object[o] = "freed" /\ object' = [object EXCEPT ![o] = "live"]
      /\ strong' = [strong EXCEPT ![t][o] = 1] /\ UNCHANGED <<location, weakVars>>
  BY DEF Alloc
<1>2. TypeInv /\ EntryInv
  BY DEF IInv
<1>3. \A p \in Object : object'[p] = IF p = o THEN "live" ELSE object[p]
  BY <1>1, <1>2 DEF TypeInv
<1>4. \A v \in weakVars : location[v] # o
  BY <1>1, <1>2 DEF EntryInv
<1>5. \A v \in Variable : Value'[v] = Value[v]
  <2>1. \A v \in Variable : location[v] \in Object \cup {nil}
    BY <1>2 DEF TypeInv
  <2> QED BY <1>1, <1>3, <1>4, <2>1, ValueAt
<1>6. Value' = Value
  BY <1>5, ValueStays
<1>7. {p \in Object : object'[p] = "freed"} = {p \in Object : object[p] = "freed"} \ {o}
  BY <1>3
<1>8. Z!Alloc(t, o)
  BY <1>1, <1>6, <1>7 DEF Z!Alloc
<1> QED BY <1>8 DEF Z!Next

LEMMA StepImplements ==
  ASSUME IInv, [Next]_vars PROVE [Z!Next]_Z!vars
<1>1. CASE UNCHANGED vars
  BY <1>1, Stutters DEF vars, heap
<1>2. ASSUME NEW t \in Thread, Step(t) PROVE [Z!Next]_Z!vars
  <2>1. CASE Lock(t) \/ StoreRetry(t) \/ StoreInitializes(t) \/ ClassInitialize(t) \/ InitializeBody(t)
    <3>1. UNCHANGED <<location, weakVars, object, strong>>
      BY <2>1 DEF Lock, StoreRetry, StoreInitializes, ClassInitialize, InitializeBody, heap
    <3> QED BY <3>1, Stutters
  <2>2. CASE InitializeDone(t) \/ LoadRead(t) \/ DeallocBody(t) \/ rootDealloc(t) \/ CopyInit(t)
             \/ MoveDestroy(t)
    <3>1. UNCHANGED <<location, weakVars, object, strong>>
      BY <2>2 DEF InitializeDone, LoadRead, DeallocBody, rootDealloc, CopyInit, MoveDestroy, heap
    <3> QED BY <3>1, Stutters
  <2>3. CASE Read(t) \/ Store(t) \/ Load(t) \/ clearDeallocating(t) \/ Free(t) \/ MoveNil(t)
    BY <2>3, ReadImplements, StoreImplements, LoadImplements, ClearImplements, FreeImplements,
       MoveNilImplements
  <2>4. CASE CopyRelease(t)
    <3>1. UNCHANGED <<location, weakVars>>
      BY <2>4 DEF CopyRelease
    <3>2. CASE top(t).new = nil
      <4>1. UNCHANGED <<object, strong>>
        BY <2>4, <3>2 DEF CopyRelease
      <4> QED BY <3>1, <4>1, Stutters
    <3>3. CASE top(t).new # nil
      <4>1. stack[t] # <<>> /\ top(t).pc = "release"
        BY <2>4 DEF CopyRelease, At
      <4>2. top(t) \in FrameType /\ GoodFrame(t, top(t))
        BY <4>1, TopGood
      <4>3. top(t).new \in Object /\ strong[t][top(t).new] > 0
        BY <3>3, <4>1, <4>2 DEF FrameType, GoodFrame, CopyOK
      <4>4. PICK fs : Released(t, top(t).new, fs)
        BY <2>4, <3>3 DEF CopyRelease
      <4> QED BY <3>1, <4>3, <4>4, ReleasedImplements
    <3> QED BY <3>2, <3>3
  <2> QED BY <1>2, <2>1, <2>2, <2>3, <2>4 DEF Step
<1>3. ASSUME NEW t \in Thread, Call(t) \/ CallCopy(t) PROVE [Z!Next]_Z!vars
  <2>1. UNCHANGED <<location, weakVars, object, strong>>
    BY <1>3 DEF Call, CallCopy, heap
  <2> QED BY <2>1, Stutters
<1>4. ASSUME NEW t \in Thread, NEW o \in Object, Release(t, o) PROVE [Z!Next]_Z!vars
  BY <1>4, ReleasedImplements DEF Release
<1> QED BY <1>1, <1>2, <1>3, <1>4, AllocImplements DEF Next

LEMMA InitImplements ==
  Init => Z!Init
<1> SUFFICES ASSUME Init PROVE Z!Init
  OBVIOUS
<1>1. IInv
  BY InitInv
<1>2. \A v \in Variable : Value[v] \in Object \cup {nil, "raw"}
  BY <1>1, ValueAt DEF IInv, TypeInv
<1>3. Value \in [Variable -> Object \cup {nil, "raw"}]
  BY <1>2 DEF Value
<1>4. {o \in Object : object[o] = "freed"} = {}
  BY DEF Init
<1>5. ASSUME NEW v \in Variable, Value[v] \in Object PROVE Z!Owned(strong, Value[v])
  <2>1. object[Value[v]] = "live"
    BY <1>5 DEF Init
  <2> QED BY <1>1, <1>5, <2>1 DEF IInv, OwnedInv, Z!Owned
<1> QED BY <1>3, <1>4, <1>5 DEF Init, Z!Init

\* Weak variables are those of ZeroingWeak: a load returns an object that somebody
\* owns or nil, the last release makes every variable of the object nil at one
\* instant, and memory that is used again is nowhere in a weak variable.
THEOREM ImplementsHolds ==
  Spec => Implements
<1>1. Init => Z!Init
  BY InitImplements
<1>2. IInv /\ [Next]_vars => [Z!Next]_Z!vars
  BY StepImplements
<1> QED BY <1>1, <1>2, InvariantHolds, PTL DEF Spec, Implements, Z!Spec
================================================================================
