---------------------------- MODULE VideoTimelineProofs ----------------------------
(***************************************************************************)
(* VideoTimeline, proved for any number of videos and any durations: the   *)
(* instructions tile the composition; if none of their ranges is negative  *)
(* they show what is on the tracks, and show all of it.                    *)
(***************************************************************************)
EXTENDS VideoTimelineInv, SequenceTheorems, TLAPS

--------------------------------------------------------------------------------
(* Tracks and sequences *)

\* The videos alternate between two tracks.
LEMMA TrackOfProperties ==
  ASSUME NEW v \in Nat \ {0}
  PROVE  TrackOf(v) \in {0, 1} /\ TrackOf(v + 1) = 1 - TrackOf(v)
BY DEF TrackOf

LEMMA Constants ==
  /\ VideoCount \in Nat /\ VideoCount # 0 /\ TransDuration \in Nat /\ Empty \notin Video
  /\ \A v \in Video : v \in Nat /\ v # 0 /\ v <= VideoCount
BY CountAssumption DEF Video, Empty

LEMMA DurationOf ==
  ASSUME TypeInv, NEW v \in Video
  PROVE  duration[v] \in Nat
BY DurationAssumption DEF TypeInv

\* A video that is long enough lasts for a transition, if it has one, and for two if it
\* is neither the first nor the last.
LEMMA LongDuration ==
  ASSUME TypeInv, LongEnough, NEW v \in Video
  PROVE  /\ duration[v] \in Nat
         /\ v > 1 \/ v < VideoCount => duration[v] >= TransDuration
         /\ v > 1 /\ v < VideoCount => duration[v] >= 2 * TransDuration
<1>1. duration[v] \in Nat /\ TransDuration \in Nat /\ v \in Nat /\ VideoCount \in Nat
  BY DurationOf, Constants
<1>2. ~(duration[v] < (IF v > 1 THEN TransDuration ELSE 0)
                        + (IF v < VideoCount THEN TransDuration ELSE 0))
  BY DEF LongEnough, TooShort
<1> QED BY <1>1, <1>2

LEMMA Constantly ==
  ASSUME NEW S, NEW n \in Nat, NEW x \in S
  PROVE  LET m == [k \in 1 .. n |-> x] IN
         m \in Seq(S) /\ Len(m) = n /\ \A k \in 1 .. n : m[k] = x
OBVIOUS

\* What lies on the track stays, a gap is filled up, and the video comes at its time.
LEMMA InsertEffect ==
  ASSUME TypeInv, NEW track \in Seq(Video \cup {Empty}), NEW v \in Video, NEW time \in Nat,
         Len(track) <= time
  PROVE  LET r == InsertTimeRange(track, v, time) IN
         /\ r \in Seq(Video \cup {Empty}) /\ Len(r) = time + duration[v]
         /\ \A tick \in 1 .. Len(track) : r[tick] = track[tick]
         /\ \A tick \in Len(track) + 1 .. time : r[tick] = Empty
         /\ \A tick \in time + 1 .. time + duration[v] : r[tick] = v
<1> DEFINE S == Video \cup {Empty}
           media == [n \in 1 .. duration[v] |-> v]
           gap == [n \in 1 .. time - Len(track) |-> Empty]
           r == InsertTimeRange(track, v, time)
<1>1. duration[v] \in Nat /\ v \in S /\ Empty \in S /\ track \in Seq(S) /\ Len(track) \in Nat
  BY DurationOf
<1>2. media \in Seq(S) /\ Len(media) = duration[v] /\ \A n \in 1 .. duration[v] : media[n] = v
  BY <1>1, Constantly
<1>3. PICK d \in Nat : d = time - Len(track)
  BY <1>1
<1>4. gap \in Seq(S) /\ Len(gap) = d /\ \A n \in 1 .. d : gap[n] = Empty
  BY <1>1, <1>3, Constantly
<1> HIDE DEF S, media, gap
<1>5. ASSUME NEW a \in Seq(S), NEW b \in Seq(S)
      PROVE  /\ a \o b \in Seq(S) /\ Len(a \o b) = Len(a) + Len(b)
             /\ \A n \in 1 .. Len(a) : (a \o b)[n] = a[n]
             /\ \A n \in 1 .. Len(b) : (a \o b)[Len(a) + n] = b[n]
  <2>1. Len(a) \in Nat /\ Len(b) \in Nat
    OBVIOUS
  <2>2. /\ a \o b \in Seq(S) /\ Len(a \o b) = Len(a) + Len(b)
        /\ \A n \in 1 .. Len(a) + Len(b) : (a \o b)[n] = IF n <= Len(a) THEN a[n] ELSE b[n - Len(a)]
    BY ConcatProperties
  <2>3. PICK c : c = a \o b
    OBVIOUS
  <2>4. \A n \in 1 .. Len(a) : c[n] = a[n]
    BY <2>1, <2>2, <2>3
  <2>5. ASSUME NEW n \in 1 .. Len(b) PROVE c[Len(a) + n] = b[n]
    <3>1. Len(a) + n \in 1 .. Len(a) + Len(b) /\ ~(Len(a) + n <= Len(a)) /\ Len(a) + n - Len(a) = n
      BY <2>1
    <3> QED BY <2>2, <2>3, <3>1
  <2> QED BY <2>2, <2>3, <2>4, <2>5
<1>6. ASSUME NEW q \in Seq(S), Len(q) = time, r = q \o media
      PROVE  /\ r \in Seq(S) /\ Len(r) = time + duration[v]
             /\ \A n \in 1 .. time : r[n] = q[n]
             /\ \A n \in time + 1 .. time + duration[v] : r[n] = v
  <2> HIDE DEF r
  <2>1. /\ r \in Seq(S) /\ Len(r) = time + duration[v]
        /\ \A n \in 1 .. time : r[n] = q[n]
        /\ \A n \in 1 .. duration[v] : r[time + n] = media[n]
    <3>1. /\ q \o media \in Seq(S) /\ Len(q \o media) = Len(q) + Len(media)
          /\ \A n \in 1 .. Len(q) : (q \o media)[n] = q[n]
          /\ \A n \in 1 .. Len(media) : (q \o media)[Len(q) + n] = media[n]
      BY <1>2, <1>5
    <3> QED BY <1>2, <1>6, <3>1
  <2>2. ASSUME NEW n \in time + 1 .. time + duration[v] PROVE r[n] = v
    <3>1. n - time \in 1 .. duration[v] /\ time + (n - time) = n
      BY <1>1
    <3> QED BY <1>2, <2>1, <3>1
  <2> QED BY <2>1, <2>2
<1>7. CASE time = Len(track)
  <2>1. SubSeq(track, 1, time) = track
    BY <1>1, <1>7
  <2>2. SubSeq(track, time + 1, Len(track)) = <<>>
    BY <1>1, <1>7
  <2>3. r = track \o media \o <<>>
    <3>1. ~(time < 0) /\ time <= Len(track)
      BY <1>1, <1>7
    <3> QED BY <2>1, <2>2, <3>1 DEF InsertTimeRange, media
  <2>4. r = track \o media
    BY <1>1, <1>2, <2>3
  <2> QED BY <1>1, <1>6, <1>7, <2>4, SMTT(20) DEF S
<1>8. CASE time # Len(track)
  <2>1. r = (track \o gap) \o media
    BY <1>1, <1>8 DEF InsertTimeRange, media, gap
  <2>2. PICK q : q = track \o gap
    OBVIOUS
  <2>3. /\ q \in Seq(S) /\ Len(q) = time
        /\ \A n \in 1 .. Len(track) : q[n] = track[n]
        /\ \A n \in 1 .. d : q[Len(track) + n] = Empty
    BY <1>1, <1>3, <1>4, <1>5, <2>2
  <2>4. ASSUME NEW n \in Len(track) + 1 .. time PROVE q[n] = Empty
    <3>1. n - Len(track) \in 1 .. d /\ Len(track) + (n - Len(track)) = n
      BY <1>1, <1>3
    <3> QED BY <2>3, <3>1
  <2>5. /\ r \in Seq(S) /\ Len(r) = time + duration[v]
        /\ \A n \in 1 .. time : r[n] = q[n]
        /\ \A n \in time + 1 .. time + duration[v] : r[n] = v
    BY <1>6, <2>1, <2>2, <2>3
  <2> HIDE DEF r
  <2>6. \A n \in 1 .. Len(track) : r[n] = track[n]
    BY <1>1, <2>3, <2>5
  <2>7. ASSUME NEW n \in Len(track) + 1 .. time PROVE r[n] = Empty
    <3>1. n \in 1 .. time
      BY <1>1
    <3> QED BY <2>4, <2>5, <3>1
  <2> QED BY <2>5, <2>6, <2>7 DEF S, r
<1> QED BY <1>7, <1>8

\* Inserting keeps what is on a track a sequence of videos, whatever the time.
LEMMA InsertType ==
  ASSUME TypeInv, NEW track \in Seq(Video \cup {Empty}), NEW v \in Video, NEW time \in Int
  PROVE  InsertTimeRange(track, v, time) \in Seq(Video \cup {Empty})
<1> DEFINE S == Video \cup {Empty}
           media == [n \in 1 .. duration[v] |-> v]
<1>1. media \in Seq(S) /\ Len(track) \in Nat /\ track \in Seq(S)
  BY DurationOf, Constantly
<1>2. CASE time < 0
  BY <1>2 DEF InsertTimeRange
<1>3. CASE ~(time < 0) /\ time <= Len(track)
  <2>1. SubSeq(track, 1, time) \in Seq(S) /\ SubSeq(track, time + 1, Len(track)) \in Seq(S)
    BY <1>1, <1>3
  <2>2. SubSeq(track, 1, time) \o media \o SubSeq(track, time + 1, Len(track)) \in Seq(S)
    BY <1>1, <2>1
  <2> QED BY <1>3, <2>2 DEF InsertTimeRange
<1>4. CASE ~(time < 0) /\ ~(time <= Len(track))
  <2>1. [n \in 1 .. time - Len(track) |-> Empty] \in Seq(S)
    BY <1>1, <1>4, Constantly
  <2>2. track \o [n \in 1 .. time - Len(track) |-> Empty] \o media \in Seq(S)
    BY <1>1, <2>1
  <2> QED BY <1>4, <2>2 DEF InsertTimeRange
<1> QED BY <1>2, <1>3, <1>4

--------------------------------------------------------------------------------
(* The loop of combinateVideo *)

LEMMA InitInv ==
  Init => IInv
<1> SUFFICES ASSUME Init PROVE IInv
  OBVIOUS
<1>1. PICK start \in [1 .. VideoCount + 1 -> Int] : start[1] = 0
  <2>1. PICK s : s = [v \in 1 .. VideoCount + 1 |-> 0]
    OBVIOUS
  <2>2. s \in [1 .. VideoCount + 1 -> Int]
    BY <2>1
  <2>3. s[1] = 0
    BY <2>1, Constants
  <2> QED BY <2>2, <2>3
<1>2. /\ tracks = [k \in {0, 1} |-> <<>>] /\ i = 1 /\ cursorTime = 0 /\ pc = "insert"
      /\ passThroughTimeRanges = <<>> /\ transitionTimeRanges = <<>> /\ instructions = <<>>
      /\ duration \in [Video -> Durations]
  BY DEF Init
<1>3. TypeInv
  BY <1>2, Constants DEF TypeInv
<1>4. \A k \in {0, 1} : tracks[k] = <<>> /\ Len(tracks[k]) = 0 /\ DOMAIN tracks[k] = {}
  BY <1>2
<1>5. StartInv(start)
  BY <1>1, <1>2, Constants DEF StartInv, Inserted
<1>6. RoomInv
  <2>1. i = 1 /\ TrackOf(i) = 0 /\ 1 - TrackOf(i) = 1 /\ cursorTime = 0
    BY <1>2 DEF TrackOf
  <2> QED BY <1>4, <2>1 DEF RoomInv
<1>7. TracksInv(start)
  BY <1>2, <1>4, Constants DEF TracksInv, Inserted
<1>8. RangesInv(start)
  BY <1>2, Constants DEF RangesInv, Ranged
<1>9. InstructionsInv
  BY <1>2, Constants DEF InstructionsInv, Instructed
<1> QED BY <1>3, <1>5, <1>6, <1>7, <1>8, <1>9 DEF IInv, Timeline, Laid

\* The next video lies behind all of its track, and over the other one for a transition.
LEMMA InsertLays ==
  ASSUME TypeInv, Insert, LongEnough, NEW old \in [1 .. VideoCount + 1 -> Int],
         NEW start \in [1 .. VideoCount + 1 -> Int], StartInv(old), RoomInv, TracksInv(old),
         start = [old EXCEPT ![i + 1] = cursorTime + duration[i] - TransDuration]
  PROVE  RoomInv' /\ TracksInv(start)'
<1>1. PICK n, k, c, r, d : /\ n = i /\ k = TrackOf(i) /\ c = cursorTime /\ d = duration[i]
                           /\ r = InsertTimeRange(tracks[TrackOf(i)], i, cursorTime)
  OBVIOUS
<1>2. start = [old EXCEPT ![n + 1] = c + d - TransDuration]
  BY <1>1
<1>3. /\ pc = "insert" /\ pc' = "insert" /\ i' = n + 1 /\ n = i
      /\ cursorTime' = c + d - TransDuration
      /\ tracks' = [tracks EXCEPT ![k] = r]
      /\ UNCHANGED <<duration, passThroughTimeRanges, transitionTimeRanges, instructions>>
  BY <1>1 DEF Insert, NextInsert
<1>4. n \in Video /\ n \in Nat /\ n # 0 /\ n <= VideoCount
  BY <1>1, Constants DEF Insert
<1>5. tracks[TrackOf(n)] \in Seq(Video \cup {Empty}) /\ Len(tracks[TrackOf(n)]) \in Nat
  <2>1. TrackOf(n) \in {0, 1}
    BY <1>4, TrackOfProperties
  <2> QED BY <2>1 DEF TypeInv
<1>6. /\ d \in Nat /\ c \in Nat /\ c + d - TransDuration \in Int
      /\ n < VideoCount => d >= TransDuration
      /\ n < VideoCount /\ n > 1 => d >= 2 * TransDuration
  <2>1. c \in Int /\ Len(tracks[TrackOf(n)]) <= c
    BY <1>1, <1>3, <1>4 DEF TypeInv, RoomInv
  <2>2. c \in Nat
    BY <1>5, <2>1
  <2> QED BY <1>1, <1>4, <2>2, LongDuration, Constants
<1>7. /\ k \in {0, 1} /\ TrackOf(n + 1) = 1 - k /\ TrackOf(n) = k
      /\ 1 - k \in {0, 1} /\ 1 - (1 - k) = k /\ k # 1 - k
  BY <1>1, <1>4, TrackOfProperties
<1>8. /\ tracks[k] \in Seq(Video \cup {Empty}) /\ Len(tracks[k]) <= c /\ Len(tracks[k]) \in Nat
      /\ tracks[1 - k] \in Seq(Video \cup {Empty})
      /\ Len(tracks[1 - k]) <= c + (IF n > 1 THEN TransDuration ELSE 0)
      /\ Len(tracks[1 - k]) \in Nat
  BY <1>1, <1>3, <1>4, <1>7 DEF TypeInv, RoomInv
<1>9. /\ r \in Seq(Video \cup {Empty}) /\ Len(r) = c + d
      /\ \A tick \in 1 .. Len(tracks[k]) : r[tick] = tracks[k][tick]
      /\ \A tick \in Len(tracks[k]) + 1 .. c : r[tick] = Empty
      /\ \A tick \in c + 1 .. c + d : r[tick] = n
  <2>1. r = InsertTimeRange(tracks[k], n, c) /\ duration[n] = d
    BY <1>1
  <2>2. PICK track \in Seq(Video \cup {Empty}) : track = tracks[k]
    BY <1>8
  <2>3. Len(track) <= c
    BY <1>8, <2>2
  <2>4. TypeInv /\ n \in Video /\ c \in Nat
    BY <1>4, <1>5, <1>6
  <2>5. PICK q : q = InsertTimeRange(track, n, c)
    OBVIOUS
  <2>6. /\ q \in Seq(Video \cup {Empty}) /\ Len(q) = c + duration[n]
        /\ \A tick \in 1 .. Len(track) : q[tick] = track[tick]
        /\ \A tick \in Len(track) + 1 .. c : q[tick] = Empty
        /\ \A tick \in c + 1 .. c + duration[n] : q[tick] = n
    BY <2>3, <2>4, <2>5, InsertEffect
  <2> QED BY <2>1, <2>2, <2>5, <2>6
<1>10. tracks'[k] = r /\ tracks'[1 - k] = tracks[1 - k]
  BY <1>3, <1>7 DEF TypeInv
<1>11. /\ start \in [1 .. VideoCount + 1 -> Int] /\ start[n + 1] = c + d - TransDuration
       /\ \A v \in Nat : v # 0 /\ v <= n => start[v] = old[v]
       /\ start[1] = old[1] /\ old[n] = c
  <2>1. n + 1 \in 1 .. VideoCount + 1 /\ old[n] = c
    BY <1>1, <1>3, <1>4, <1>5, Constants DEF StartInv
  <2>2. /\ start \in [1 .. VideoCount + 1 -> Int] /\ start[n + 1] = c + d - TransDuration
        /\ \A v \in 1 .. VideoCount + 1 : v # n + 1 => start[v] = old[v]
    BY <1>2, <1>6, <2>1
  <2>3. \A v \in Nat : v # 0 /\ v <= n => v \in 1 .. VideoCount + 1 /\ v # n + 1
    BY <1>4, Constants
  <2> QED BY <1>4, <2>1, <2>2, <2>3
<1>12. Inserted = n /\ Inserted' = n + 1
  BY <1>3 DEF Inserted
<1>13. RoomInv'
  <2>1. SUFFICES ASSUME i' \in Video PROVE RoomInv'
    BY DEF RoomInv
  <2>2. n < VideoCount /\ n + 1 > 1
    BY <1>3, <1>4, <2>1, Constants
  <2>3. Len(tracks'[1 - k]) <= cursorTime'
    BY <1>3, <1>4, <1>6, <1>8, <1>10, <2>2, Constants
  <2>4. Len(tracks'[k]) <= cursorTime' + TransDuration
    BY <1>3, <1>6, <1>9, <1>10, Constants
  <2>5. TrackOf(i') = 1 - k
    BY <1>3, <1>7
  <2> QED BY <1>3, <1>7, <2>2, <2>3, <2>4, <2>5 DEF RoomInv, TrackOf
<1>14. ASSUME NEW v \in Video, v < n + 1, NEW tick \in start[v] + 1 .. start[v] + duration[v]
       PROVE  tick \in DOMAIN tracks'[TrackOf(v)] /\ tracks'[TrackOf(v)][tick] = v
  <2>1. v \in Nat /\ v # 0 /\ v <= n /\ start[v] = old[v] /\ old[v] \in Int /\ duration[v] \in Nat
    BY <1>4, <1>5, <1>11, <1>14, Constants, DurationOf
  <2>2. CASE v = n
    <3>1. tick \in c + 1 .. c + d
      BY <1>1, <1>11, <1>14, <2>1, <2>2
    <3>2. tick \in 1 .. c + d
      BY <1>6, <3>1
    <3>3. DOMAIN r = 1 .. c + d
      BY <1>6, <1>9
    <3>4. tick \in DOMAIN r /\ r[tick] = n
      BY <1>4, <1>6, <1>9, <3>1, <3>2, <3>3
    <3>5. tracks'[TrackOf(v)] = r
      BY <1>7, <1>10, <2>2
    <3> QED BY <2>2, <3>4, <3>5
  <2>3. CASE v # n
    <3>1. v < n
      BY <1>4, <2>1, <2>3
    <3>2. tick \in DOMAIN tracks[TrackOf(v)] /\ tracks[TrackOf(v)][tick] = v
      BY <1>5, <1>12, <1>14, <2>1, <3>1 DEF TracksInv
    <3>3. CASE TrackOf(v) = k
      <4>1. tick \in 1 .. Len(tracks[k])
        BY <1>8, <3>2, <3>3
      <4>2. tick \in DOMAIN r
        BY <1>6, <1>8, <1>9, <4>1
      <4>3. r[tick] = v
        BY <1>9, <3>2, <3>3, <4>1
      <4>4. tracks'[TrackOf(v)] = r
        BY <1>10, <3>3
      <4> QED BY <4>2, <4>3, <4>4
    <3>4. CASE TrackOf(v) = 1 - k
      BY <1>10, <3>2, <3>4
    <3> QED BY <1>7, <2>1, <3>3, <3>4, TrackOfProperties
  <2> QED BY <2>2, <2>3
<1>15. ASSUME NEW j \in {0, 1}, NEW tick \in DOMAIN tracks'[j], tracks'[j][tick] # Empty
       PROVE  LET v == tracks'[j][tick] IN
              v < n + 1 /\ TrackOf(v) = j /\ tick > start[v] /\ tick <= start[v] + duration[v]
  <2>1. ASSUME tick \in DOMAIN tracks[j], tracks'[j][tick] = tracks[j][tick]
        PROVE  LET v == tracks'[j][tick] IN
               v < n + 1 /\ TrackOf(v) = j /\ tick > start[v] /\ tick <= start[v] + duration[v]
    <3>1. PICK v : v = tracks[j][tick]
      OBVIOUS
    <3>2. v < n /\ TrackOf(v) = j /\ tick > old[v] /\ tick <= old[v] + duration[v]
      BY <1>5, <1>12, <1>15, <2>1, <3>1 DEF TracksInv
    <3>3. v \in Video
      BY <1>5, <1>15, <2>1, <3>1 DEF TypeInv
    <3>4. v \in Nat /\ v # 0 /\ start[v] = old[v] /\ v < n + 1
      BY <1>4, <1>11, <3>2, <3>3, Constants
    <3> QED BY <2>1, <3>1, <3>2, <3>4
  <2>2. CASE j = 1 - k
    BY <1>10, <1>15, <2>1, <2>2
  <2>3. CASE j = k
    <3>1. tracks'[j] = r
      BY <1>10, <2>3
    <3>2. tick \in DOMAIN r /\ r[tick] # Empty
      BY <1>15, <3>1
    <3>3. tick \in 1 .. c + d
      BY <1>6, <1>9, <3>2
    <3>4. CASE tick <= Len(tracks[k])
      <4>1. tick \in 1 .. Len(tracks[k]) /\ DOMAIN tracks[k] = 1 .. Len(tracks[k])
        BY <1>8, <3>3, <3>4
      <4>2. r[tick] = tracks[k][tick]
        BY <1>9, <4>1
      <4> QED BY <2>1, <2>3, <3>1, <4>1, <4>2
    <3>5. CASE tick > Len(tracks[k]) /\ tick <= c
      <4>1. tick \in Len(tracks[k]) + 1 .. c
        BY <1>6, <1>8, <3>3, <3>5
      <4>2. r[tick] = Empty
        BY <1>6, <1>8, <1>9, <4>1
      <4> QED BY <3>2, <4>2
    <3>6. CASE tick > c
      <4>1. tick \in c + 1 .. c + d
        BY <1>6, <3>3, <3>6
      <4>2. r[tick] = n
        BY <1>4, <1>6, <1>9, <4>1
      <4>3. tracks'[j][tick] = n
        BY <3>1, <4>2
      <4> QED BY <1>1, <1>4, <1>6, <1>7, <1>11, <2>3, <3>3, <3>6, <4>3
    <3> QED BY <1>6, <1>8, <3>3, <3>4, <3>5, <3>6
  <2> QED BY <1>7, <1>15, <2>2, <2>3
<1>16. TracksInv(start)'
  <2>1. Inserted' = n + 1 /\ duration' = duration
    BY <1>3, <1>12
  <2>2. ASSUME NEW v \in Video, v < n + 1
        PROVE  \A tick \in start[v] + 1 .. start[v] + duration[v] :
                 tick \in DOMAIN tracks'[TrackOf(v)] /\ tracks'[TrackOf(v)][tick] = v
    BY <1>14, <2>2
  <2> QED BY <1>15, <2>1, <2>2 DEF TracksInv
<1> QED BY <1>13, <1>16

\* The durations stay as they are.
LEMMA LongKept ==
  ASSUME duration' = duration PROVE LongEnough' <=> LongEnough
BY DEF LongEnough, TooShort

\* The next video starts where the cursor is, and the times before stay as they are.
LEMMA InsertStep ==
  ASSUME IInv, Insert PROVE IInv'
<1>1. PICK old \in [1 .. VideoCount + 1 -> Int] : Timeline(old)
  BY DEF IInv
<1>2. PICK n, k, c, r, d : /\ n = i /\ k = TrackOf(i) /\ c = cursorTime /\ d = duration[i]
                           /\ r = InsertTimeRange(tracks[TrackOf(i)], i, cursorTime)
  OBVIOUS
<1>3. PICK start : start = [old EXCEPT ![n + 1] = c + d - TransDuration]
  OBVIOUS
<1>4. TypeInv /\ StartInv(old) /\ Laid(old) /\ RangesInv(old) /\ InstructionsInv
  BY <1>1 DEF IInv, Timeline
<1>5. /\ pc = "insert" /\ pc' = "insert" /\ i' = n + 1 /\ n = i
      /\ cursorTime' = c + d - TransDuration
      /\ tracks' = [tracks EXCEPT ![k] = r]
      /\ UNCHANGED <<duration, passThroughTimeRanges, transitionTimeRanges, instructions>>
  BY <1>2 DEF Insert, NextInsert
<1>6. n \in Video /\ n \in Nat /\ n # 0 /\ n <= VideoCount
  BY <1>2, Constants DEF Insert
<1>7. d \in Nat /\ c \in Int /\ c + d - TransDuration \in Int
  BY <1>2, <1>4, <1>6, DurationOf, Constants DEF TypeInv
<1>8. k \in {0, 1} /\ tracks[k] \in Seq(Video \cup {Empty})
  BY <1>2, <1>4, <1>6, TrackOfProperties DEF TypeInv
<1>9. r \in Seq(Video \cup {Empty})
  BY <1>2, <1>4, <1>6, <1>7, <1>8, InsertType
<1>10. TypeInv'
  BY <1>4, <1>5, <1>6, <1>7, <1>8, <1>9, Constants DEF TypeInv
<1>11. /\ start \in [1 .. VideoCount + 1 -> Int] /\ start[n + 1] = c + d - TransDuration
       /\ \A v \in Nat : v # 0 /\ v <= n => start[v] = old[v]
       /\ start[1] = old[1] /\ old[n] = c
  <2>1. n + 1 \in 1 .. VideoCount + 1 /\ old[n] = c
    BY <1>2, <1>4, <1>5, <1>6, Constants DEF StartInv
  <2>2. /\ start \in [1 .. VideoCount + 1 -> Int] /\ start[n + 1] = c + d - TransDuration
        /\ \A v \in 1 .. VideoCount + 1 : v # n + 1 => start[v] = old[v]
    BY <1>3, <1>7, <2>1
  <2>3. \A v \in Nat : v # 0 /\ v <= n => v \in 1 .. VideoCount + 1 /\ v # n + 1
    BY <1>6, Constants
  <2> QED BY <1>6, <2>1, <2>2, <2>3
<1>12. Inserted = n /\ Inserted' = n + 1 /\ Ranged = 1 /\ Ranged' = 1
  BY <1>5 DEF Inserted, Ranged
<1>13. StartInv(start)'
  <2>1. ASSUME NEW v \in Video, v < n + 1 PROVE start[v + 1] = start[v] + duration[v] - TransDuration
    <3>1. v \in Nat /\ v # 0 /\ v <= n
      BY <1>6, <2>1, Constants
    <3>2. CASE v = n
      BY <1>2, <1>6, <1>11, <3>2
    <3>3. CASE v # n
      <4>1. v < n /\ v + 1 <= n /\ v + 1 # 0 /\ v + 1 \in Nat
        BY <1>6, <3>1, <3>3
      <4> QED BY <1>4, <1>11, <1>12, <3>1, <4>1 DEF StartInv
    <3> QED BY <3>2, <3>3
  <2> QED BY <1>4, <1>5, <1>11, <1>12, <2>1 DEF StartInv
<1>14. Laid(start)'
  <2>1. SUFFICES ASSUME LongEnough' PROVE RoomInv' /\ TracksInv(start)'
    BY DEF Laid
  <2>2. LongEnough
    BY <1>5, <2>1, LongKept
  <2>3. start = [old EXCEPT ![i + 1] = cursorTime + duration[i] - TransDuration]
    BY <1>2, <1>3
  <2>4. RoomInv /\ TracksInv(old)
    BY <1>4, <2>2 DEF Laid
  <2> QED BY <1>4, <1>11, <2>2, <2>3, <2>4, InsertLays
<1>15. RangesInv(start)'
  BY <1>4, <1>5, <1>12, Constants DEF RangesInv
<1>16. InstructionsInv'
  BY <1>4, <1>5, Constants DEF InstructionsInv, Instructed
<1> QED BY <1>10, <1>11, <1>13, <1>14, <1>15, <1>16 DEF IInv, Timeline

\* The composition is complete, and the times are forgotten.
LEMMA DispatchStep ==
  ASSUME IInv, Dispatch PROVE IInv'
<1>1. PICK start \in [1 .. VideoCount + 1 -> Int] : Timeline(start)
  BY DEF IInv
<1>2. TypeInv /\ StartInv(start) /\ Laid(start) /\ RangesInv(start) /\ InstructionsInv
  BY <1>1 DEF IInv, Timeline
<1>3. /\ pc = "insert" /\ i > VideoCount /\ pc' = "ranges" /\ i' = 1 /\ cursorTime' = 0
      /\ UNCHANGED <<duration, tracks, passThroughTimeRanges, transitionTimeRanges, instructions>>
  BY DEF Dispatch
<1>4. i = VideoCount + 1
  BY <1>2, <1>3, Constants DEF TypeInv
<1>5. TypeInv'
  BY <1>2, <1>3, Constants DEF TypeInv
<1>6. Inserted = VideoCount + 1 /\ Inserted' = VideoCount + 1 /\ Ranged = 1 /\ Ranged' = 1
  BY <1>3, <1>4 DEF Inserted, Ranged
<1>7. StartInv(start)'
  BY <1>2, <1>3, <1>6 DEF StartInv
<1>8. Laid(start)'
  BY <1>2, <1>3, <1>6, LongKept DEF Laid, RoomInv, TracksInv
<1>9. RangesInv(start)'
  BY <1>2, <1>3, <1>6 DEF RangesInv, PassThrough
<1>10. InstructionsInv'
  BY <1>2, <1>3, Constants DEF InstructionsInv, Instructed, Transition
<1> QED BY <1>5, <1>7, <1>8, <1>9, <1>10 DEF IInv, Timeline

--------------------------------------------------------------------------------
(* The loop of videoCompo *)

LEMMA RangesStep ==
  ASSUME IInv, Ranges PROVE IInv'
<1>1. PICK start \in [1 .. VideoCount + 1 -> Int] : Timeline(start)
  BY DEF IInv
<1>2. TypeInv /\ StartInv(start) /\ Laid(start) /\ RangesInv(start) /\ InstructionsInv
  BY <1>1 DEF IInv, Timeline
<1>3. PICK n, c, p, r : /\ n = i /\ c = cursorTime + duration[i] - TransDuration
                        /\ p = PassThrough(i, cursorTime)
                        /\ r = [start |-> c, duration |-> TransDuration]
  OBVIOUS
<1>4. /\ pc = "ranges" /\ pc' = "ranges" /\ n = i /\ i' = n + 1 /\ cursorTime' = c
      /\ passThroughTimeRanges' = Append(passThroughTimeRanges, p)
      /\ transitionTimeRanges' = IF n < VideoCount THEN Append(transitionTimeRanges, r)
                                 ELSE transitionTimeRanges
      /\ UNCHANGED <<duration, tracks, instructions>>
  BY <1>3 DEF Ranges
<1>5. n \in Video /\ n \in Nat /\ n # 0 /\ n <= VideoCount
  BY <1>3, Constants DEF Ranges
<1>6. duration[n] \in Nat /\ cursorTime \in Int /\ c \in Int /\ TransDuration \in Nat
  BY <1>2, <1>3, <1>5, DurationOf, Constants DEF TypeInv
<1>7. p \in RangeType /\ r \in RangeType
  BY <1>3, <1>5, <1>6 DEF PassThrough, RangeType
<1>8. TypeInv'
  BY <1>2, <1>4, <1>5, <1>6, <1>7, Constants DEF TypeInv
<1>9. cursorTime = start[n] /\ c = start[n + 1]
  BY <1>2, <1>3, <1>4, <1>5, Constants DEF StartInv, Inserted
<1>10. Inserted = VideoCount + 1 /\ Inserted' = VideoCount + 1 /\ Ranged = n /\ Ranged' = n + 1
  BY <1>4 DEF Inserted, Ranged
<1>11. StartInv(start)'
  BY <1>2, <1>4, <1>9, <1>10 DEF StartInv
<1>12. Laid(start)'
  BY <1>2, <1>4, <1>10, LongKept DEF Laid, RoomInv, TracksInv
<1>13. RangesInv(start)'
  <2>1. /\ Len(passThroughTimeRanges) = n - 1 /\ Len(transitionTimeRanges) = n - 1
        /\ passThroughTimeRanges \in Seq(RangeType) /\ transitionTimeRanges \in Seq(RangeType)
    BY <1>2, <1>5, <1>10, Constants DEF RangesInv, TypeInv
  <2>2. /\ Len(passThroughTimeRanges') = n /\ passThroughTimeRanges'[n] = p
        /\ \A v \in 1 .. n - 1 : passThroughTimeRanges'[v] = passThroughTimeRanges[v]
    BY <1>4, <1>5, <1>7, <2>1
  <2>3. /\ n < VideoCount => Len(transitionTimeRanges') = n /\ transitionTimeRanges'[n] = r
        /\ ~(n < VideoCount) => Len(transitionTimeRanges') = n - 1
        /\ \A v \in 1 .. n - 1 : transitionTimeRanges'[v] = transitionTimeRanges[v]
    BY <1>4, <1>5, <1>7, <2>1
  <2>4. Len(passThroughTimeRanges') = Ranged' - 1
    BY <1>5, <1>10, <2>2
  <2>5. Len(transitionTimeRanges') = IF Ranged' > VideoCount THEN VideoCount - 1 ELSE Ranged' - 1
    BY <1>5, <1>10, <2>3, Constants
  <2>6. ASSUME NEW v \in Video, v < n + 1
        PROVE  /\ passThroughTimeRanges'[v] = PassThrough(v, start[v])
               /\ v < VideoCount =>
                    transitionTimeRanges'[v] = [start |-> start[v + 1], duration |-> TransDuration]
    <3>1. v \in Nat /\ v # 0 /\ v <= n
      BY <1>5, <2>6, Constants
    <3>2. CASE v = n
      BY <1>3, <1>9, <2>2, <2>3, <3>2
    <3>3. CASE v # n
      <4>1. v < n /\ v \in 1 .. n - 1
        BY <1>5, <3>1, <3>3
      <4> QED BY <1>2, <1>10, <2>2, <2>3, <4>1 DEF RangesInv
    <3> QED BY <3>2, <3>3
  <2>7. \A v \in Video : PassThrough(v, start[v])' = PassThrough(v, start[v])
    BY <1>4 DEF PassThrough
  <2> QED BY <1>10, <2>4, <2>5, <2>6, <2>7 DEF RangesInv
<1>14. InstructionsInv'
  BY <1>2, <1>4, Constants DEF InstructionsInv, Instructed
<1> QED BY <1>8, <1>11, <1>12, <1>13, <1>14 DEF IInv, Timeline

LEMMA BuildStep ==
  ASSUME IInv, Build PROVE IInv'
<1>1. PICK start \in [1 .. VideoCount + 1 -> Int] : Timeline(start)
  BY DEF IInv
<1>2. TypeInv /\ StartInv(start) /\ Laid(start) /\ RangesInv(start) /\ InstructionsInv
  BY <1>1 DEF IInv, Timeline
<1>3. /\ pc = "ranges" /\ i > VideoCount /\ pc' = "instructions" /\ i' = 1
      /\ UNCHANGED <<duration, tracks, cursorTime, passThroughTimeRanges, transitionTimeRanges,
                     instructions>>
  BY DEF Build
<1>4. i = VideoCount + 1
  BY <1>2, <1>3, Constants DEF TypeInv
<1>5. TypeInv'
  BY <1>2, <1>3, Constants DEF TypeInv
<1>6. /\ Inserted = VideoCount + 1 /\ Inserted' = VideoCount + 1
      /\ Ranged = VideoCount + 1 /\ Ranged' = VideoCount + 1
  BY <1>3, <1>4 DEF Inserted, Ranged
<1>7. StartInv(start)'
  BY <1>2, <1>3, <1>6 DEF StartInv
<1>8. Laid(start)'
  BY <1>2, <1>3, <1>6, LongKept DEF Laid, RoomInv, TracksInv
<1>9. RangesInv(start)'
  BY <1>2, <1>3, <1>6 DEF RangesInv, PassThrough
<1>10. InstructionsInv'
  BY <1>2, <1>3, Constants DEF InstructionsInv, Instructed, Transition
<1> QED BY <1>5, <1>7, <1>8, <1>9, <1>10 DEF IInv, Timeline

--------------------------------------------------------------------------------
(* The loop of buildVideoCompositionAndInstructions *)

InstructionType == [range : RangeType, layers : Seq({0, 1})]

LEMMA InstructStep ==
  ASSUME IInv, Instruct PROVE IInv'
<1>1. PICK start \in [1 .. VideoCount + 1 -> Int] : Timeline(start)
  BY DEF IInv
<1>2. TypeInv /\ StartInv(start) /\ Laid(start) /\ RangesInv(start) /\ InstructionsInv
  BY <1>1 DEF IInv, Timeline
<1>3. PICK n, a, b : /\ n = i /\ a = Instruction(passThroughTimeRanges[i], <<TrackOf(i)>>)
                     /\ b = Transition(i)
  OBVIOUS
<1>4. /\ pc = "instructions" /\ pc' = "instructions" /\ n = i /\ i' = n + 1
      /\ instructions' = Append(instructions, a)
                           \o (IF n \in DOMAIN transitionTimeRanges THEN <<b>> ELSE <<>>)
      /\ UNCHANGED <<duration, tracks, cursorTime, passThroughTimeRanges, transitionTimeRanges>>
  BY <1>3 DEF Instruct
<1>5. /\ Inserted = VideoCount + 1 /\ Inserted' = VideoCount + 1
      /\ Ranged = VideoCount + 1 /\ Ranged' = VideoCount + 1
  BY <1>4 DEF Inserted, Ranged
<1>6. /\ passThroughTimeRanges \in Seq(RangeType) /\ DOMAIN passThroughTimeRanges = 1 .. VideoCount
      /\ transitionTimeRanges \in Seq(RangeType) /\ DOMAIN transitionTimeRanges = 1 .. VideoCount - 1
  BY <1>2, <1>5, Constants DEF RangesInv, TypeInv
<1>7. n \in Video /\ n \in Nat /\ n # 0 /\ n <= VideoCount
  <2>1. n \in 1 .. VideoCount
    BY <1>3, <1>6 DEF Instruct
  <2> QED BY <2>1 DEF Video
<1>8. TrackOf(n) \in {0, 1} /\ 1 - TrackOf(n) \in {0, 1}
  BY <1>7, TrackOfProperties
<1>9. a \in InstructionType
  <2>1. passThroughTimeRanges[n] \in RangeType /\ <<TrackOf(n)>> \in Seq({0, 1})
    BY <1>6, <1>7, <1>8, Constants
  <2> QED BY <1>3, <2>1 DEF Instruction, InstructionType
<1>10. n < VideoCount => b \in InstructionType
  <2>1. n < VideoCount => transitionTimeRanges[n] \in RangeType
    BY <1>6, <1>7, Constants
  <2>2. <<TrackOf(n), 1 - TrackOf(n)>> \in Seq({0, 1})
    BY <1>8
  <2> QED BY <1>3, <2>1, <2>2 DEF Transition, Instruction, InstructionType
<1>11. PICK l \in Nat : l = 2 * (n - 1)
  BY <1>7
<1>12. instructions \in Seq(InstructionType) /\ Len(instructions) = l
  <2>1. ~(i > VideoCount) /\ l = 2 * (i - 1) /\ pc \notin {"insert", "ranges"}
    BY <1>4, <1>7, <1>11, Constants
  <2> QED BY <1>2, <2>1 DEF InstructionsInv, Instructed, InstructionType
<1>13. /\ instructions' \in Seq(InstructionType)
       /\ \A k \in 1 .. l : instructions'[k] = instructions[k]
       /\ instructions'[l + 1] = a
       /\ n < VideoCount => Len(instructions') = l + 2 /\ instructions'[l + 2] = b
       /\ ~(n < VideoCount) => Len(instructions') = l + 1
  <2> HIDE DEF InstructionType
  <2>1. PICK q : q = Append(instructions, a)
    OBVIOUS
  <2>2. /\ q \in Seq(InstructionType) /\ Len(q) = l + 1 /\ q[l + 1] = a
        /\ \A k \in 1 .. l : q[k] = instructions[k]
    BY <1>9, <1>12, <2>1
  <2>3. CASE n < VideoCount
    <3>1. instructions' = q \o <<b>>
      <4>1. n \in DOMAIN transitionTimeRanges
        BY <1>6, <1>7, <2>3, Constants
      <4>2. instructions' = Append(instructions, a) \o <<b>>
        BY <1>4, <4>1
      <4> QED BY <2>1, <4>2
    <3>2. q \o <<b>> = Append(q, b)
      BY <1>10, <2>2, <2>3
    <3>3. instructions' = Append(q, b)
      BY <3>1, <3>2
    <3> QED BY <1>10, <2>2, <2>3, <3>3
  <2>4. CASE ~(n < VideoCount)
    <3>1. instructions' = q \o <<>>
      BY <1>4, <1>6, <1>7, <2>1, <2>4, Constants
    <3>2. instructions' = q
      BY <2>2, <3>1
    <3> QED BY <2>2, <2>4, <3>2
  <2> QED BY <2>3, <2>4
<1>14. TypeInv'
  BY <1>2, <1>4, <1>7, Constants DEF TypeInv
<1>15. StartInv(start)'
  BY <1>2, <1>4, <1>5 DEF StartInv
<1>16. Laid(start)'
  BY <1>2, <1>4, <1>5, LongKept DEF Laid, RoomInv, TracksInv
<1>17. RangesInv(start)'
  BY <1>2, <1>4, <1>5 DEF RangesInv, PassThrough
<1>18. InstructionsInv'
  <2>1. Len(instructions') = IF n + 1 > VideoCount THEN 2 * VideoCount - 1 ELSE 2 * (n + 1 - 1)
    BY <1>7, <1>11, <1>13, Constants
  <2>2. ASSUME NEW v \in Video, v < n + 1
        PROVE  /\ instructions'[2 * v - 1] = Instruction(passThroughTimeRanges[v], <<TrackOf(v)>>)
               /\ v < VideoCount => instructions'[2 * v] = Transition(v)
    <3>1. v \in Nat /\ v # 0 /\ v <= n
      BY <1>7, <2>2, Constants
    <3>2. CASE v = n
      <4>1. 2 * v - 1 = l + 1 /\ 2 * v = l + 2
        BY <1>7, <1>11, <3>2
      <4> QED BY <1>3, <1>13, <3>2, <4>1
    <3>3. CASE v # n
      <4>1. v < n /\ 2 * v \in 1 .. l /\ 2 * v - 1 \in 1 .. l
        BY <1>7, <1>11, <3>1, <3>3
      <4>2. /\ instructions[2 * v - 1] = Instruction(passThroughTimeRanges[v], <<TrackOf(v)>>)
            /\ v < VideoCount => instructions[2 * v] = Transition(v)
        BY <1>2, <1>4, <4>1 DEF InstructionsInv, Instructed
      <4> QED BY <1>13, <4>1, <4>2
    <3> QED BY <3>2, <3>3
  <2>3. \A v : Transition(v)' = Transition(v)
    BY <1>4 DEF Transition
  <2>4. pc' = "instructions" /\ i' = n + 1 /\ passThroughTimeRanges' = passThroughTimeRanges
    BY <1>4
  <2>5. \A v \in Video : v < n + 1 =>
          /\ instructions'[2 * v - 1] = Instruction(passThroughTimeRanges'[v], <<TrackOf(v)>>)
          /\ v < VideoCount => instructions'[2 * v] = Transition(v)'
    BY <2>2, <2>3, <2>4
  <2>6. instructions' \in Seq([range : RangeType, layers : Seq({0, 1})])
    BY <1>13 DEF InstructionType
  <2>7. Instructed' = n + 1
    BY <2>4 DEF Instructed
  <2>8. Len(instructions') = IF Instructed' > VideoCount THEN 2 * VideoCount - 1
                             ELSE 2 * (Instructed' - 1)
    BY <1>7, <2>1, <2>7, Constants
  <2>9. \A v \in Video : v < Instructed' =>
          /\ instructions'[2 * v - 1] = Instruction(passThroughTimeRanges'[v], <<TrackOf(v)>>)
          /\ v < VideoCount => instructions'[2 * v] = Transition(v)'
    BY <2>5, <2>7
  <2> QED BY <2>6, <2>8, <2>9 DEF InstructionsInv
<1> QED BY <1>14, <1>15, <1>16, <1>17, <1>18 DEF IInv, Timeline

LEMMA FinishStep ==
  ASSUME IInv, Finish PROVE IInv'
<1>1. PICK start \in [1 .. VideoCount + 1 -> Int] : Timeline(start)
  BY DEF IInv
<1>2. TypeInv /\ StartInv(start) /\ Laid(start) /\ RangesInv(start) /\ InstructionsInv
  BY <1>1 DEF IInv, Timeline
<1>3. /\ pc = "instructions" /\ i \notin DOMAIN passThroughTimeRanges /\ pc' = "done"
      /\ UNCHANGED <<duration, tracks, i, cursorTime, passThroughTimeRanges, transitionTimeRanges,
                     instructions>>
  BY DEF Finish
<1>4. /\ Inserted = VideoCount + 1 /\ Inserted' = VideoCount + 1
      /\ Ranged = VideoCount + 1 /\ Ranged' = VideoCount + 1
  BY <1>3 DEF Inserted, Ranged
<1>5. i = VideoCount + 1
  <2>1. DOMAIN passThroughTimeRanges = 1 .. VideoCount
    BY <1>2, <1>4, Constants DEF RangesInv, TypeInv
  <2> QED BY <1>2, <1>3, <2>1, Constants DEF TypeInv
<1>6. TypeInv'
  BY <1>2, <1>3, <1>5 DEF TypeInv
<1>7. StartInv(start)'
  BY <1>2, <1>3, <1>4 DEF StartInv
<1>8. Laid(start)'
  BY <1>2, <1>3, <1>4, LongKept DEF Laid, RoomInv, TracksInv
<1>9. RangesInv(start)'
  BY <1>2, <1>3, <1>4 DEF RangesInv, PassThrough
<1>10. InstructionsInv'
  BY <1>2, <1>3 DEF InstructionsInv, Instructed, Transition
<1> QED BY <1>6, <1>7, <1>8, <1>9, <1>10 DEF IInv, Timeline

LEMMA StutterStep ==
  ASSUME IInv, UNCHANGED vars PROVE IInv'
<1>1. PICK start \in [1 .. VideoCount + 1 -> Int] : Timeline(start)
  BY DEF IInv
<1>2. UNCHANGED <<duration, tracks, i, cursorTime, passThroughTimeRanges, transitionTimeRanges,
                  instructions, pc>>
  BY DEF vars
<1>3. TypeInv'
  BY <1>2 DEF IInv, TypeInv
<1>4. Timeline(start)'
  BY <1>1, <1>2 DEF Timeline, StartInv, Laid, LongEnough, TooShort, RoomInv, TracksInv, RangesInv,
                    PassThrough, InstructionsInv, Instructed, Transition, Inserted, Ranged
<1> QED BY <1>3, <1>4 DEF IInv

--------------------------------------------------------------------------------
(* The instructions and the start times *)

PassInstruction(start, v) == Instruction(PassThrough(v, start[v]), <<TrackOf(v)>>)

TransInstruction(start, v) ==
  Instruction([start |-> start[v + 1], duration |-> TransDuration],
              <<TrackOf(v), 1 - TrackOf(v)>>)

\* A video that was instructed has its instruction, and so has the transition after it.
LEMMA InstructionsOf ==
  ASSUME TypeInv, NEW start, Timeline(start), NEW v \in Video, v < Instructed
  PROVE  /\ 2 * v - 1 \in DOMAIN instructions
         /\ instructions[2 * v - 1] = PassInstruction(start, v)
         /\ v < VideoCount => /\ 2 * v \in DOMAIN instructions
                              /\ instructions[2 * v] = TransInstruction(start, v)
         /\ Inserted = VideoCount + 1
<1>1. v \in Nat /\ v # 0 /\ v <= VideoCount /\ Instructed \in 1 .. VideoCount + 1
  BY Constants DEF TypeInv, Instructed
<1>2. pc \notin {"insert", "ranges"}
  BY <1>1 DEF Instructed
<1>3. Inserted = VideoCount + 1 /\ Ranged = VideoCount + 1
  BY <1>2 DEF Inserted, Ranged
<1>4. RangesInv(start) /\ InstructionsInv
  BY DEF Timeline
<1>5. /\ passThroughTimeRanges[v] = PassThrough(v, start[v])
      /\ v < VideoCount =>
           transitionTimeRanges[v] = [start |-> start[v + 1], duration |-> TransDuration]
  BY <1>1, <1>3, <1>4, Constants DEF RangesInv
<1>6. /\ instructions[2 * v - 1] = Instruction(passThroughTimeRanges[v], <<TrackOf(v)>>)
      /\ v < VideoCount => instructions[2 * v] = Transition(v)
      /\ Len(instructions) = IF Instructed > VideoCount THEN 2 * VideoCount - 1
                             ELSE 2 * (Instructed - 1)
      /\ DOMAIN instructions = 1 .. Len(instructions)
  BY <1>4 DEF InstructionsInv
<1>7. 2 * v - 1 \in DOMAIN instructions /\ (v < VideoCount => 2 * v \in DOMAIN instructions)
  <2>1. PICK l \in Nat : l = Len(instructions)
    BY <1>1, <1>6, Constants
  <2>2. 2 * v - 1 <= l
    BY <1>1, <1>6, <2>1, Constants
  <2>3. v < VideoCount => 2 * v <= l
    BY <1>1, <1>6, <2>1, Constants
  <2> QED BY <1>1, <1>6, <2>1, <2>2, <2>3
<1> QED BY <1>3, <1>5, <1>6, <1>7 DEF PassInstruction, TransInstruction, Transition

\* Every instruction is that of a video, or of the transition to the next one.
LEMMA VideoOf ==
  ASSUME TypeInv, InstructionsInv, NEW k \in DOMAIN instructions
  PROVE  \E v \in Video : v < Instructed /\ (k = 2 * v - 1 \/ (k = 2 * v /\ v < VideoCount))
<1>1. PICK m \in Nat : m = Instructed
  BY Constants DEF TypeInv, Instructed
<1>2. m # 0 /\ m <= VideoCount + 1
  BY <1>1, Constants DEF TypeInv, Instructed
<1>3. k \in Nat /\ k # 0 /\ k <= IF m > VideoCount THEN 2 * VideoCount - 1 ELSE 2 * (m - 1)
  BY <1>1 DEF InstructionsInv
<1>4. PICK v \in Nat : v = (k + 1) \div 2
  BY <1>3
<1>5. k = 2 * v - 1 \/ k = 2 * v
  BY <1>3, <1>4
<1>6. v # 0 /\ v <= VideoCount /\ v < m /\ (k = 2 * v => v < VideoCount)
  BY <1>2, <1>3, <1>5, Constants
<1>7. v \in Video
  BY <1>6, Constants DEF Video
<1>8. v < Instructed
  BY <1>1, <1>6
<1> QED BY <1>5, <1>6, <1>7, <1>8

\* The ranges of the instructions of one video, and of the transition after it.
LEMMA RangeOf ==
  ASSUME TypeInv, NEW start \in [1 .. VideoCount + 1 -> Int], StartInv(start), NEW v \in Video,
         v < Inserted
  PROVE  LET first == start[v] + (IF v > 1 THEN TransDuration ELSE 0)
             pass  == PassInstruction(start, v).range
             trans == TransInstruction(start, v).range IN
         /\ start[v] \in Int /\ start[v + 1] \in Int
         /\ start[v + 1] = start[v] + duration[v] - TransDuration
         /\ pass.start = first /\ (pass.duration < 0 <=> TooShort(v))
         /\ End(pass) = start[v] + duration[v] - (IF v < VideoCount THEN TransDuration ELSE 0)
         /\ trans.start = start[v + 1] /\ trans.duration = TransDuration
         /\ End(trans) = start[v + 1] + TransDuration
<1>1. v \in Nat /\ v # 0 /\ v <= VideoCount /\ v \in 1 .. VideoCount + 1 /\ v + 1 \in 1 .. VideoCount + 1
  BY Constants
<1>2. start[v] \in Int /\ start[v + 1] \in Int
  BY <1>1
<1>3. duration[v] \in Nat /\ TransDuration \in Nat
  BY DurationOf, Constants
<1>4. start[v + 1] = start[v] + duration[v] - TransDuration
  BY DEF StartInv
<1>5. /\ PassInstruction(start, v).range = PassThrough(v, start[v])
      /\ TransInstruction(start, v).range = [start |-> start[v + 1], duration |-> TransDuration]
  BY DEF PassInstruction, TransInstruction, Instruction
<1>6. PassThrough(v, start[v]).duration < 0 <=> TooShort(v)
  BY <1>1, <1>3 DEF PassThrough, TooShort
<1>7. End(PassThrough(v, start[v]))
        = start[v] + duration[v] - (IF v < VideoCount THEN TransDuration ELSE 0)
  BY <1>1, <1>2, <1>3 DEF PassThrough, End
<1> QED BY <1>1, <1>2, <1>3, <1>4, <1>5, <1>6, <1>7 DEF PassThrough, End

\* When all the ranges there are to be are valid, no video is too short.
LEMMA ValidIsLong ==
  ASSUME TypeInv, NEW start \in [1 .. VideoCount + 1 -> Int], RangesInv(start),
         Ranged = VideoCount + 1, RangesValid
  PROVE  LongEnough
<1>1. ASSUME NEW v \in Video PROVE ~TooShort(v)
  <2>1. v \in Nat /\ v # 0 /\ v <= VideoCount /\ TransDuration \in Nat /\ VideoCount \in Nat
    BY Constants
  <2>2. v < Ranged /\ start[v] \in Int
    BY <2>1, Constants
  <2>3. /\ passThroughTimeRanges[v] = PassThrough(v, start[v])
        /\ v \in DOMAIN passThroughTimeRanges
    <3>1. passThroughTimeRanges \in Seq(RangeType)
      BY DEF TypeInv
    <3>2. Len(passThroughTimeRanges) = Ranged - 1
      BY DEF RangesInv
    <3>3. DOMAIN passThroughTimeRanges = 1 .. VideoCount
      BY <2>1, <3>1, <3>2
    <3>4. passThroughTimeRanges[v] = PassThrough(v, start[v])
      BY <2>2 DEF RangesInv
    <3> QED BY <2>1, <3>3, <3>4
  <2>4. PassThrough(v, start[v]).duration >= 0
    BY <2>3 DEF RangesValid
  <2> QED BY <2>1, <2>2, <2>4, DurationOf DEF PassThrough, TooShort
<1> QED BY <1>1 DEF LongEnough

\* A pass shows the video it is for, a transition the two it is between.
LEMMA ShownOf ==
  ASSUME NEW v \in Nat \ {0}
  PROVE  Shown(2 * v - 1) = <<v>> /\ Shown(2 * v) = <<v, v + 1>>
<1>1. PICK u \in Nat : u = v /\ u # 0
  OBVIOUS
<1>2. (2 * u - 1) % 2 = 1 /\ (2 * u - 1 + 1) \div 2 = u /\ (2 * u) % 2 # 1 /\ (2 * u) \div 2 = u
  BY <1>1
<1> QED BY <1>1, <1>2 DEF Shown

\* The instructions tile the composition.
LEMMA Tiling ==
  IInv => InstructionsTile
<1> SUFFICES ASSUME IInv, NEW k \in DOMAIN instructions
             PROVE  /\ instructions[k].range.start =
                         (IF k = 1 THEN 0 ELSE End(instructions[k - 1].range))
                    /\ instructions[k].range.duration < 0 <=>
                         Len(Shown(k)) = 1 /\ TooShort(Shown(k)[1])
  BY DEF InstructionsTile
<1>1. PICK start \in [1 .. VideoCount + 1 -> Int] : Timeline(start)
  BY DEF IInv
<1>2. TypeInv /\ StartInv(start) /\ InstructionsInv
  BY <1>1 DEF IInv, Timeline
<1>3. PICK v \in Video : v < Instructed /\ (k = 2 * v - 1 \/ (k = 2 * v /\ v < VideoCount))
  BY <1>2, VideoOf
<1>4. v \in Nat /\ v # 0 /\ v <= VideoCount /\ Instructed \in Nat
  BY <1>2, Constants DEF TypeInv, Instructed
<1>5. TransDuration \in Nat /\ VideoCount \in Nat
  BY Constants
<1>6. /\ instructions[2 * v - 1] = PassInstruction(start, v)
      /\ v < VideoCount => instructions[2 * v] = TransInstruction(start, v)
      /\ Inserted = VideoCount + 1
  BY <1>1, <1>2, <1>3, InstructionsOf
<1>7. v < Inserted
  BY <1>4, <1>5, <1>6
<1>8. LET first == start[v] + (IF v > 1 THEN TransDuration ELSE 0)
          pass  == PassInstruction(start, v).range
          trans == TransInstruction(start, v).range IN
      /\ start[v] \in Int /\ start[v + 1] \in Int
      /\ start[v + 1] = start[v] + duration[v] - TransDuration
      /\ pass.start = first /\ (pass.duration < 0 <=> TooShort(v))
      /\ End(pass) = start[v] + duration[v] - (IF v < VideoCount THEN TransDuration ELSE 0)
      /\ trans.start = start[v + 1] /\ trans.duration = TransDuration
      /\ End(trans) = start[v + 1] + TransDuration
  BY <1>2, <1>7, RangeOf
<1>9. Shown(2 * v - 1) = <<v>> /\ Shown(2 * v) = <<v, v + 1>>
  BY <1>4, ShownOf
<1>10. CASE k = 2 * v /\ v < VideoCount
  <2>1. k # 1 /\ k - 1 = 2 * v - 1
    BY <1>4, <1>10
  <2>2. Len(Shown(k)) = 2
    BY <1>9, <1>10
  <2>3. instructions[k] = TransInstruction(start, v) /\ instructions[k - 1] = PassInstruction(start, v)
    BY <1>6, <1>10, <2>1
  <2>4. instructions[k].range.start = End(instructions[k - 1].range)
    BY <1>4, <1>5, <1>8, <1>10, <2>3
  <2>5. ~(instructions[k].range.duration < 0)
    BY <1>5, <1>8, <2>3
  <2> QED BY <2>1, <2>2, <2>4, <2>5
<1>11. CASE k = 2 * v - 1 /\ v = 1
  <2>1. k = 1 /\ ~(v > 1)
    BY <1>11
  <2>2. start[v] = 0
    BY <1>2, <1>11 DEF StartInv
  <2>3. Len(Shown(k)) = 1 /\ Shown(k)[1] = v
    BY <1>9, <1>11
  <2> QED BY <1>6, <1>8, <1>11, <2>1, <2>2, <2>3
<1>12. CASE k = 2 * v - 1 /\ v # 1
  <2>1. PICK u \in Nat : u = v - 1
    BY <1>4
  <2>2. u \in Video /\ u < VideoCount /\ u < Instructed /\ u < Inserted
    BY <1>3, <1>4, <1>5, <1>6, <1>7, <1>12, <2>1 DEF Video
  <2>3. k # 1 /\ k - 1 = 2 * u /\ v > 1 /\ v = u + 1
    BY <1>4, <1>12, <2>1
  <2>4. instructions[2 * u] = TransInstruction(start, u)
    BY <1>1, <1>2, <2>2, InstructionsOf
  <2>5. End(TransInstruction(start, u).range) = start[u + 1] + TransDuration
    BY <1>2, <2>2, RangeOf
  <2>6. instructions[k] = PassInstruction(start, v)
    BY <1>6, <1>12
  <2>7. PassInstruction(start, v).range.start = start[v] + TransDuration
    BY <1>8, <2>3
  <2>8. Len(Shown(k)) = 1 /\ Shown(k)[1] = v
    BY <1>9, <1>12
  <2> QED BY <1>8, <2>3, <2>4, <2>5, <2>6, <2>7, <2>8
<1> QED BY <1>3, <1>10, <1>11, <1>12

LEMMA LayersMatch ==
  IInv => LayersHaveMedia
<1> SUFFICES ASSUME IInv, RangesValid, NEW k \in DOMAIN instructions, NEW n \in DOMAIN Shown(k),
                    NEW tick \in instructions[k].range.start + 1 .. End(instructions[k].range)
             PROVE  LET track == tracks[instructions[k].layers[n]] IN
                    tick \in DOMAIN track /\ track[tick] = Shown(k)[n]
  BY DEF LayersHaveMedia
<1>1. PICK start \in [1 .. VideoCount + 1 -> Int] : Timeline(start)
  BY DEF IInv
<1>2. TypeInv /\ StartInv(start) /\ InstructionsInv /\ RangesInv(start) /\ Laid(start)
  BY <1>1 DEF IInv, Timeline
<1>3. PICK v \in Video : v < Instructed /\ (k = 2 * v - 1 \/ (k = 2 * v /\ v < VideoCount))
  BY <1>2, VideoOf
<1>4. v \in Nat /\ v # 0 /\ v <= VideoCount /\ TransDuration \in Nat /\ VideoCount \in Nat
  BY Constants
<1>5. /\ instructions[2 * v - 1] = PassInstruction(start, v)
      /\ v < VideoCount => instructions[2 * v] = TransInstruction(start, v)
      /\ Inserted = VideoCount + 1
  BY <1>1, <1>2, <1>3, InstructionsOf
<1>6. v < Inserted
  BY <1>4, <1>5
<1>7. LongEnough /\ TracksInv(start)
  <2>1. Ranged = VideoCount + 1
    <3>1. pc \notin {"insert", "ranges"}
      BY <1>3, <1>4 DEF Instructed
    <3> QED BY <3>1 DEF Ranged
  <2>2. LongEnough
    BY <1>2, <2>1, ValidIsLong
  <2> QED BY <1>2, <2>2 DEF Laid
<1>8. LET first == start[v] + (IF v > 1 THEN TransDuration ELSE 0)
          pass  == PassInstruction(start, v).range
          trans == TransInstruction(start, v).range IN
      /\ start[v] \in Int /\ start[v + 1] \in Int
      /\ start[v + 1] = start[v] + duration[v] - TransDuration
      /\ pass.start = first /\ (pass.duration < 0 <=> TooShort(v))
      /\ End(pass) = start[v] + duration[v] - (IF v < VideoCount THEN TransDuration ELSE 0)
      /\ trans.start = start[v + 1] /\ trans.duration = TransDuration
      /\ End(trans) = start[v + 1] + TransDuration
  BY <1>2, <1>6, RangeOf
<1>9. duration[v] \in Nat /\ (v < VideoCount => duration[v] >= TransDuration)
  BY <1>2, <1>7, LongDuration
<1>10. ASSUME NEW u \in Video, NEW m \in start[u] + 1 .. start[u] + duration[u]
      PROVE  m \in DOMAIN tracks[TrackOf(u)] /\ tracks[TrackOf(u)][m] = u
  <2>1. u < Inserted
    BY <1>5, Constants
  <2> QED BY <1>7, <2>1 DEF TracksInv
<1>11. TrackOf(v + 1) = 1 - TrackOf(v)
  BY <1>4, TrackOfProperties
<1>12. PassInstruction(start, v).layers = <<TrackOf(v)>>
  BY DEF PassInstruction, Instruction
<1>13. TransInstruction(start, v).layers = <<TrackOf(v), 1 - TrackOf(v)>>
  BY DEF TransInstruction, Instruction
<1>14. Shown(2 * v - 1) = <<v>> /\ Shown(2 * v) = <<v, v + 1>>
  BY <1>4, ShownOf
<1>15. CASE k = 2 * v - 1
  <2>1. n = 1 /\ Shown(k)[n] = v
    BY <1>14, <1>15
  <2>2. instructions[k].layers[n] = TrackOf(v)
    BY <1>5, <1>12, <1>15, <2>1
  <2>3. tick \in PassInstruction(start, v).range.start + 1 .. End(PassInstruction(start, v).range)
    BY <1>5, <1>15
  <2>4. tick \in start[v] + 1 .. start[v] + duration[v]
    <3>1. /\ PassInstruction(start, v).range.start \in Int
          /\ PassInstruction(start, v).range.start >= start[v]
      BY <1>4, <1>8
    <3>2. /\ End(PassInstruction(start, v).range) \in Int
          /\ End(PassInstruction(start, v).range) <= start[v] + duration[v]
      BY <1>4, <1>8, <1>9
    <3> QED BY <1>8, <1>9, <2>3, <3>1, <3>2
  <2> QED BY <1>10, <2>1, <2>2, <2>4
<1>16. CASE k = 2 * v /\ v < VideoCount
  <2>1. tick \in start[v + 1] + 1 .. start[v + 1] + TransDuration
    BY <1>5, <1>8, <1>16
  <2>2. tick \in start[v] + 1 .. start[v] + duration[v]
    <3>1. /\ start[v + 1] + TransDuration = start[v] + duration[v] /\ start[v + 1] >= start[v]
          /\ start[v] \in Int /\ start[v + 1] \in Int
      BY <1>4, <1>8, <1>9, <1>16
    <3>2. PICK a, b, c, d \in Int : /\ a = start[v] /\ b = start[v + 1] /\ c = duration[v]
                                    /\ d = TransDuration
      BY <1>4, <1>9, <3>1
    <3> QED BY <2>1, <3>1, <3>2
  <2>3. v + 1 \in Video
    BY <1>4, <1>16 DEF Video
  <2>4. duration[v + 1] \in Nat /\ duration[v + 1] >= TransDuration
    BY <1>2, <1>4, <1>7, <2>3, LongDuration
  <2>5. tick \in start[v + 1] + 1 .. start[v + 1] + duration[v + 1]
    BY <1>4, <1>8, <2>1, <2>4
  <2>6. instructions[k].layers = <<TrackOf(v), 1 - TrackOf(v)>> /\ Shown(k) = <<v, v + 1>>
    BY <1>5, <1>13, <1>14, <1>16
  <2>7. n = 1 \/ n = 2
    BY <2>6
  <2>8. CASE n = 1
    <3>1. instructions[k].layers[n] = TrackOf(v) /\ Shown(k)[n] = v
      BY <2>6, <2>8
    <3> QED BY <1>10, <2>2, <3>1
  <2>9. CASE n = 2
    <3>1. instructions[k].layers[n] = TrackOf(v + 1) /\ Shown(k)[n] = v + 1
      BY <1>11, <2>6, <2>9
    <3> QED BY <1>10, <2>3, <2>5, <3>1
  <2> QED BY <2>7, <2>8, <2>9
<1> QED BY <1>3, <1>15, <1>16

\* A tick of a video is in its pass, in the transition before it or in the one after it.
LEMMA AllShown ==
  IInv => EverythingShown
<1> SUFFICES ASSUME IInv, pc = "done", RangesValid, NEW t \in {0, 1}, NEW tick \in DOMAIN tracks[t],
                    tracks[t][tick] # Empty
             PROVE  \E k \in DOMAIN instructions :
                      /\ tick > instructions[k].range.start /\ tick <= End(instructions[k].range)
                      /\ \E n \in DOMAIN instructions[k].layers : instructions[k].layers[n] = t
  BY DEF EverythingShown
<1>1. PICK start \in [1 .. VideoCount + 1 -> Int] : Timeline(start)
  BY DEF IInv
<1>2. TypeInv /\ StartInv(start) /\ InstructionsInv /\ RangesInv(start) /\ Laid(start)
  BY <1>1 DEF IInv, Timeline
<1>3. Instructed = VideoCount + 1 /\ Inserted = VideoCount + 1
  BY <1>2 DEF TypeInv, Instructed, Inserted
<1>4. LongEnough /\ TracksInv(start)
  <2>1. Ranged = VideoCount + 1
    BY DEF Ranged
  <2>2. LongEnough
    BY <1>2, <2>1, ValidIsLong
  <2> QED BY <1>2, <2>2 DEF Laid
<1>5. PICK v : v = tracks[t][tick]
  OBVIOUS
<1>6. v < Inserted /\ TrackOf(v) = t /\ tick > start[v] /\ tick <= start[v] + duration[v]
  BY <1>4, <1>5 DEF TracksInv
<1>7. v \in Video /\ tick \in Nat
  BY <1>2, <1>5 DEF TypeInv
<1>8. v \in Nat /\ v # 0 /\ v <= VideoCount /\ TransDuration \in Nat /\ VideoCount \in Nat
  BY <1>7, Constants
<1>9. ASSUME NEW u \in Video
      PROVE  /\ 2 * u - 1 \in DOMAIN instructions
             /\ instructions[2 * u - 1] = PassInstruction(start, u)
             /\ u < VideoCount => /\ 2 * u \in DOMAIN instructions
                                  /\ instructions[2 * u] = TransInstruction(start, u)
  <2>1. u < Instructed
    BY <1>3, Constants
  <2> QED BY <1>1, <1>2, <2>1, InstructionsOf
<1>10. ASSUME NEW u \in Video
      PROVE  LET first == start[u] + (IF u > 1 THEN TransDuration ELSE 0)
                 pass  == PassInstruction(start, u).range
                 trans == TransInstruction(start, u).range IN
             /\ start[u] \in Int /\ start[u + 1] \in Int
             /\ start[u + 1] = start[u] + duration[u] - TransDuration
             /\ pass.start = first /\ (pass.duration < 0 <=> TooShort(u))
             /\ End(pass) = start[u] + duration[u] - (IF u < VideoCount THEN TransDuration ELSE 0)
             /\ trans.start = start[u + 1] /\ trans.duration = TransDuration
             /\ End(trans) = start[u + 1] + TransDuration
  <2>1. u < Inserted
    BY <1>3, Constants
  <2> QED BY <1>2, <2>1, RangeOf
<1>11. duration[v] \in Nat
  BY <1>2, <1>7, DurationOf
<1>12. CASE v > 1 /\ tick <= start[v] + TransDuration
  <2>1. PICK u \in Nat : u = v - 1
    BY <1>8
  <2>2. u \in Video /\ u < VideoCount /\ u + 1 = v /\ u # 0
    BY <1>8, <1>12, <2>1 DEF Video
  <2>3. 2 * u \in DOMAIN instructions /\ instructions[2 * u] = TransInstruction(start, u)
    BY <1>9, <2>2
  <2>4. /\ TransInstruction(start, u).range.start = start[v]
        /\ End(TransInstruction(start, u).range) = start[v] + TransDuration
    BY <1>10, <2>2
  <2>5. 2 \in DOMAIN TransInstruction(start, u).layers /\ TransInstruction(start, u).layers[2] = t
    <3>1. 1 - TrackOf(u) = t
      BY <1>6, <2>2, TrackOfProperties
    <3> QED BY <3>1 DEF TransInstruction, Instruction
  <2>6. /\ tick > instructions[2 * u].range.start /\ tick <= End(instructions[2 * u].range)
        /\ 2 \in DOMAIN instructions[2 * u].layers /\ instructions[2 * u].layers[2] = t
    BY <1>6, <1>12, <2>3, <2>4, <2>5
  <2> QED BY <2>3, <2>6
<1>13. CASE v < VideoCount /\ tick > start[v] + duration[v] - TransDuration
  <2>1. 2 * v \in DOMAIN instructions /\ instructions[2 * v] = TransInstruction(start, v)
    BY <1>7, <1>9, <1>13
  <2>2. /\ TransInstruction(start, v).range.start = start[v] + duration[v] - TransDuration
        /\ End(TransInstruction(start, v).range) = start[v] + duration[v]
    BY <1>7, <1>8, <1>10, <1>11
  <2>3. 1 \in DOMAIN TransInstruction(start, v).layers /\ TransInstruction(start, v).layers[1] = t
    BY <1>6 DEF TransInstruction, Instruction
  <2>4. /\ tick > instructions[2 * v].range.start /\ tick <= End(instructions[2 * v].range)
        /\ 1 \in DOMAIN instructions[2 * v].layers /\ instructions[2 * v].layers[1] = t
    BY <1>6, <1>13, <2>1, <2>2, <2>3
  <2> QED BY <2>1, <2>4
<1>14. CASE /\ ~(v > 1 /\ tick <= start[v] + TransDuration)
            /\ ~(v < VideoCount /\ tick > start[v] + duration[v] - TransDuration)
  <2>1. 2 * v - 1 \in DOMAIN instructions /\ instructions[2 * v - 1] = PassInstruction(start, v)
    BY <1>7, <1>9
  <2>2. /\ tick > PassInstruction(start, v).range.start
        /\ tick <= End(PassInstruction(start, v).range)
    <3>1. /\ start[v] \in Int
          /\ PassInstruction(start, v).range.start
               = start[v] + (IF v > 1 THEN TransDuration ELSE 0)
          /\ End(PassInstruction(start, v).range)
               = start[v] + duration[v] - (IF v < VideoCount THEN TransDuration ELSE 0)
      BY <1>7, <1>10
    <3>2. tick > start[v] + (IF v > 1 THEN TransDuration ELSE 0)
      BY <1>6, <1>7, <1>8, <1>14, <3>1
    <3>3. tick <= start[v] + duration[v] - (IF v < VideoCount THEN TransDuration ELSE 0)
      BY <1>6, <1>7, <1>8, <1>11, <1>14, <3>1
    <3> QED BY <3>1, <3>2, <3>3
  <2>3. 1 \in DOMAIN PassInstruction(start, v).layers /\ PassInstruction(start, v).layers[1] = t
    BY <1>6 DEF PassInstruction, Instruction
  <2>4. /\ tick > instructions[2 * v - 1].range.start /\ tick <= End(instructions[2 * v - 1].range)
        /\ 1 \in DOMAIN instructions[2 * v - 1].layers /\ instructions[2 * v - 1].layers[1] = t
    BY <2>1, <2>2, <2>3
  <2> QED BY <2>1, <2>4
<1> QED BY <1>12, <1>13, <1>14

--------------------------------------------------------------------------------
(* The theorems *)

\* At every step the tracks, the ranges and the instructions agree on where the videos start.
THEOREM InvariantHolds ==
  Spec => []IInv
<1>1. Init => IInv
  BY InitInv
<1>2. IInv /\ [Next]_vars => IInv'
  BY InsertStep, DispatchStep, RangesStep, BuildStep, InstructStep, FinishStep, StutterStep DEF Next
<1> QED BY <1>1, <1>2, PTL DEF Spec

\* The instructions follow each other from the start of the composition, without a gap or
\* an overlap, and the only ranges that are negative are those of videos too short for
\* their transitions (ViewController.m:94-108).
THEOREM InstructionsTileHolds ==
  Spec => []InstructionsTile
<1>1. IInv => InstructionsTile
  BY Tiling
<1> QED BY <1>1, InvariantHolds, PTL

\* buildVideoCompositionAndInstructions: where an instruction has a layer, the track of the
\* layer has the video the layer is for, as soon as no range is negative: what videoCompo
\* computes would be enough to tell.
THEOREM LayersHaveMediaHolds ==
  Spec => []LayersHaveMedia
<1>1. IInv => LayersHaveMedia
  BY LayersMatch
<1> QED BY <1>1, InvariantHolds, PTL

\* No tick of a video is on a track without an instruction that has a layer for the track,
\* under the same condition.
THEOREM EverythingShownHolds ==
  Spec => []EverythingShown
<1>1. IInv => EverythingShown
  BY AllShown
<1> QED BY <1>1, InvariantHolds, PTL
================================================================================
