----------------------------- MODULE VideoTimelineInv -----------------------------
(***************************************************************************)
(* The inductive invariant of VideoTimeline: where each video starts, and  *)
(* that the tracks, the time ranges and the instructions all agree with    *)
(* it.  The program never stores these times: each of its two loops        *)
(* computes them in cursorTime and forgets them.                           *)
(***************************************************************************)
EXTENDS VideoTimeline

RangeType == [start : Int, duration : Int]

TypeInv ==
  /\ duration \in [Video -> Durations]
  /\ tracks \in [{0, 1} -> Seq(Video \cup {Empty})]
  /\ i \in 1 .. VideoCount + 1 /\ cursorTime \in Int
  /\ passThroughTimeRanges \in Seq(RangeType) /\ transitionTimeRanges \in Seq(RangeType)
  /\ pc \in {"insert", "ranges", "instructions", "done"}
  /\ pc = "done" => i = VideoCount + 1

\* The videos before Inserted are on the tracks, those before Ranged have their ranges,
\* those before Instructed their instructions.
Inserted   == IF pc = "insert" THEN i ELSE VideoCount + 1
Ranged     == IF pc = "insert" THEN 1 ELSE IF pc = "ranges" THEN i ELSE VideoCount + 1
Instructed == IF pc \in {"insert", "ranges"} THEN 1 ELSE i

\* start[v] is where video v starts, if it is not beyond the first that is not inserted.
StartInv(start) ==
  /\ start[1] = 0
  /\ \A v \in Video : v < Inserted => start[v + 1] = start[v] + duration[v] - TransDuration
  /\ pc \in {"insert", "ranges"} => cursorTime = start[i]

LongEnough == \A v \in Video : ~TooShort(v)

\* The next video finds its track free, and the other one taken for a transition more,
\* unless it is the first.
RoomInv ==
  pc = "insert" /\ i \in Video =>
    /\ Len(tracks[TrackOf(i)]) <= cursorTime
    /\ Len(tracks[1 - TrackOf(i)]) <= cursorTime + (IF i > 1 THEN TransDuration ELSE 0)

\* Each video that was inserted is where it starts, and nothing else is on the tracks.
TracksInv(start) ==
  /\ \A v \in Video : v < Inserted =>
       \A tick \in start[v] + 1 .. start[v] + duration[v] :
         tick \in DOMAIN tracks[TrackOf(v)] /\ tracks[TrackOf(v)][tick] = v
  /\ \A k \in {0, 1} : \A tick \in DOMAIN tracks[k] :
       LET v == tracks[k][tick] IN
       v # Empty => /\ v < Inserted /\ TrackOf(v) = k
                    /\ tick > start[v] /\ tick <= start[v] + duration[v]

RangesInv(start) ==
  /\ Len(passThroughTimeRanges) = Ranged - 1
  /\ Len(transitionTimeRanges) = IF Ranged > VideoCount THEN VideoCount - 1 ELSE Ranged - 1
  /\ \A v \in Video : v < Ranged =>
       /\ passThroughTimeRanges[v] = PassThrough(v, start[v])
       /\ v < VideoCount =>
            transitionTimeRanges[v] = [start |-> start[v + 1], duration |-> TransDuration]

\* Two instructions for each video, but one for the last.
InstructionsInv ==
  /\ instructions \in Seq([range : RangeType, layers : Seq({0, 1})])
  /\ Len(instructions) = IF Instructed > VideoCount THEN 2 * VideoCount - 1
                          ELSE 2 * (Instructed - 1)
  /\ \A v \in Video : v < Instructed =>
       /\ instructions[2 * v - 1] = Instruction(passThroughTimeRanges[v], <<TrackOf(v)>>)
       /\ v < VideoCount => instructions[2 * v] = Transition(v)

\* A short video makes the next ones come too early: into others, or before the start.
Laid(start) == LongEnough => RoomInv /\ TracksInv(start)

Timeline(start) == StartInv(start) /\ Laid(start) /\ RangesInv(start) /\ InstructionsInv

IInv == TypeInv /\ \E start \in [1 .. VideoCount + 1 -> Int] : Timeline(start)
================================================================================
