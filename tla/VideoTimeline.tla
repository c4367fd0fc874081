----------------------------- MODULE VideoTimeline -----------------------------
(***************************************************************************)
(* CombinateVideo's ViewController: the videos are laid on two tracks in   *)
(* turn, each overlapping the one before by a transition (combinateVideo,  *)
(* on a background queue); the time ranges of the instructions are then    *)
(* computed a second time, from the durations alone, and turned into       *)
(* instructions (videoCompo and buildVideoCompositionAndInstructions, on   *)
(* the main queue).  Nothing but arithmetic ties the two together.         *)
(*                                                                         *)
(* Time is counted in ticks; a CMTimeRange is [start, duration].           *)
(***************************************************************************)
EXTENDS Integers, Sequences

CONSTANTS VideoCount,     \* the videos: three are in the bundle
          Durations,      \* the durations a video may have
          TransDuration   \* transDuration: two seconds

ASSUME CountAssumption == VideoCount \in Nat \ {0} /\ TransDuration \in Nat

\* A video may be shorter than its transitions: the code does not look.
ASSUME DurationAssumption == Durations \subseteq Nat

VARIABLES
  duration,               \* asset.duration of each video
  tracks,                 \* what each of the two tracks has at each tick: an
                          \* index into the videos, or Empty
  i,                      \* the loop variable
  cursorTime,
  passThroughTimeRanges,
  transitionTimeRanges,
  instructions,           \* the instructions, each with its range and layers
  pc                      \* "insert", "ranges", "instructions" or "done"

vars == <<duration, tracks, i, cursorTime, passThroughTimeRanges,
          transitionTimeRanges, instructions, pc>>

Video == 1 .. VideoCount
Empty == 0

\* The loops count from 0, and videos take tracks 0, 1, 0, 1, ...
TrackOf(v) == (v - 1) % 2

--------------------------------------------------------------------------------
(* combinateVideo *)

\* AVMutableCompositionTrack insertTimeRange: ofTrack: atTime: makes room in a
\* track that has something at that time, and fills up one that ends before.  It
\* fails for a time before the start, and the code passes error: nil.
InsertTimeRange(track, v, time) ==
  LET media == [n \in 1 .. duration[v] |-> v] IN
  IF time < 0 THEN track
  ELSE IF time <= Len(track)
  THEN SubSeq(track, 1, time) \o media \o SubSeq(track, time + 1, Len(track))
  ELSE track \o [n \in 1 .. time - Len(track) |-> Empty] \o media

\* Mutant: the videos follow each other without an overlap.
NextInsertApart == cursorTime + duration[i]

NextInsert == cursorTime + duration[i] - TransDuration

Insert ==
  /\ pc = "insert" /\ i \in Video
  /\ tracks' = [tracks EXCEPT ![TrackOf(i)] = InsertTimeRange(@, i, cursorTime)]
  /\ cursorTime' = NextInsert
  /\ i' = i + 1
  /\ UNCHANGED <<duration, passThroughTimeRanges, transitionTimeRanges, instructions, pc>>

\* dispatch_async to the main queue: the composition is complete.
Dispatch ==
  /\ pc = "insert" /\ i > VideoCount
  /\ pc' = "ranges" /\ i' = 1 /\ cursorTime' = 0
  /\ UNCHANGED <<duration, tracks, passThroughTimeRanges, transitionTimeRanges, instructions>>

--------------------------------------------------------------------------------
(* videoCompo *)

\* Mutant: the video does not wait for the transition before it.
PassThroughEarly(v, cursor) ==
  [start    |-> cursor,
   duration |-> duration[v] - (IF v > 1 THEN TransDuration ELSE 0)
                            - (IF v < VideoCount THEN TransDuration ELSE 0)]

\* A video alone: without the transition before it and the one after it.
PassThrough(v, cursor) ==
  [start    |-> cursor + (IF v > 1 THEN TransDuration ELSE 0),
   duration |-> duration[v] - (IF v > 1 THEN TransDuration ELSE 0)
                            - (IF v < VideoCount THEN TransDuration ELSE 0)]

Ranges ==
  LET cursor == cursorTime + duration[i] - TransDuration IN
  /\ pc = "ranges" /\ i \in Video
  /\ passThroughTimeRanges' = Append(passThroughTimeRanges, PassThrough(i, cursorTime))
  /\ transitionTimeRanges' =
       IF i < VideoCount
       THEN Append(transitionTimeRanges, [start |-> cursor, duration |-> TransDuration])
       ELSE transitionTimeRanges
  /\ cursorTime' = cursor
  /\ i' = i + 1
  /\ UNCHANGED <<duration, tracks, instructions, pc>>

Build ==
  /\ pc = "ranges" /\ i > VideoCount
  /\ pc' = "instructions" /\ i' = 1
  /\ UNCHANGED <<duration, tracks, cursorTime, passThroughTimeRanges,
                 transitionTimeRanges, instructions>>

--------------------------------------------------------------------------------
(* buildVideoCompositionAndInstructions *)

Instruction(range, layers) == [range |-> range, layers |-> layers]

\* The layers of a transition: the track going out, the track coming in.
Transition(v) ==
  Instruction(transitionTimeRanges[v], <<TrackOf(v), 1 - TrackOf(v)>>)

Instruct ==
  /\ pc = "instructions" /\ i \in DOMAIN passThroughTimeRanges
  /\ instructions' =
       Append(instructions, Instruction(passThroughTimeRanges[i], <<TrackOf(i)>>))
         \o (IF i \in DOMAIN transitionTimeRanges THEN <<Transition(i)>> ELSE <<>>)
  /\ i' = i + 1
  /\ UNCHANGED <<duration, tracks, cursorTime, passThroughTimeRanges,
                 transitionTimeRanges, pc>>

\* Mutant: the last video gets no instruction.
FinishEarly ==
  /\ pc = "instructions" /\ i + 1 \notin DOMAIN passThroughTimeRanges
  /\ pc' = "done"
  /\ UNCHANGED <<duration, tracks, i, cursorTime, passThroughTimeRanges,
                 transitionTimeRanges, instructions>>

Finish ==
  /\ pc = "instructions" /\ i \notin DOMAIN passThroughTimeRanges
  /\ pc' = "done"
  /\ UNCHANGED <<duration, tracks, i, cursorTime, passThroughTimeRanges,
                 transitionTimeRanges, instructions>>

Init ==
  /\ duration \in [Video -> Durations]
  /\ tracks = [k \in {0, 1} |-> <<>>]
  /\ i = 1 /\ cursorTime = 0
  /\ passThroughTimeRanges = <<>> /\ transitionTimeRanges = <<>> /\ instructions = <<>>
  /\ pc = "insert"

Next == Insert \/ Dispatch \/ Ranges \/ Build \/ Instruct \/ Finish

Spec == Init /\ [][Next]_vars

--------------------------------------------------------------------------------
(* Properties *)

End(range) == range.start + range.duration

\* The videos an instruction is for, in the order of its layers.
Shown(k) == IF k % 2 = 1 THEN <<(k + 1) \div 2>> ELSE <<k \div 2, k \div 2 + 1>>

\* v does not last as long as the transitions it takes part in.
TooShort(v) == duration[v] < (IF v > 1 THEN TransDuration ELSE 0)
                             + (IF v < VideoCount THEN TransDuration ELSE 0)

\* The range of each instruction so far starts where the one before ends, and they begin
\* with the composition: AVVideoComposition plays no gaps and no overlaps.  The range of a
\* video that is too short is negative, and the only one that is.
InstructionsTile ==
  \A k \in DOMAIN instructions :
    /\ instructions[k].range.start =
         (IF k = 1 THEN 0 ELSE End(instructions[k - 1].range))
    /\ instructions[k].range.duration < 0 <=> Len(Shown(k)) = 1 /\ TooShort(Shown(k)[1])

\* videoCompo could see that a video is short, from the ranges it computes.
RangesValid == \A v \in DOMAIN passThroughTimeRanges : passThroughTimeRanges[v].duration >= 0

\* buildVideoCompositionAndInstructions: at every tick of an instruction, the
\* track of each layer has the video the layer is for, if no range is negative.
LayersHaveMedia ==
  RangesValid =>
    \A k \in DOMAIN instructions : \A n \in DOMAIN Shown(k) :
      LET range == instructions[k].range
          track == tracks[instructions[k].layers[n]] IN
      \A tick \in range.start + 1 .. End(range) :
        tick \in DOMAIN track /\ track[tick] = Shown(k)[n]

\* When the video composition is handed to the player and to the exporter, no
\* tick of a video in a track is left without a layer that shows it, if no range is
\* negative.
EverythingShown ==
  pc = "done" /\ RangesValid =>
    \A t \in {0, 1} : \A tick \in DOMAIN tracks[t] :
      tracks[t][tick] # Empty =>
        \E k \in DOMAIN instructions :
          /\ tick > instructions[k].range.start /\ tick <= End(instructions[k].range)
          /\ \E n \in DOMAIN instructions[k].layers : instructions[k].layers[n] = t
================================================================================
