------------------------------ MODULE FrameSource -----------------------------
(***************************************************************************)
(* The reader of one RTSP stream.  A capture that was open when its stream *)
(* broke reads nothing but still calls itself open; one that could not be  *)
(* opened is closed.  Reads are made all the time, at least one per tick:  *)
(* opens and reads block the event loop of the orchestrator for as long as *)
(* they last, so that a tick is longer than the longest of them takes.     *)
(***************************************************************************)
EXTENDS Integers

CONSTANTS ReconnectInterval, \* _RECONNECT_INTERVAL, in ticks
          FrameInterval,     \* 1 / fps, in ticks
          MaxFailed,         \* bound: _fail_count
          MaxTurns           \* bound: times the stream goes or comes

ASSUME SourceAssumption ==
  /\ ReconnectInterval \in Nat \ {0} /\ FrameInterval \in Nat
  /\ MaxFailed \in Nat /\ MaxTurns \in Nat

VARIABLES streamUp,
          cap,        \* _cap
          sinceTry,   \* ticks since _last_reconnect
          sinceFrame, \* ticks since _last_read
          failed,     \* _fail_count
          asked,      \* has it been read in this tick
          upFor,      \* history: ticks the stream has been up
          hungry,     \* history: ticks without a frame
          turns

sourceVars == <<streamUp, cap, sinceTry, sinceFrame, failed, asked, upFor, hungry, turns>>

Far == ReconnectInterval + FrameInterval + 2 \* ages are not counted further
Older(n) == IF n < Far THEN n + 1 ELSE Far
Captures == {"none", "good", "broken", "closed"}
Capture(up) == IF up THEN "good" ELSE "closed"
IsOpened(c) == c \in {"good", "broken"}

SourceInit ==
  /\ streamUp \in BOOLEAN /\ cap = "none"
  /\ sinceTry = Far /\ sinceFrame = Far /\ failed = 0 /\ asked = FALSE
  /\ upFor = 0 /\ hungry = 0 /\ turns = 0

\* The task of a camera gives up when open returns False.
OpenSource ==
  /\ cap = "none" /\ streamUp
  /\ cap' = "good" /\ failed' = 0 /\ sinceTry' = 0 /\ asked' = TRUE
  /\ upFor' = 0 /\ hungry' = 0
  /\ UNCHANGED <<streamUp, sinceFrame, turns>>

\* Mutant of TryReconnect: a call that comes too soon counts as a try.
TryReconnectAnew == /\ cap' = IF sinceTry < ReconnectInterval THEN cap ELSE Capture(streamUp)
                    /\ sinceTry' = 0

\* _try_reconnect
TryReconnect ==
  IF sinceTry < ReconnectInterval
    THEN UNCHANGED <<cap, sinceTry>>
    ELSE cap' = Capture(streamUp) /\ sinceTry' = 0

ReadClosed ==
  /\ cap = "closed" /\ TryReconnect
  /\ failed' = IF cap' = "good" THEN 0 ELSE failed
  /\ UNCHANGED <<sinceFrame, hungry>>

\* Between two samples frames are grabbed and dropped.
ReadTooSoon ==
  /\ IsOpened(cap) /\ sinceFrame < FrameInterval
  /\ UNCHANGED <<cap, sinceTry, sinceFrame, failed, hungry>>

ReadFails ==
  /\ cap = "broken" /\ sinceFrame >= FrameInterval /\ TryReconnect
  /\ failed' = IF cap' = "good" THEN 0 ELSE IF failed < MaxFailed THEN failed + 1 ELSE failed
  /\ UNCHANGED <<sinceFrame, hungry>>

ReadNext ==
  /\ cap = "good" /\ sinceFrame >= FrameInterval
  /\ failed' = 0 /\ sinceFrame' = 0 /\ hungry' = 0
  /\ UNCHANGED <<cap, sinceTry>>

Read ==
  /\ cap # "none"
  /\ ReadClosed \/ ReadTooSoon \/ ReadFails \/ ReadNext
  /\ asked' = TRUE
  /\ UNCHANGED <<streamUp, upFor, turns>>

\* The end of a task closes the source; another task makes its own.
CloseSource ==
  /\ cap # "none"
  /\ cap' = "none" /\ sinceTry' = Far /\ sinceFrame' = Far /\ failed' = 0
  /\ asked' = FALSE /\ hungry' = 0
  /\ UNCHANGED <<streamUp, upFor, turns>>

\* The camera, MediaMTX or the network.
StreamTurns ==
  /\ turns < MaxTurns
  /\ streamUp' = ~streamUp /\ turns' = turns + 1 /\ upFor' = 0
  /\ cap' = IF cap = "good" THEN "broken" ELSE cap
  /\ UNCHANGED <<sinceTry, sinceFrame, failed, asked, hungry>>

SourceTick ==
  /\ cap # "none" /\ asked
  /\ asked' = FALSE
  /\ sinceTry' = Older(sinceTry) /\ sinceFrame' = Older(sinceFrame)
  /\ upFor' = IF streamUp THEN Older(upFor) ELSE 0
  /\ hungry' = Older(hungry)
  /\ UNCHANGED <<streamUp, cap, failed, turns>>

SourceNext == OpenSource \/ Read \/ CloseSource \/ StreamTurns \/ SourceTick

SourceSpec == SourceInit /\ [][SourceNext]_sourceVars

-----------------------------------------------------------------------------
\* Type invariant.
SourceTypeOK ==
  /\ streamUp \in BOOLEAN /\ cap \in Captures /\ asked \in BOOLEAN
  /\ {sinceTry, sinceFrame, upFor, hungry} \subseteq 0..Far
  /\ failed \in 0..MaxFailed /\ turns \in 0..MaxTurns

\* Whatever the stream did before, once it has been up for the interval between two
\* tries, and one between two samples, there is a frame again.
FramesComeBack ==
  cap # "none" /\ upFor > ReconnectInterval + FrameInterval + 1 =>
    hungry <= ReconnectInterval + FrameInterval + 1
=============================================================================
