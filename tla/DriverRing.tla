------------------------------ MODULE DriverRing ------------------------------
(***************************************************************************)
(* The ring buffer of an audio output (driver_output.cc) and the write loop *)
(* DriverOutput::WriteToRing that copies a span of frames into it,          *)
(* splitting the span where it wraps past the end of the ring.  A slot      *)
(* holds the number of the frame last written to it, or Silence.            *)
(***************************************************************************)
EXTENDS Integers, FiniteSetsExt

CONSTANT RbFrames   \* rb.frames(): ring buffer size in frames

ASSUME RbFrames \in Nat \ {0}

\* Contents of a ring buffer slot: a frame number, silence, or whatever the
\* driver's fresh VMO held before the first FillWithSilence.
Silence == -1
Garbage == -2
Slots == 0..(RbFrames - 1)

\* AudioOutput::FrameSpan
Spans == [start : Int, length : Nat, is_mute : BOOLEAN]

\* The frame the writer callback stores for frame offset k of span: silence
\* (FillRingSpanWithSilence) or the mixer's output (ProduceOutput).
FrameAt(span, k) == IF span.is_mute THEN Silence ELSE span.start + k

\* output_producer_->FillWithSilence over the whole ring buffer.
AllSilence == [s \in Slots |-> Silence]

\* WriteToRing with the contiguous space one frame too large, a plausible
\* off-by-one in the wrap (its mutant).
RECURSIVE WriteToRingPastEnd(_, _, _, _)
WriteToRingPastEnd(rb, span, frames_left, offset) ==
    IF frames_left = 0 THEN rb
    ELSE LET wr_ptr  == (span.start + offset) % RbFrames
             to_send == Min({frames_left, RbFrames - wr_ptr + 1})
         IN WriteToRingPastEnd([s \in DOMAIN rb |->
                                  IF wr_ptr <= s /\ s < wr_ptr + to_send
                                  THEN FrameAt(span, offset + s - wr_ptr)
                                  ELSE rb[s]],
                               span, frames_left - to_send, offset + to_send)

\* DriverOutput::WriteToRing: the wrap loop, one recursive call per
\* contiguous chunk [wr_ptr, wr_ptr + to_send), each handed to the writer.
RECURSIVE WriteToRing(_, _, _, _)
WriteToRing(rb, span, frames_left, offset) ==
    IF frames_left = 0 THEN rb
    ELSE LET wr_ptr  == (span.start + offset) % RbFrames
             to_send == Min({frames_left, RbFrames - wr_ptr})
         IN WriteToRing([s \in DOMAIN rb |->
                           IF wr_ptr <= s /\ s < wr_ptr + to_send
                           THEN FrameAt(span, offset + s - wr_ptr)
                           ELSE rb[s]],
                        span, frames_left - to_send, offset + to_send)

=============================================================================
