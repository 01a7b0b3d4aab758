----------------------------- MODULE MCDriverRing -----------------------------
(***************************************************************************)
(* WriteToRing checked against a reference: every span StartMixJob can     *)
(* return (length at most rb.frames(), any start, muted or not), written    *)
(* into a ring of garbage.                                                  *)
(***************************************************************************)
EXTENDS DriverRing

MCRbFrames == 5

\* Span starts cover two laps of the ring and one slot more.
MaxStart == 2 * RbFrames + 1

VARIABLE span

Init == span \in [start : 0..MaxStart, length : 0..RbFrames, is_mute : BOOLEAN]
Next == UNCHANGED span
Spec == Init /\ [][Next]_span

Fresh == [s \in Slots |-> Garbage]

\* Frame k of the span belongs in slot (start + k) mod rb.frames().
RingReference(rb, sp) ==
    [s \in DOMAIN rb |->
        IF \E k \in 0..(sp.length - 1) : (sp.start + k) % RbFrames = s
        THEN FrameAt(sp, CHOOSE k \in 0..(sp.length - 1) :
                                (sp.start + k) % RbFrames = s)
        ELSE rb[s]]

\* WriteToRing stores every frame of a span of at most rb.frames() frames at
\* its position modulo the ring size and leaves every other slot alone: the
\* split into contiguous chunks at the ring's end neither drops, duplicates
\* nor shifts a frame.
WriteToRingMatchesReference ==
    WriteToRing(Fresh, span, span.length, 0) = RingReference(Fresh, span)

=============================================================================
