----------------------------- MODULE DriverOutput -----------------------------
(***************************************************************************)
(* The audio output driver state machine of                                 *)
(* src/media/audio/audio_core/driver_output.cc, with the mix loop of         *)
(* AudioOutput (audio_output.h) that drives it.                              *)
(*                                                                           *)
(* Lifecycle: Init -> OnWakeup -> OnDriverInfoFetched ->                     *)
(* OnDriverConfigComplete -> OnDriverStartComplete, each driver callback     *)
(* checked against state_; after Started the mix timer runs Process, which   *)
(* calls StartMixJob and FinishMixJob until StartMixJob returns nullopt.     *)
(*                                                                           *)
(* Time is measured in frames: the reference clock advances one tick per     *)
(* frame, so ref_clock_to_safe_wr_frame is t |-> FifoFrames + (t -           *)
(* StartTime), StartTime being the reference time at which the ring buffer   *)
(* started (OnDriverStartComplete sets frames_sent_ to FifoFrames +          *)
(* low_water_frames_, "the sum of the fifo frames and the low water frames", *)
(* lines 505-510).  Frame contents are abstracted to the number of the frame *)
(* the mixer produced, or Silence.                                           *)
(***************************************************************************)
EXTENDS Integers, Sequences, FiniteSetsExt, DriverRing

CONSTANTS
    FifoFrames,        \* driver()->fifo_depth_frames()
    HighWaterFrames,   \* kDefaultHighWaterNsec, in frames
    LowWaterFrames,    \* low_water_frames_ = rate.Scale(kDefaultLowWaterNsec)
    UnderflowCooldown, \* kUnderflowCooldown, in ticks
    StartTime          \* reference time at which the ring buffer started

ASSUME /\ {FifoFrames, LowWaterFrames, UnderflowCooldown} \subseteq Nat
       /\ HighWaterFrames \in Nat /\ LowWaterFrames < HighWaterFrames
       \* zx::time(0) means "no underflow" (line 139), so real times are positive.
       /\ StartTime \in Nat \ {0}

\* DriverOutput::State
Uninitialized   == "Uninitialized"
FormatsUnknown  == "FormatsUnknown"
FetchingFormats == "FetchingFormats"
Configuring     == "Configuring"
Starting        == "Starting"
Started         == "Started"
Shutdown        == "Shutdown"
States == {Uninitialized, FormatsUnknown, FetchingFormats, Configuring,
           Starting, Started, Shutdown}

VARIABLES
    state,            \* state_
    now,              \* the reference clock
    framesSent,       \* frames_sent_
    underflowStart,   \* underflow_start_time_ (0: not in an underflow)
    cooldownDeadline, \* underflow_cooldown_deadline_
    nextSched,        \* next_sched_time_mono_
    timerArmed,       \* mix_timer_ is posted
    processing,       \* AudioOutput::Process is running its mix loop
    job,              \* <<span>> between StartMixJob and FinishMixJob, else <<>>
    ring              \* the ring buffer's frames, by slot

vars == <<state, now, framesSent, underflowStart, cooldownDeadline, nextSched,
          timerArmed, processing, job, ring>>

\* ref_clock_to_safe_wr_frame.Apply and .ApplyInverse
SafeWrFrame(t) == FifoFrames + (t - StartTime)
SafeWrTime(f)  == f - FifoFrames + StartTime

\* ScheduleNextLowWaterWakeup followed by SetNextSchedTime, for frames_sent_ = sent.
\* AudioOutput::SetNextSchedTime: mark the output to be mixed at time t.
SetNextSchedTime(t) == nextSched' = t

ScheduleNextLowWaterWakeup(sent) == SetNextSchedTime(SafeWrTime(sent - LowWaterFrames))

\* frames_to_mix = min(rb_space, desired_frames).  rb_space is a uint32_t: a
\* negative difference wraps to at least 2^31, above any desired_frames that
\* passed the rb.frames() check, so the minimum is then desired_frames.
FramesToMix(rbSpace, desired) ==
    IF rbSpace < 0 THEN desired ELSE Min({rbSpace, desired})

\* Line 138: the DMA may have read every frame sent so far.  (Its mutant
\* compares the frames already transmitted instead of the frames consumed.)
UnderflowedUsingTransmitted(consumed, sent) == consumed - FifoFrames >= sent
Underflowed(consumed, sent) == consumed >= sent

\* Lines 162-164: the first underflow of a cooldown fills the whole ring
\* with silence.  (Its mutant leaves the ring alone.)
RingOnUnderflowUnsilenced(first) == ring
RingOnUnderflow(first) == IF first THEN AllSilence ELSE ring

\* Lines 207-210: woke up too early to have any work to do.  (Its mutant
\* drops the early return.)
WokeTooEarlyNever(desired) == FALSE
WokeTooEarly(desired) == desired = 0

\* The lengths FinishMixJob may be called with for the span StartMixJob
\* returned (audio_output.h): a muted span comes back whole; a mixed one at
\* most as long, shorter when the pipeline cannot fill one buffer with it.
FinishedSpanLengths(span) ==
    IF span.is_mute \/ span.length = 0 THEN {span.length} ELSE 1..span.length

\* StartMixJob mixes only in Started; in any other state it shuts the output
\* down and returns nullopt.  (Variant: the state check is dropped.)
MixStateOkAlways(st) == TRUE
MixStateOk(st) == st = Started

\* Process leaves its mix loop and posts mix_timer_ for next_sched_time_mono_.
EndProcess == /\ processing' = FALSE
              /\ timerArmed' = TRUE

-----------------------------------------------------------------------------

Init == /\ state = Uninitialized
        /\ now = StartTime
        /\ framesSent = 0
        /\ underflowStart = 0
        /\ cooldownDeadline = 0
        /\ nextSched = 0
        /\ timerArmed = FALSE
        /\ processing = FALSE
        /\ job = <<>>
        /\ ring = [s \in Slots |-> Garbage]

\* Every handler runs on the mix domain, so none starts while Process runs.
Idle == ~processing

\* DriverOutput::Init succeeding (a failing Init leaves the object unused).
DriverInit == /\ Idle /\ state = Uninitialized
              /\ state' = FormatsUnknown
              /\ UNCHANGED <<now, framesSent, underflowStart, cooldownDeadline,
                             nextSched, timerArmed, processing, job, ring>>

\* OnWakeup in FormatsUnknown requests the driver info; in any other state it
\* returns without a change.
OnWakeup == /\ Idle /\ state = FormatsUnknown
            /\ state' = FetchingFormats
            /\ UNCHANGED <<now, framesSent, underflowStart, cooldownDeadline,
                           nextSched, timerArmed, processing, job, ring>>

\* OnDriverInfoFetched.  The deferred cleanup is armed before the state check,
\* so an unexpected call shuts the output down; in FetchingFormats, format
\* selection, Format::Create, OutputProducer::Select or Configure may fail
\* (ok = FALSE), all of which return through the cleanup.
OnDriverInfoFetched ==
    /\ Idle /\ state # Uninitialized
    /\ \/ state # FetchingFormats /\ state' = Shutdown
       \/ state = FetchingFormats /\ \E ok \in BOOLEAN :
              state' = IF ok THEN Configuring ELSE Shutdown
    /\ UNCHANGED <<now, framesSent, underflowStart, cooldownDeadline,
                   nextSched, timerArmed, processing, job, ring>>

\* OnDriverConfigComplete: the same deferred cleanup; in Configuring the ring
\* is filled with silence before Start and SetPlugDetectEnabled, either of
\* which may fail.
OnDriverConfigComplete ==
    /\ Idle /\ state # Uninitialized
    /\ \/ /\ state # Configuring
          /\ state' = Shutdown
          /\ UNCHANGED ring
       \/ /\ state = Configuring
          /\ ring' = AllSilence
          /\ \E ok \in BOOLEAN : state' = IF ok THEN Starting ELSE Shutdown
    /\ UNCHANGED <<now, framesSent, underflowStart, cooldownDeadline,
                   nextSched, timerArmed, processing, job>>

\* OnDriverStartComplete in Starting: frames_sent_ starts at the fifo depth
\* plus the low-water mark, the state becomes Started and Process() runs.
\* (In any other state it returns without a change.)
OnDriverStartComplete ==
    /\ Idle /\ state = Starting
    /\ state' = Started
    /\ framesSent' = FifoFrames + LowWaterFrames
    /\ processing' = TRUE
    /\ UNCHANGED <<now, underflowStart, cooldownDeadline, nextSched,
                   timerArmed, job, ring>>

\* AudioOutput::MixTimerThunk: the posted mix timer fires, at or after the
\* scheduled time, and runs Process.
MixTimerThunk ==
    /\ Idle /\ timerArmed /\ now >= nextSched
    /\ timerArmed' = FALSE
    /\ processing' = TRUE
    /\ UNCHANGED <<state, now, framesSent, underflowStart, cooldownDeadline,
                   nextSched, job, ring>>

\* DriverOutput::StartMixJob(now), called from Process's loop.
StartMixJob ==
    /\ processing /\ job = <<>>
    /\ \/ /\ ~MixStateOk(state)
          /\ state' = Shutdown
          /\ EndProcess
          /\ UNCHANGED <<framesSent, underflowStart, cooldownDeadline,
                         nextSched, job, ring>>
       \/ /\ MixStateOk(state)
          /\ UNCHANGED state
          /\ LET consumed    == SafeWrFrame(now)
                 transmitted == consumed - FifoFrames
                 underflow   == Underflowed(consumed, framesSent)
                 first       == underflow /\ underflowStart = 0
                 startU      == IF first THEN now ELSE underflowStart
                 deadline    == IF underflow THEN now + UnderflowCooldown
                                ELSE cooldownDeadline
                 fillTarget  == SafeWrFrame(now + HighWaterFrames)
                 desired     == fillTarget - framesSent
                 rbSpace     == RbFrames - (framesSent - transmitted)
             IN /\ ring' = RingOnUnderflow(first)
                /\ \/ \* still cooling down: pretend the frames were produced
                      /\ startU # 0 /\ now < deadline
                      /\ underflowStart' = startU
                      /\ cooldownDeadline' = deadline
                      /\ framesSent' = fillTarget
                      /\ ScheduleNextLowWaterWakeup(fillTarget)
                      /\ EndProcess
                      /\ UNCHANGED job
                   \/ \* not in a cooldown, or recovered from it
                      /\ startU = 0 \/ now >= deadline
                      /\ underflowStart' = 0
                      /\ cooldownDeadline' = 0
                      /\ UNCHANGED <<framesSent, nextSched>>
                      /\ IF WokeTooEarly(desired) \/ desired > RbFrames
                         THEN EndProcess /\ UNCHANGED job
                         ELSE /\ \E muted \in BOOLEAN :
                                   job' = <<[start |-> framesSent,
                                             length |-> FramesToMix(rbSpace, desired),
                                             is_mute |-> muted]>>
                              /\ UNCHANGED <<processing, timerArmed>>
    /\ UNCHANGED now

\* DriverOutput::FinishMixJob with the span StartMixJob returned, shortened
\* by the pipeline when it cannot produce all of it in one buffer
\* (audio_output.h): silence or the mix is written to the ring, frames_sent_
\* advances, and the next low-water wakeup is scheduled.
FinishMixJob ==
    /\ processing /\ job # <<>>
    /\ LET span == job[1]
       IN \E len \in FinishedSpanLengths(span) :
            /\ ring' = WriteToRing(ring, span, len, 0)
            /\ framesSent' = framesSent + len
            /\ ScheduleNextLowWaterWakeup(framesSent + len)
    /\ job' = <<>>
    /\ UNCHANGED <<state, now, underflowStart, cooldownDeadline, timerArmed,
                   processing>>

\* The reference clock advances while the output runs; the mix timer may
\* fire late.
Tick == /\ Idle /\ state = Started
        /\ now' = now + 1
        /\ UNCHANGED <<state, framesSent, underflowStart, cooldownDeadline,
                       nextSched, timerArmed, processing, job, ring>>

Next == \/ DriverInit
        \/ OnWakeup
        \/ OnDriverInfoFetched
        \/ OnDriverConfigComplete
        \/ OnDriverStartComplete
        \/ MixTimerThunk
        \/ StartMixJob
        \/ FinishMixJob
        \/ Tick

Spec == Init /\ [][Next]_vars

\* Process runs its loop on the mix domain with nothing interleaved, so its
\* steps are taken as long as they are enabled.
Fairness == WF_vars(StartMixJob) /\ WF_vars(FinishMixJob)

FairSpec == Spec /\ Fairness

-----------------------------------------------------------------------------

\* The frames the DMA has not yet transmitted, [output_frames_transmitted,
\* frames_sent_), hold what the mixer produced for exactly those positions,
\* or silence: never garbage and never a frame of an earlier lap of the
\* ring.  It rests on the wrap arithmetic of WriteToRing, on the rb_space
\* limit of StartMixJob, on the silence filled at the first underflow and
\* when the ring is configured, and on frames_sent_ jumping ahead during the
\* underflow cooldown.
NoStaleAudio ==
    state = Started =>
        \A p \in (SafeWrFrame(now) - FifoFrames)..(framesSent - 1) :
            ring[p % RbFrames] \in {p, Silence}

\* A span handed to FinishMixJob never starts behind the safe write
\* position, so the mix never writes frames the DMA may already have read:
\* StartMixJob's underflow check, cooldown and recovery must leave
\* frames_sent_ ahead of output_frames_consumed whenever it returns a span.
NeverWriteBehindDma ==
    job # <<>> => job[1].start >= SafeWrFrame(now)

\* Process's mix loop always returns: StartMixJob eventually answers
\* nullopt, either because the fill target is reached (desired_frames = 0)
\* or because of a cooldown.  It rests on every span advancing frames_sent_,
\* which needs rb_space > 0 whenever frames are desired, that is a ring of at
\* least the high-water mark plus the fifo depth.
ProcessTerminates == processing ~> ~processing

\* Shutdown is final and inert: no step leaves it, and none writes the ring
\* or advances frames_sent_ after it.  A stray or duplicate driver reply
\* shuts a Started output down (the deferred cleanup of OnDriverInfoFetched
\* and OnDriverConfigComplete) while mix_timer_ is still posted; the timer
\* then runs Process, and only StartMixJob's state check keeps the mix out
\* of a ring the driver is tearing down.
ShutdownIsFinal ==
    [][state = Shutdown =>
         /\ state' = Shutdown
         /\ ring' = ring
         /\ framesSent' = framesSent]_vars

=============================================================================
