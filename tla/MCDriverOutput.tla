---------------------------- MODULE MCDriverOutput ----------------------------
(***************************************************************************)
(* DriverOutput instantiated for TLC.  One tick is one frame.  The ring     *)
(* buffer has the size Configure asks for, high water plus retention        *)
(* (min_rb_duration, lines 352-353); the fifo fits in the retention.        *)
(***************************************************************************)
EXTENDS DriverOutput

MCRbFrames          == 5
MCFifoFrames        == 2
MCHighWaterFrames   == 3
MCLowWaterFrames    == 1
MCUnderflowCooldown == 3
MCStartTime         == 1

\* The reference clock stops after MaxTime ticks.
MaxTime == 20

TimeBound == now <= MaxTime
=============================================================================
