---------------------------- MODULE PairingOutcome ----------------------------
(***************************************************************************)
(* What PairingState promises its users, without the protocol: a link is   *)
(* Idle, Busy with one negotiation (which upper-layer callers may wait on), *)
(* or Failed.  A negotiation is concluded by one status that goes to the   *)
(* top-level status callback and to every caller waiting on it, each        *)
(* exactly once.  Failed is never left.  A caller that cannot wait is      *)
(* answered at once: NotReady (no PairingDelegate), or Canceled in Failed.  *)
(* Every step of PairingState that changes none of these is a stutter here. *)
(***************************************************************************)
EXTENDS Sequences

CONSTANTS
    Callers,   \* upper-layer callers
    Statuses   \* the statuses a negotiation may conclude with

VARIABLES
    phase,          \* "Idle", "Busy" or "Failed"
    waiters,        \* callers waiting on the current negotiation
    topSignals,     \* statuses given to the top-level status callback
    callerSignals   \* statuses given to each caller

Idle   == "Idle"
Busy   == "Busy"
Failed == "Failed"

Success  == "Success"
NotReady == "NotReady"
Canceled == "Canceled"

vars == <<phase, waiters, topSignals, callerSignals>>

Unanswered(c) == c \notin waiters /\ callerSignals[c] = <<>>

Init == /\ phase = Idle
        /\ waiters = {}
        /\ topSignals = <<>>
        /\ callerSignals = [c \in Callers |-> <<>>]

\* A negotiation starts from Idle: one caller initiates it, or the peer does
\* and nobody waits yet.
Begin(W) == /\ phase = Idle
            /\ \A c \in W : Unanswered(c)
            /\ phase' = Busy
            /\ waiters' = W
            /\ UNCHANGED <<topSignals, callerSignals>>

\* A caller coalesces onto the negotiation in progress.
Join(c) == /\ phase = Busy /\ Unanswered(c)
           /\ waiters' = waiters \cup {c}
           /\ UNCHANGED <<phase, topSignals, callerSignals>>

\* A caller is answered at once without waiting.
Refuse(c, status) ==
    /\ Unanswered(c)
    /\ status = NotReady \/ (status = Canceled /\ phase = Failed)
    /\ callerSignals' = [callerSignals EXCEPT ![c] = Append(@, status)]
    /\ UNCHANGED <<phase, waiters, topSignals>>

\* The negotiation (or a stray event outside one) is concluded with status:
\* every waiter hears it once, together with the top-level callback.  Only a
\* negotiation can end in Idle, and Success always does.
Conclude(status, next) ==
    /\ next \in {Idle, Failed}
    /\ next = Idle => phase = Busy
    /\ status = Success => next = Idle
    /\ topSignals' = Append(topSignals, status)
    /\ callerSignals' = [c \in Callers |->
                           IF c \in waiters THEN Append(callerSignals[c], status)
                           ELSE callerSignals[c]]
    /\ waiters' = {}
    /\ phase' = next

Next == \/ \E W \in {{}} \cup {{c} : c \in Callers} : Begin(W)
        \/ \E c \in Callers : Join(c)
        \/ \E c \in Callers, s \in {NotReady, Canceled} : Refuse(c, s)
        \/ \E s \in Statuses, n \in {Idle, Failed} :
              Conclude(s, n)

Spec == Init /\ [][Next]_vars

=============================================================================
