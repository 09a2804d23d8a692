---------------------------- MODULE ProjectionLog ----------------------------
(***************************************************************************)
(* What the broker's Attention projection promises: the changes it queues  *)
(* take effect in the inbox in the order in which they were queued, each   *)
(* of them once, and what the broker was told has taken effect is never    *)
(* lost again.  What it was not told yet may be, and is then applied again *)
(* from the same place in the log.                                         *)
(***************************************************************************)
EXTENDS Naturals, Sequences

CONSTANT Changes    \* the transitions that can be queued

VARIABLES
    log,        \* the changes queued so far, oldest first
    applied,    \* how many of them the inbox shows
    told        \* how many the broker knows to be applied for good

logVars == <<log, applied, told>>

LogInit == log = <<>> /\ applied = 0 /\ told = 0

Queue == \E c \in Changes : log' = Append(log, c) /\ UNCHANGED <<applied, told>>

Apply ==
    /\ applied < Len(log)
    /\ applied' = applied + 1
    /\ UNCHANGED <<log, told>>

Tell ==
    /\ told < applied
    /\ told' = told + 1
    /\ UNCHANGED <<log, applied>>

\* A loss of power: the inbox falls back no further than what was told, the
\* broker may forget that it was told.
Forget ==
    /\ applied' \in told..applied
    /\ told' \in 0..told
    /\ UNCHANGED log

LogNext == Queue \/ Apply \/ Tell \/ Forget

LogSpec == LogInit /\ [][LogNext]_logVars
=============================================================================
