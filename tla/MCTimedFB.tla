------------------------------ MODULE MCTimedFB ------------------------------
(* One timed block of each kind, for TLC.                                  *)
EXTENDS TimedFB, TLC

CONSTANTS cycle, delay, rdelay

MCKind == [f \in FB |-> CASE f = cycle -> "E_CYCLE"
                           [] f = delay -> "E_DELAY"
                           [] f = rdelay -> "E_RDELAY"]
=============================================================================
