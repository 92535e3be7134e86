----------------------------- MODULE MCLifecycle -----------------------------
\* A device with two resources: one with an E_RESTART before another block, one
\* with a single block.
EXTENDS Lifecycle

CONSTANTS r1, r2, restart, b1, b2

MCResourceList == <<r1, r2>>
MCBlockList == [r \in {r1, r2} |-> IF r = r1 THEN <<restart, b1>> ELSE <<b2>>]
MCCommands ==
  ({"Start", "Stop", "Kill", "Reset"} \X (FBs \ {Mgr, b2})) \cup {<<"Delete", r1>>}
==============================================================================
