\* Two controllers, three loops.
CONSTANTS
    Controllers = {h1, h2}
    MaxLoops = 3
SPECIFICATION Spec
INVARIANT HeldLoopPolls
INVARIANT NoOrphanLoop
INVARIANT DoneChannelSound
PROPERTY CancelledLoopEnds
CHECK_DEADLOCK FALSE
