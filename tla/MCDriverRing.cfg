CONSTANT RbFrames <- MCRbFrames
SPECIFICATION Spec
INVARIANT WriteToRingMatchesReference
