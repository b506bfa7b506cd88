\* Three callers, two of whom may decide, and histories long enough for a
\* second round and for two callers to take the same step.
SPECIFICATION Spec
CONSTANTS
    Actors = {a1, a2, a3}
    Approvers = {a1, a2}
    Nobody = Nobody
    MaxCheckpoints = 7
SYMMETRY Symmetric
INVARIANTS ClosedIsJustified DecisionsAreRecorded ResumeExtendsWhatItRead
PROPERTIES DecisionIsFinal
