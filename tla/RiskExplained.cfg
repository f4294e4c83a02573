CONSTANT Grain = 4
SPECIFICATION Sweep
INVARIANT StoredProbabilityExplainsDecision
