\* One model version; the counterexample needs one instance.
CONSTANTS
    i1 = i1
    i2 = i2
    i3 = i3
    v1 = v1
    v2 = v2
    Instances = {i1, i2}
    Versions = {v1}
    MODEL_VERSION <- SameVersion
SPECIFICATION Spec
INVARIANT ReadyMeansScorable
