\* Three instances, two model versions.
CONSTANTS
    i1 = i1
    i2 = i2
    i3 = i3
    v1 = v1
    v2 = v2
    Instances = {i1, i2, i3}
    Versions = {v1, v2}
    MODEL_VERSION <- RollingUpdate
SPECIFICATION FairSpec
INVARIANTS
    StartupInv
    RequestsFindTheModel
    UnregisteredOnlyAfterOutage
PROPERTIES
    ImplementsPlatform
    HealsItself
