SPECIFICATION Spec
CONSTANTS
    File = {"a.ks"}
    MaxArgs = 2
INVARIANT DebugImpliesCompile
