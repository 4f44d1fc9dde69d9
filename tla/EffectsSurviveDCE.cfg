SPECIFICATION Spec
CONSTANTS
    Versions <- MCVersions
    FrameSizes <- MCFrameSizes
    Argcs <- MCArgcs
    total_insns = 4
INVARIANT EffectsSurviveDCE
CHECK_DEADLOCK FALSE
