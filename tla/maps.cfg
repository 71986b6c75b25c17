SPECIFICATION Spec
CONSTANTS
    Varying <- MCVarying
    MaxLosses <- MCLosses
INVARIANTS
    EffectsTouchLiveStyle
    LayersAreWhatIsAsked
PROPERTIES
    MapComesBack
CHECK_DEADLOCK FALSE
