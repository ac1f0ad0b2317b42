CONSTANT MaxCopies = 5
SPECIFICATION Spec
INVARIANT CombineIsPairing NeverBelowACopy IdentifiedVolumeReachesTarget
PROPERTY CombineIsMonotone
