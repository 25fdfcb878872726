CONSTANT MaxScanned = 6
SPECIFICATION WalkSpec
INVARIANT ScanFindsOutermost
PROPERTY ForkStaysInSection
