SPECIFICATION Spec
CONSTANT MaxPipes = 9
INVARIANT TypeOK
INVARIANT ConfiguredIsReady
INVARIANT NoPipeLeaks
INVARIANT LedTells
INVARIANT DeviceNotAhead
PROPERTY CarefulGetsConfigured
PROPERTY OnlyResetHangs
