SPECIFICATION Spec
CONSTANTS
  Window = 4
  LongPress = 6
  Slow = {2}
  BlockTicks = 8
  MaxKeys = 4
  MaxRaises = 2
INVARIANT TypeOK
INVARIANT GesturesAreTyped
INVARIANT PressesConserved
PROPERTY PendingIsHandled
