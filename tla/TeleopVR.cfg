SPECIFICATION Spec
CONSTANTS
  None = None
  left = left
  right = right
  Hands = {left, right}
  Held <- HeldOf
  Buttons = right
  Circle = 4
  Limit = 1
INVARIANT TypeOK
PROPERTY ArmFollowsHand
