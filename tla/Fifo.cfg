SPECIFICATION Spec
CONSTANTS
  Value = {a, b}
  Zero = zero
  Capacity = 2
  TypeSize = 4
  MaxN = 3
  Setups <- MCSetups
INVARIANT TypeOK
INVARIANT CallsUndisturbed
INVARIANT CountIsSafe
PROPERTY ImplementsQueue
SYMMETRY ValueSymmetry
