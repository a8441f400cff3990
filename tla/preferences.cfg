CONSTANTS
  Fields = {theme, accent}
  Values = {x, y}
  Default = x
  Devices = {laptop, phone}
  Nothing = Nothing
  Slots = {s1, s2}
SPECIFICATION Spec
SYMMETRY Symmetry
INVARIANT TypeOK
INVARIANT LastChoiceStored
