\* Every verb on one secret: versions, columns and recipients interact per secret.
CONSTANTS
  Names = {db}
  EnvNames = {e1, e2}
  Expiries = {x1}
  MaxVersion = 3
  MaxKey = 2
  Setters = {s1}
  Disablers = {d1}
  Deleters = {t1, t2}
  Purgers = {u1}
  None = None
SPECIFICATION Spec
SYMMETRY Symmetry
INVARIANTS TypeOK DestroyedErased Contiguous NewestBound
PROPERTIES AppendOnly TombstoneKept RekeyMovesAll Implements
