\* The same reader over two rotations.
CONSTANTS
  MaxKey = 3
  Passes = {"a"}
  None = None
  Husk = Husk
  Rekeyers = {r1}
  Passwders = {}
  Readers = {g1}
  Initers = {}
SPECIFICATION Spec
PROPERTY HealPromotesLiveKey
