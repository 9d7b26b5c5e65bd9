\* An init in the swap window of a rekey.
CONSTANTS
  MaxKey = 3
  Passes = {"a"}
  None = None
  Husk = Husk
  Rekeyers = {r1}
  Passwders = {}
  Readers = {}
  Initers = {i1}
SPECIFICATION Spec
PROPERTY InitRemovesOnlyOwn
