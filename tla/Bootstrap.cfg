\* Two inits and a reader; up to four keys, so each init can retry.
CONSTANTS
  MaxKey = 4
  Passes = {"a"}
  None = None
  Husk = Husk
  Rekeyers = {}
  Passwders = {}
  Readers = {g1}
  Initers = {i1, i2}
SPECIFICATION Spec
INVARIANT InitReportsPair
PROPERTY InitRemovesOnlyOwn
