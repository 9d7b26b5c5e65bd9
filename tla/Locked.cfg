\* Two rekeys and a passwd, every failure, no reader without the lock.
CONSTANTS
  MaxKey = 2
  Passes = {"a", "b"}
  None = None
  Husk = Husk
  Rekeyers = {r1, r2}
  Passwders = {w1}
  Readers = {}
  Initers = {}
SPECIFICATION Spec
SYMMETRY Symmetry
INVARIANTS TypeOK DurableKey AdviceIsSound CarriesPassphrase
PROPERTY KeepsLiveIdentity
