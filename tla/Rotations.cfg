\* Three rotations in a row; the fourth key bounds the run.
CONSTANTS
  MaxKey = 4
  Passes = {"a"}
  None = None
  Husk = Husk
  Rekeyers = {r1, r2}
  Passwders = {}
  Readers = {}
  Initers = {}
SPECIFICATION FairSpec
INVARIANT DurableKey
PROPERTIES HealPromotesLiveKey Recovers
