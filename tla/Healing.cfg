\* A reader heals without the lock; one rotation only (see StaleHeal).
CONSTANTS
  MaxKey = 2
  Passes = {"a"}
  None = None
  Husk = Husk
  Rekeyers = {r1}
  Passwders = {w1}
  Readers = {g1}
  Initers = {}
SPECIFICATION FairSpec
INVARIANTS DurableKey AdviceIsSound
PROPERTY Recovers
