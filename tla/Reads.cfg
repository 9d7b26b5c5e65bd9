\* One reader of any verb beside set, disable, delete and rekey.
CONSTANTS
  Names = {db}
  EnvNames = {e1}
  Expiries = {}
  MaxVersion = 2
  MaxKey = 2
  Setters = {s1}
  Disablers = {d1}
  Deleters = {t1}
  Purgers = {u1}
  Readers = {g1}
  None = None
SPECIFICATION ReadsSpec
INVARIANTS ReadsTypeOK DeliversLive SkipsAreReal OpenFailureExplained
