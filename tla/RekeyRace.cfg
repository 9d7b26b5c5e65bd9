\* A set that reads the recipient before a rekey commits and seals after it.
CONSTANTS
  Names = {db}
  EnvNames = {}
  Expiries = {}
  MaxVersion = 2
  MaxKey = 2
  Setters = {s1}
  Disablers = {}
  Deleters = {}
  Purgers = {}
  None = None
SPECIFICATION Spec
INVARIANT OneKey
