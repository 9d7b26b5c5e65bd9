\* A set between the two statements of a get; nothing is ever disabled.
CONSTANTS
  Names = {db}
  EnvNames = {e1}
  Expiries = {}
  MaxVersion = 2
  MaxKey = 2
  Setters = {s1}
  Disablers = {}
  Deleters = {}
  Purgers = {}
  Readers = {g1}
  None = None
SPECIFICATION ReadsSpec
INVARIANT TamperAlarmIsReal
