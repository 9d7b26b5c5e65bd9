\* One secret with two versions, one rekey, and two migrates.
CONSTANTS
  plain = plain
  broken = broken
  None = None
  Names = {db}
  EnvNames <- MCEnvNames
  Expiries = {}
  MaxVersion = 2
  MaxKey = 2
  Setters = {s1}
  Disablers = {}
  Deleters = {}
  Purgers = {u1}
  Rekeyers = {u1}
  Migrators = {m1, m2}
  Persistent = {m1}
  Multiline <- MCMultiline
  Clean <- MCClean
SPECIFICATION FairMigrationSpec
INVARIANTS MigrationTypeOK NewestReadable SilentMeansScrubbed NeverOvertaken
PROPERTIES MigratedWhole Implements Migrates
