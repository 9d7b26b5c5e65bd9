\* Every verb, with files and with prompts, and one envelope.
CONSTANTS
  p = p
  q = q
  nl = nl
  secretKey = secretKey
  row = row
  other = other
  token = token
  t0 = t0
  word = word
  None = None
  Addresses <- MCAddresses
  EnvNames <- MCEnvNames
  Expiries <- MCExpiries
  Texts <- MCTexts
  Values <- MCValues
  Items <- MCItems
  Newline = nl
  Zero = Zero
  Scratch = Scratch
  Chunk = 1
  LineChunk = 1
  Half = 16
  Lines <- MCLines
  Files <- MCFiles
  Identity <- MCIdentity
  Blobs <- MCBlobs
  Row = row
SPECIFICATION InputSpec
INVARIANTS InputTypeOK NothingLeft ReadsWhole OpenInvertsSeal TerminalRestored TypedInSilence
\* A process ends.
CHECK_DEADLOCK FALSE
