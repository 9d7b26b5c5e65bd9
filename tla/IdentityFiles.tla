---------------------------- MODULE IdentityFiles ----------------------------
(***************************************************************************)
(* The directory that holds the age identity file and its siblings, as     *)
(* the operating system shows it to processes and as a power loss may      *)
(* leave it.  The operations are the ones internal/identity and the rekey  *)
(* verb are written with: exclusive create, write followed by fsync,       *)
(* rename, remove, fsync of the directory.                                 *)
(***************************************************************************)
EXTENDS Naturals

CONSTANTS
  MaxKey,   \* Bound: how many age keys are ever generated.
  Passes,   \* The passphrases users type.
  None      \* No such file, no holder, nothing loaded.

Keys == 1..MaxKey

\* An identity file: the key in it, the passphrase that opens it, and
\* whether its bytes are all there.
Sealed == [key : Keys, pass : Passes, whole : BOOLEAN]

ASSUME FilesAssumption ==
  /\ MaxKey \in Nat \ {0}
  /\ Passes # {}
  /\ None \notin Sealed
  /\ None \notin Nat

\* identity.age, identity.age.new, identity.age.bak, identity.age.tmp.
Names == {"id", "new", "bak", "tmp"}

Directory == [Names -> Sealed \cup {None}]

VARIABLES
  files,    \* The directory every process sees.
  durable   \* The directories a power loss may leave behind.

fileVars == <<files, durable>>

FilesTypeOK ==
  /\ files \in Directory
  /\ durable \in SUBSET Directory
  /\ files \in durable

HoldsKey(dir, n, k) == dir[n] # None /\ dir[n].whole /\ dir[n].key = k

Torn(e) == [e EXCEPT !.whole = FALSE]

-----------------------------------------------------------------------------
(* Metadata reaches the disk in the order it was changed, so until the     *)
(* next fsync of the directory a power loss may stop after any prefix of   *)
(* the changes.                                                            *)

Mutate(dir) ==
  /\ files' = dir
  /\ durable' = durable \cup {dir}

Remove(n) == Mutate([files EXCEPT ![n] = None])

Rename(from, to) ==
  /\ files[from] # None
  /\ Mutate([files EXCEPT ![to] = files[from], ![from] = None])

\* open(O_CREATE|O_EXCL): the entry exists, its bytes do not.
CreateExclusive(n, e) ==
  /\ files[n] = None
  /\ Mutate([files EXCEPT ![n] = Torn(e)])

\* Write and fsync follow the descriptor: the bytes land in the file the
\* create made, under whatever name it has by now.
Filled(dir, e) == [n \in Names |-> IF dir[n] = Torn(e) THEN e ELSE dir[n]]

WriteAndSync(e) ==
  /\ files' = Filled(files, e)
  /\ durable' = {Filled(dir, e) : dir \in durable}

SyncDir ==
  /\ durable' = {files}
  /\ UNCHANGED files

LosePower ==
  \E dir \in durable : files' = dir /\ durable' = {dir}
=============================================================================
