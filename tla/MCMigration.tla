----------------------------- MODULE MCMigration -----------------------------
(* An instance of migrate and the verbs beside it for TLC.                  *)
EXTENDS Migration

CONSTANTS plain, broken

\* One env name the frame carries, and one with a newline at its end.
MCEnvNames == {plain, broken}
MCMultiline == {broken}
MCClean == [e \in MCEnvNames |-> plain]
=============================================================================
