---------------------------- MODULE MCSecretInput ----------------------------
(* An instance of the secret input for TLC: integers of five bits and       *)
(* chunks of one, so that a buffer has 1, 3, 7 or 15 cells and cannot grow  *)
(* past that.                                                               *)
EXTENDS SecretInput

CONSTANTS p, q, nl, secretKey, row, other, token, t0, word

MCAddresses == {row, other}
MCEnvNames == {token}
MCExpiries == {t0}
MCTexts == {word}

Word == [kind |-> "text", of |-> word]
Lookalikes == {Word, Blank, Tag, AddressLine(row), EnvLine(token)}

\* One or two lines of any kind.
MCValues == [1..1 -> Lookalikes] \cup [1..2 -> Lookalikes]

MCItems == Line \cup {p, q, nl, secretKey}
MCIdentity == <<secretKey, nl>>
MCFiles == {<<>>, <<nl>>, <<p>>, <<p, q, nl, nl>>, [i \in 1..15 |-> p]}
MCLines == {<<nl>>, <<p, nl>>, <<q, p>>, <<q, p, p, p, nl>>}

Bare == [env |-> None, expires |-> None]
Full2 == [env |-> token, expires |-> t0]
MCBlobs == {s \in [address : MCAddresses, legacy : BOOLEAN, bound : {Bare, Full2}, value : MCValues] :
              s.legacy => s.bound = Bare}
=============================================================================
