--------------------------- MODULE MCTableSession ----------------------------
(* Small universes of signed entries for TableSession. *)
EXTENDS TableSession

E(hash, dev, lam, prev) == [hash |-> hash, dev |-> dev, lam |-> lam, prev |-> prev]

Signers == [n \in Node |-> 1]

\* y dials x, and x dials the keeper.
Peers == [n \in Node |-> CASE n = "x" -> {"k"} [] n = "y" -> {"x"} [] OTHER -> {}]

\* session_sync: the keeper's own chain, two entries of which are signed, and a
\* second device that began its chain twice.
KeeperChain == {E(1, 1, 1, 0), E(2, 1, 2, 1), E(3, 1, 3, 2)}
Began       == E(11, 2, 0, 0)
BeganAgain  == E(12, 2, 0, 0)
Universe    == KeeperChain \cup {Began, BeganAgain}
SyncSigners == [n \in Node |-> IF n = Keeper THEN 1 ELSE 2]
SyncSeed ==
    [n \in Node |-> CASE n = "x" -> {Began}
                       [] n = "y" -> {BeganAgain}
                       [] OTHER -> {Began, E(1, 1, 1, 0), E(2, 1, 2, 1)}]

\* session_conflict: a chain of three, and another beginning at the time of the
\* third.
Line         == {E(11, 2, 0, 0), E(12, 2, 1, 11), E(13, 2, 2, 12)}
Other        == E(23, 2, 2, 0)
Conflicting  == Line \cup {Other}
ConflictSeed ==
    [n \in Node |-> CASE n = "y" -> {Other} [] n = "k" -> Line [] OTHER -> {}]
=============================================================================
