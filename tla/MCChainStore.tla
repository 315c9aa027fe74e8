---------------------------- MODULE MCChainStore ----------------------------
(* Small universes of signed entries for ChainStore. *)
EXTENDS ChainStore, Integers

E(hash, dev, lam, prev) == [hash |-> hash, dev |-> dev, lam |-> lam, prev |-> prev]

\* Every entry the local device could sign at Lamport times 0..2: the hash is
\* the set of times on its chain, as a bit mask.
LocalEntries ==
    {E(1, "l", 0, 0), E(2, "l", 1, 0), E(3, "l", 1, 1), E(4, "l", 2, 0),
     E(5, "l", 2, 1), E(6, "l", 2, 2), E(7, "l", 2, 3)}

\* A peer's chain 11-12-13, honest.
PeerChain == {E(11, "a", 0, 0), E(12, "a", 1, 11), E(13, "a", 2, 12)}

\* The same chain, long enough for a floor, a root past it and a later tip.
PeerChainLong == PeerChain \cup {E(14, "a", 3, 13)}

\* A peer's chain 11-12-13 that was also signed differently after 11, at a
\* later time (22) and at the same time (21), and an entry (23) that cites
\* the local device's chain.
ForkedPeer == {E(11, "a", 0, 0), E(12, "a", 1, 11), E(13, "a", 2, 12),
               E(21, "a", 1, 11), E(22, "a", 2, 11)}
ForeignCitation == {E(23, "a", 2, 1)}

\* The smallest universe in which a parked sibling outlives the entry adopted
\* or restored in its place: 12 and 22 both follow 11, and 22 is later.
HangUniverse == {E(11, "a", 0, 0), E(12, "a", 1, 11), E(22, "a", 2, 11)}

HonestUniverse == LocalEntries \cup PeerChain
ForkedUniverse == {E(1, "l", 0, 0), E(3, "l", 1, 1)} \cup ForkedPeer \cup ForeignCitation

\* The peer is removed; and the account's log is folded without the removal.
PeerLeaves == [writers |-> {"l"}, removedAt |-> [d \in Device |-> IF d = "a" THEN 1 ELSE 0]]
PeerStays == [writers |-> {"l", "a"}, removedAt |-> [d \in Device |-> 0]]

Leaving == {PeerLeaves}
Changing == {PeerLeaves, PeerStays}
=============================================================================
