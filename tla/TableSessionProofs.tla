------------------------- MODULE TableSessionProofs -------------------------
(***************************************************************************)
(* What sessions keep of every store (SessionInv) and what a round reports *)
(* (OwedIsPending, QuietIsConverged), for every number of stores, every    *)
(* universe of entries that SigningAssumption allows, and every cap.  A    *)
(* promise travels in an inventory, is read again at each entry and may be *)
(* recorded long after the chain it speaks of has moved; an honest chain   *)
(* is a line, so that whatever is promoted past a promised tip has passed  *)
(* through it.  A round that moved nothing has met every chain of both     *)
(* stores.  Where the chains and their times fit (SessionsFit), no session *)
(* fails (NoSessionError).                                                 *)
(***************************************************************************)
EXTENDS TableSession, TableChainProofs, FiniteSetTheorems, SequenceTheorems

-----------------------------------------------------------------------------
(* The inductive invariant *)

\* The cursor is that of an entry somebody signed on d's chain.
Signed(d, c) == \E x \in Entry : x.dev = d /\ CursorOf(x) = c

\* What a store keeps: the chain layer's invariant; a floor is not past its
\* chain; witnesses and promised tips are entries somebody signed; where a
\* suffix is owed there is a witness, and on an honest chain it has not
\* reached the promised tip.
StoreKept(s) ==
    /\ StoreInv(s)
    /\ IsFiniteSet(s.accepted) /\ IsFiniteSet(s.gapped)
    /\ \A d \in Device :
          /\ s.floor[d] # NoCursor => Chain(s, d) # {} /\ s.floor[d].lam <= s.tip[d].lam
          /\ s.tip[d] # NoCursor => Signed(d, s.tip[d])
          /\ s.cover[d] # NoObligation => s.tip[d] # NoCursor /\ Signed(d, s.cover[d].tip)
          /\ d \in Honest /\ s.cover[d] # NoObligation => s.tip[d].lam < s.cover[d].tip.lam

\* The frames, and what they carry.
HeadType == {h \in [dev : Device, tip : Cursor, floor : Cursor] : Signed(h.dev, h.tip)}
Frames ==
    [type : {"inventory"}, body : Seq(HeadType)]
        \cup [type : {"entries"}, body : Seq(Entry) \ {<<>>}]
        \cup [type : {"invdone", "streamdone", "done"}, body : {0} \cup BOOLEAN]
PageType == [head : HeadType, frontier : {ChainFrontier(s, d) : s \in Store, d \in Device}]

\* The receiver has d's head.
Offers(offered, d) == \E i \in DOMAIN offered : offered[i].dev = d

\* How many entries a frame carries.
Load(frame) == IF frame.type = "entries" THEN Len(frame.body) ELSE 0

\* The entries sent are those received and those the frames carry: f[i] counts
\* the received ones and those of the first i frames.
Counts(f, w, got, sent) ==
    /\ f \in [0..Len(w) -> Nat]
    /\ f[0] = got /\ f[Len(w)] = sent
    /\ \A i \in 1..Len(w) : f[i] = f[i - 1] + Load(w[i])
    /\ \A i, j \in 0..Len(w) : i <= j => f[i] <= f[j]

\* An inventory is the last frame, and its sender awaits the answer; entries
\* are of chains the receiver was offered.
WireOK(w, offered, place) ==
    /\ w \in Seq(Frames)
    /\ \A i \in DOMAIN w :
          /\ w[i].type = "inventory" => i = Len(w) /\ place \in {"await", "error"}
          /\ w[i].type = "entries" =>
                \A j \in DOMAIN w[i].body : Offers(offered, w[i].body[j].dev)

SessionFields == DOMAIN Session(0, 0, 0)

SessionOK(x) ==
    /\ DOMAIN x = SessionFields
    /\ x.from \in Node /\ x.to \in Node /\ x.dialer \in Node
    /\ x.owes \in BOOLEAN
    /\ x.chains \in Nat /\ x.chains <= ChainsPerSession
    /\ x.sent \in Nat /\ x.sent <= EntriesPerSession
    /\ x.offered \in Seq(HeadType)
    /\ x.page \in Seq(PageType)
    /\ \A i \in DOMAIN x.page : Offers(x.offered, x.page[i].head.dev)
    /\ WireOK(x.wire, x.offered, x.place)
    /\ \E f : Counts(f, x.wire, x.got, x.sent)

SInv ==
    /\ db \in [Node -> Store]
    /\ \A n \in Node : StoreKept(db[n])
    /\ faults \in 0..MaxFaults
    /\ sess # NoSession => SessionOK(sess)

-----------------------------------------------------------------------------
(* Lines of held entries *)

\* Held entries behind a hash: its children are there, children of those are
\* there, and nothing else is.
LEMMA DescendantsClosed ==
    ASSUME NEW s, NEW h
    PROVE  LET L == HeldDescendants(s, h) IN
           /\ L \subseteq s.gapped
           /\ \A g \in s.gapped :
                 g.prev = h \/ (\E x \in L : g.prev = x.hash) => g \in L
BY DEF HeldDescendants

LEMMA DescendantsLeast ==
    ASSUME NEW s, NEW h, NEW D \in SUBSET s.gapped,
           \A g \in s.gapped : g.prev = h \/ (\E x \in D : g.prev = x.hash) => g \in D
    PROVE  HeldDescendants(s, h) \subseteq D
BY DEF HeldDescendants

\* The line behind an entry is on its chain and goes up in time.
LEMMA LineRises ==
    ASSUME NEW s, s.gapped \subseteq Entry, NEW e \in Entry,
           NEW g \in HeldDescendants(s, e.hash)
    PROVE  g \in Entry /\ g.dev = e.dev /\ e.lam < g.lam
<1> USE EntryFields
<1> DEFINE D == {x \in s.gapped : x.dev = e.dev /\ e.lam < x.lam}
<1>1. ASSUME NEW y \in s.gapped, y.prev = e.hash \/ \E x \in D : y.prev = x.hash
      PROVE  y \in D
  <2>1. CASE y.prev = e.hash
    BY <2>1, SigningAssumption
  <2>2. CASE \E x \in D : y.prev = x.hash
    <3>1. PICK x \in D : y.prev = x.hash
      BY <2>2
    <3>2. y.dev = x.dev /\ x.lam < y.lam /\ x \in Entry /\ y \in Entry
      BY <3>1, SigningAssumption
    <3> QED BY <3>2
  <2> QED BY <1>1, <2>1, <2>2
<1>2. HeldDescendants(s, e.hash) \subseteq D
  BY <1>1, DescendantsLeast
<1> QED BY <1>2

\* What is behind an entry of the line is on the line.
LEMMA LineNests ==
    ASSUME NEW s, NEW h, NEW x \in HeldDescendants(s, h)
    PROVE  HeldDescendants(s, x.hash) \subseteq HeldDescendants(s, h)
<1> DEFINE L == HeldDescendants(s, h)
<1>1. /\ L \subseteq s.gapped
      /\ \A g \in s.gapped : g.prev = h \/ (\E y \in L : g.prev = y.hash) => g \in L
  BY DescendantsClosed
<1> HIDE DEF L
<1>2. x \in L
  BY DEF L
<1>3. \A g \in s.gapped : g.prev = x.hash \/ (\E y \in L : g.prev = y.hash) => g \in L
  BY <1>1, <1>2
<1> QED BY <1>1, <1>3, DescendantsLeast DEF L

\* An entry of the line is a child of its beginning or behind such a child.
LEMMA LineSplits ==
    ASSUME NEW s, NEW h, NEW g \in HeldDescendants(s, h)
    PROVE  \/ g.prev = h
           \/ \E c \in HeldDescendants(s, h) : c.prev = h /\ g \in HeldDescendants(s, c.hash)
<1> DEFINE L == HeldDescendants(s, h)
           D == {x \in s.gapped : \/ x.prev = h
                                  \/ \E c \in L : c.prev = h /\ x \in HeldDescendants(s, c.hash)}
<1>0. \A x \in s.gapped : x.prev = h => x \in L
  BY DescendantsClosed
<1>1. ASSUME NEW y \in s.gapped, \E x \in D : y.prev = x.hash
      PROVE  y \in D
  <2>1. PICK x \in D : y.prev = x.hash
    BY <1>1
  <2>2. CASE x.prev = h
    <3>1. x \in L
      BY <1>0, <2>2
    <3>2. y \in HeldDescendants(s, x.hash)
      BY <2>1, DescendantsClosed
    <3> QED BY <2>2, <3>1, <3>2
  <2>3. CASE x.prev # h
    <3>1. PICK c \in L : c.prev = h /\ x \in HeldDescendants(s, c.hash)
      BY <2>3
    <3>2. y \in HeldDescendants(s, c.hash)
      BY <2>1, <3>1, DescendantsClosed
    <3> QED BY <3>1, <3>2
  <2> QED BY <2>2, <2>3
<1>2. \A y \in s.gapped : y.prev = h \/ (\E x \in D : y.prev = x.hash) => y \in D
  BY <1>1
<1>3. HeldDescendants(s, h) \subseteq D
  BY <1>2, DescendantsLeast
<1> QED BY <1>3

\* No two held entries follow one: of two on the line, one is behind the other.
LEMMA LineIsTotal ==
    ASSUME NEW s, s.gapped \subseteq Entry, NEW e \in Entry,
           NEW g \in HeldDescendants(s, e.hash), NEW k \in HeldDescendants(s, e.hash)
    PROVE  g = k \/ k \in HeldDescendants(s, g.hash) \/ g \in HeldDescendants(s, k.hash)
<1> DEFINE L == HeldDescendants(s, e.hash)
           Comparable(x) == \A y \in L : \/ x = y
                                         \/ y \in HeldDescendants(s, x.hash)
                                         \/ x \in HeldDescendants(s, y.hash)
           D == {x \in L : Comparable(x)}
<1>1. /\ L \subseteq s.gapped
      /\ \A x \in s.gapped : x.prev = e.hash \/ (\E y \in L : x.prev = y.hash) => x \in L
  BY DescendantsClosed
\* Entries that follow one entry are one.
<1>2. \A x, y \in L : \A h \in Entry : x.prev = h.hash /\ y.prev = h.hash => x = y
  BY <1>1, SigningAssumption, EntryFields DEF NoHash
\* Whatever is behind the entry x follows is x or behind x.
<1>3. ASSUME NEW x \in L, NEW h \in Entry, x.prev = h.hash,
             HeldDescendants(s, h.hash) \subseteq L, NEW y \in HeldDescendants(s, h.hash)
      PROVE  x = y \/ y \in HeldDescendants(s, x.hash)
  <2>1. CASE y.prev = h.hash
    BY <1>2, <1>3, <2>1
  <2>2. CASE y.prev # h.hash
    <3>1. PICK c \in HeldDescendants(s, h.hash) :
             c.prev = h.hash /\ y \in HeldDescendants(s, c.hash)
      BY <2>2, LineSplits
    <3>2. c = x
      BY <1>2, <1>3, <3>1
    <3> QED BY <3>1, <3>2
  <2> QED BY <2>1, <2>2
<1>4. ASSUME NEW x \in s.gapped, x.prev = e.hash
      PROVE  x \in D
  <2>1. x \in L
    BY <1>1, <1>4
  <2>2. Comparable(x)
    BY <1>3, <1>4, <2>1
  <2> QED BY <2>1, <2>2
<1>5. ASSUME NEW x \in s.gapped, NEW h \in D, x.prev = h.hash
      PROVE  x \in D
  <2>1. x \in L /\ h \in L /\ h \in Entry /\ HeldDescendants(s, h.hash) \subseteq L
    BY <1>1, <1>5, LineNests
  <2>2. ASSUME NEW y \in L
        PROVE  x = y \/ y \in HeldDescendants(s, x.hash) \/ x \in HeldDescendants(s, y.hash)
    <3>1. CASE h = y
      <4>1. x \in HeldDescendants(s, y.hash)
        BY <1>5, <3>1, DescendantsClosed
      <4> QED BY <4>1
    <3>2. CASE y \in HeldDescendants(s, h.hash)
      BY <1>3, <1>5, <2>1, <3>2
    <3>3. CASE h \in HeldDescendants(s, y.hash)
      <4>1. x \in HeldDescendants(s, y.hash)
        BY <1>5, <3>3, DescendantsClosed
      <4> QED BY <4>1
    <3> QED BY <3>1, <3>2, <3>3
  <2> QED BY <2>1, <2>2
<1>6. \A x \in s.gapped : x.prev = e.hash \/ (\E y \in D : x.prev = y.hash) => x \in D
  BY <1>4, <1>5
<1>7. D \subseteq s.gapped
  BY <1>1
<1> HIDE DEF D
<1>8. L \subseteq D
  BY <1>6, <1>7, DescendantsLeast
<1> QED BY <1>8 DEF D

\* The entry and the line behind it have one entry at a time.
LEMMA OneAtATime ==
    ASSUME NEW s, s.gapped \subseteq Entry, NEW e \in Entry,
           NEW g \in HeldDescendants(s, e.hash) \cup {e},
           NEW k \in HeldDescendants(s, e.hash) \cup {e}, g.lam = k.lam
    PROVE  g = k
<1> DEFINE L == HeldDescendants(s, e.hash)
<1>1. \A x \in L : x \in Entry /\ e.lam < x.lam /\ x.lam \in Nat /\ e.lam \in Nat
  BY LineRises, EntryFields
<1>2. CASE g = e \/ k = e
  <2>1. ~(e.lam < e.lam)
    BY EntryFields
  <2> QED BY <1>1, <1>2, <2>1
<1>3. CASE g \in L /\ k \in L
  <2>1. g \in Entry /\ k \in Entry /\ ~(g.lam < k.lam) /\ ~(k.lam < g.lam)
    BY <1>1, <1>3
  <2>2. k \notin HeldDescendants(s, g.hash)
    BY <2>1, LineRises
  <2>3. g \notin HeldDescendants(s, k.hash)
    BY <2>1, LineRises
  <2> QED BY <1>3, <2>2, <2>3, LineIsTotal
<1> QED BY <1>2, <1>3

\* On an honest chain the line leaves nothing out: an entry between the
\* beginning and some entry of the line is on it.
LEMMA HonestLine ==
    ASSUME NEW s, s.gapped \subseteq Entry, NEW e \in Entry, e.dev \in Honest,
           NEW x \in Entry, x.dev = e.dev, e.lam <= x.lam,
           NEW m \in HeldDescendants(s, e.hash) \cup {e}, x.lam <= m.lam
    PROVE  x \in HeldDescendants(s, e.hash) \cup {e}
<1> DEFINE L == HeldDescendants(s, e.hash)
           D == {g \in L : g.lam < x.lam}
<1> SUFFICES ASSUME x \notin L, x # e PROVE FALSE
  OBVIOUS
<1>1. e.lam < x.lam
  BY SigningAssumption, EntryFields
<1>2. /\ L \subseteq s.gapped
      /\ \A g \in s.gapped : g.prev = e.hash \/ (\E y \in L : g.prev = y.hash) => g \in L
  BY DescendantsClosed
<1>3. \A g \in L : g \in Entry /\ g.dev = e.dev
  BY LineRises
\* The entry after one below x is below x.
<1>4. ASSUME NEW g \in L, NEW y \in Entry, y.lam < x.lam, g.prev = y.hash
      PROVE  g.lam < x.lam
  <2>1. g \in Entry /\ g.dev = x.dev /\ g # x /\ g.lam \in Nat /\ x.lam \in Nat
    BY <1>3, EntryFields
  <2>2. g.lam # x.lam /\ ~(x.lam < g.lam)
    BY <1>4, <2>1, SigningAssumption
  <2> QED BY <2>1, <2>2
<1>5. ASSUME NEW g \in s.gapped, g.prev = e.hash \/ \E y \in D : g.prev = y.hash
      PROVE  g \in D
  <2>1. g \in L
    BY <1>2, <1>5
  <2>2. CASE g.prev = e.hash
    BY <1>1, <1>4, <2>1, <2>2
  <2>3. CASE \E y \in D : g.prev = y.hash
    BY <1>3, <1>4, <2>1, <2>3
  <2> QED BY <1>5, <2>2, <2>3
<1>6. L \subseteq D
  BY <1>2, <1>5, DescendantsLeast
<1>7. m.lam < x.lam /\ m \in Entry
  BY <1>1, <1>3, <1>6
<1> QED BY <1>7, EntryFields

-----------------------------------------------------------------------------
(* Pages *)

\* The rank of a member of a finite set ordered by distinct keys.
LEMMA RankOrder ==
    ASSUME NEW S, IsFiniteSet(S), NEW key, \A x \in S : key[x] \in Nat,
           \A x, y \in S : key[x] = key[y] => x = y
    PROVE  LET Rank(x) == Cardinality({y \in S : key[y] <= key[x]}) IN
           /\ Cardinality(S) \in Nat
           /\ \A x \in S : Rank(x) \in 1..Cardinality(S)
           /\ \A x, y \in S : key[x] <= key[y] => Rank(x) <= Rank(y)
           /\ \A x, y \in S : Rank(x) = Rank(y) => x = y
<1> DEFINE Upto(x) == {y \in S : key[y] <= key[x]}
           n == Cardinality(S)
           Rank(x) == Cardinality(Upto(x))
<1>1. n \in Nat
  BY FS_CardinalityType
<1>2. ASSUME NEW x \in S
      PROVE  /\ IsFiniteSet(Upto(x)) /\ Rank(x) \in 1..n
  <2>1. IsFiniteSet(Upto(x)) /\ Cardinality(Upto(x)) <= n
    BY FS_Subset
  <2>2. Cardinality(Upto(x)) \in Nat /\ (Cardinality(Upto(x)) = 0 <=> Upto(x) = {})
    BY <2>1, FS_CardinalityType, FS_EmptySet
  <2>3. x \in Upto(x)
    OBVIOUS
  <2> HIDE DEF Upto
  <2> QED BY <1>1, <2>1, <2>2, <2>3
<1>3. ASSUME NEW x \in S, NEW y \in S, key[x] <= key[y]
      PROVE  Rank(x) <= Rank(y) /\ (key[x] < key[y] => Rank(x) # Rank(y))
  <2>1. Upto(x) \in SUBSET Upto(y) /\ (key[x] < key[y] => y \in Upto(y) /\ y \notin Upto(x))
    BY <1>3
  <2>2. IsFiniteSet(Upto(y))
    BY <1>2
  <2> HIDE DEF Upto
  <2> QED BY <2>1, <2>2, FS_Subset
<1>4. ASSUME NEW x \in S, NEW y \in S, Rank(x) = Rank(y)
      PROVE  x = y
  <2> HIDE DEF Upto, Rank
  <2>1. key[x] \in Nat /\ key[y] \in Nat
    OBVIOUS
  <2>2. CASE key[x] < key[y]
    BY <1>3, <1>4, <2>1, <2>2
  <2>3. CASE key[y] < key[x]
    BY <1>3, <1>4, <2>1, <2>3
  <2> QED BY <2>1, <2>2, <2>3
<1> QED BY <1>1, <1>2, <1>3, <1>4

\* There is a member of every rank.
LEMMA EveryRank ==
    ASSUME NEW S, IsFiniteSet(S), NEW key, \A x \in S : key[x] \in Nat,
           \A x, y \in S : key[x] = key[y] => x = y,
           NEW i \in 1..Cardinality(S)
    PROVE  \E x \in S : Cardinality({y \in S : key[y] <= key[x]}) = i
<1> DEFINE Rank(x) == Cardinality({y \in S : key[y] <= key[x]})
           n == Cardinality(S)
           rank == [x \in S |-> Rank(x)]
<1>1. /\ n \in Nat /\ \A x \in S : Rank(x) \in 1..n
      /\ \A x, y \in S : Rank(x) = Rank(y) => x = y
  BY RankOrder
<1> HIDE DEF Rank
<1>2. rank \in Injection(S, 1..n)
  <2>1. rank \in [S -> 1..n]
    BY <1>1
  <2>2. \A x, y \in S : rank[x] = rank[y] => x = y
    BY <1>1
  <2> HIDE DEF rank
  <2> QED BY <2>1, <2>2 DEF Injection, IsInjective
<1>3. IsFiniteSet(1..n) /\ Cardinality(1..n) = n
  BY <1>1, FS_Interval
<1>4. rank \in Surjection(S, 1..n)
  <2> HIDE DEF rank, n
  <2>1. Cardinality(S) = Cardinality(1..n)
    BY <1>3 DEF n
  <2> QED BY <1>2, <1>3, <2>1, FS_Injection
<1>5. PICK x \in S : rank[x] = i
  <2> HIDE DEF rank
  <2> QED BY <1>4 DEF Surjection
<1>6. Rank(x) = i
  BY <1>5
<1> QED BY <1>6 DEF Rank

\* The first members of a set, in order: a sequence of members within the limit.
LEMMA FirstInOrderPage ==
    ASSUME NEW S, IsFiniteSet(S), NEW key, \A x \in S : key[x] \in Nat,
           \A x, y \in S : key[x] = key[y] => x = y, NEW limit \in Nat
    PROVE  LET page == FirstInOrder(S, key, limit) IN
           page \in Seq(S) /\ Len(page) <= limit
<1> DEFINE Rank(x) == Cardinality({y \in S : key[y] <= key[x]})
           n == IF Cardinality(S) < limit THEN Cardinality(S) ELSE limit
           page == [i \in 1..n |-> CHOOSE x \in S : Rank(x) = i]
<1>1. Cardinality(S) \in Nat
  BY FS_CardinalityType
<1>2. n \in Nat /\ n <= limit /\ n <= Cardinality(S)
  BY <1>1
<1>3. FirstInOrder(S, key, limit) = page
  BY DEF FirstInOrder
<1> HIDE DEF n
<1>4. ASSUME NEW i \in 1..n PROVE (CHOOSE x \in S : Rank(x) = i) \in S
  <2>1. i \in 1..Cardinality(S)
    BY <1>1, <1>2
  <2>2. \E x \in S : Rank(x) = i
    BY <2>1, EveryRank
  <2> HIDE DEF Rank
  <2> QED BY <2>2
<1> HIDE DEF Rank
<1>5. page \in [1..n -> S]
  BY <1>4
<1> HIDE DEF page
<1>6. page \in Seq(S) /\ Len(page) = n
  BY <1>2, <1>5
<1> QED BY <1>2, <1>3, <1>6

\* A page leaves out nothing before its last member, and is empty only if
\* there is nothing to list.
LEMMA PageLeavesNoneOut ==
    ASSUME NEW S, IsFiniteSet(S), NEW key, \A x \in S : key[x] \in Nat,
           \A x, y \in S : key[x] = key[y] => x = y, NEW limit \in Nat
    PROVE  LET page == FirstInOrder(S, key, limit) IN
           /\ page = <<>> /\ limit # 0 => S = {}
           /\ page # <<>> =>
                 \A x \in S : key[x] <= key[Last(page)] => \E i \in DOMAIN page : page[i] = x
<1> DEFINE Rank(x) == Cardinality({y \in S : key[y] <= key[x]})
           N == Cardinality(S)
           n == IF N < limit THEN N ELSE limit
           page == FirstInOrder(S, key, limit)
<1>1. /\ N \in Nat /\ \A x \in S : Rank(x) \in 1..N
      /\ \A x, y \in S : key[x] <= key[y] => Rank(x) <= Rank(y)
      /\ \A x, y \in S : Rank(x) = Rank(y) => x = y
  BY RankOrder
<1>2. page = [i \in 1..n |-> CHOOSE x \in S : Rank(x) = i]
  BY DEF FirstInOrder
<1>3. \A i \in 1..N : \E x \in S : Rank(x) = i
  BY EveryRank
<1>4. n \in Nat /\ n <= N /\ (n = 0 => N = 0 \/ limit = 0)
  BY <1>1
<1>5. N = 0 => S = {}
  BY FS_EmptySet
<1>6. page \in Seq(S) /\ Len(page) \in Nat
  BY FirstInOrderPage
<1> HIDE DEF Rank, N, n, page
<1>7. DOMAIN page = 1..n /\ Len(page) = n
  BY <1>2, <1>4, <1>6
<1>8. ASSUME NEW i \in 1..n PROVE page[i] \in S /\ Rank(page[i]) = i
  <2>1. i \in 1..N
    BY <1>1, <1>4
  <2>2. \E x \in S : Rank(x) = i
    BY <1>3, <2>1
  <2> QED BY <1>2, <2>2
<1>9. page = <<>> /\ limit # 0 => S = {}
  BY <1>4, <1>5, <1>7
<1>10. ASSUME page # <<>>, NEW x \in S, key[x] <= key[Last(page)]
       PROVE  \E i \in DOMAIN page : page[i] = x
  <2>1. n # 0
    <3> SUFFICES ASSUME n = 0 PROVE FALSE
      OBVIOUS
    <3> QED BY <1>6, <1>7, <1>10, EmptySeq
  <2>2. Last(page) = page[n] /\ n \in 1..n
    BY <1>4, <1>7, <2>1 DEF Last
  <2>3. Rank(x) <= n /\ Rank(x) \in 1..N
    BY <1>1, <1>8, <1>10, <2>2
  <2>4. Rank(x) \in 1..n
    BY <1>1, <1>4, <2>3
  <2>5. page[Rank(x)] = x
    BY <1>1, <1>8, <2>4
  <2> QED BY <1>7, <2>4, <2>5
<1> QED BY <1>9, <1>10 DEF page

\* A finite set of entries with one entry at a time has a latest one.
LEMMA LatestExists ==
    ASSUME NEW S \in SUBSET Entry, IsFiniteSet(S), S # {},
           \A x, y \in S : x.lam = y.lam => x = y
    PROVE  \E x \in S : \A y \in S : y.lam <= x.lam
<1> DEFINE key == [x \in S |-> x.lam]
           n == Cardinality(S)
<1>1. n \in Nat /\ n # 0
  BY FS_CardinalityType, FS_EmptySet
<1>2. \A x \in S : key[x] \in Nat /\ key[x] = x.lam
  BY EntryFields
<1>3. \A x, y \in S : key[x] = key[y] => x = y
  BY <1>2
<1>4. n \in 1..Cardinality(S)
  BY <1>1
<1> HIDE DEF key
<1> HIDE DEF n
<1>5. \E x \in S : Cardinality({y \in S : key[y] <= key[x]}) = n
  <2>1. \A x \in S : key[x] \in Nat
    BY <1>2
  <2> QED BY <1>3, <1>4, <2>1, EveryRank
<1>6. PICK x \in S : Cardinality({y \in S : key[y] <= key[x]}) = n
  BY <1>5
<1>7. {y \in S : key[y] <= key[x]} = S
  BY <1>6, FS_Subset DEF n
<1>8. \A y \in S : y.lam <= x.lam
  BY <1>2, <1>7
<1> QED BY <1>8

-----------------------------------------------------------------------------
(* Ingest *)

\* u is t with the line held behind e accepted too; `last` is its latest.
Promotes(t, u, e, last) ==
    LET L == HeldDescendants(t, e.hash) IN
    /\ u \in Store
    /\ u.accepted = t.accepted \cup L /\ u.gapped = t.gapped \ L /\ u.pending = t.pending
    /\ u.floor = t.floor /\ u.cover = t.cover
    /\ last \in L \cup {e} /\ \A y \in L \cup {e} : y.lam <= last.lam
    /\ u.tip[e.dev] = CursorOf(last) /\ \A d \in Device \ {e.dev} : u.tip[d] = t.tip[d]

\* The promotion loop moves the witness to the latest entry it took.
LEMMA PromoteTable ==
    ASSUME NEW t \in Store, IsFiniteSet(t.gapped), NEW e \in Entry, t.tip[e.dev] = CursorOf(e)
    PROVE  \E last \in Entry : Promotes(t, Promote(t, e), e, last)
<1> USE EntryFields
<1> DEFINE L == HeldDescendants(t, e.hash)
           S == L \cup {e}
           last == CHOOSE x \in S : \A y \in S : y.lam <= x.lam
           u == Promote(t, e)
<1>1. t.gapped \subseteq Entry /\ t.accepted \subseteq Entry /\ t.tip \in [Device -> Cursor]
  BY StoreFields
<1>2. L \subseteq t.gapped
  BY DescendantsClosed
<1>3. S \in SUBSET Entry /\ S # {} /\ e \in S
  BY <1>1, <1>2
<1>4. IsFiniteSet(S)
  <2>1. IsFiniteSet(L)
    BY <1>2, FS_Subset
  <2> HIDE DEF L
  <2> QED BY <2>1, FS_AddElement
<1>5. \A x, y \in S : x.lam = y.lam => x = y
  BY <1>1, OneAtATime
<1> HIDE DEF L
<1>6. \E x \in S : \A y \in S : y.lam <= x.lam
  <2> HIDE DEF S
  <2> QED BY <1>3, <1>4, <1>5, LatestExists
<1>7. last \in S /\ \A y \in S : y.lam <= last.lam
  <2> HIDE DEF S
  <2> QED BY <1>6
<1>8. last \in Entry
  BY <1>3, <1>7
<1> DEFINE tip == [t.tip EXCEPT ![e.dev] = IF last.lam > t.tip[e.dev].lam
                                           THEN CursorOf(last) ELSE t.tip[e.dev]]
<1>9. u = [t EXCEPT !.accepted = t.accepted \cup L, !.gapped = t.gapped \ L, !.tip = tip]
  BY DEF Promote, L, Store
<1> HIDE DEF S
<1>10. last.lam > e.lam \/ last = e
  <2>1. e.lam <= last.lam /\ e \in S
    BY <1>3, <1>7
  <2> HIDE DEF last
  <2> QED BY <1>5, <1>7, <1>8, <2>1
<1> HIDE DEF last
<1>11. tip[e.dev] = CursorOf(last) /\ \A d \in Device \ {e.dev} : tip[d] = t.tip[d]
  BY <1>1, <1>10
<1>12. tip \in [Device -> Cursor]
  BY <1>1, <1>8
<1> HIDE DEF tip, u
<1>13. /\ u \in Store
       /\ u.accepted = t.accepted \cup L /\ u.gapped = t.gapped \ L /\ u.pending = t.pending
       /\ u.floor = t.floor /\ u.cover = t.cover /\ u.tip = tip
  BY <1>1, <1>2, <1>9, <1>12 DEF Store
<1>14. Promotes(t, u, e, last)
  BY <1>7, <1>11, <1>13 DEF Promotes, S, L
<1> QED BY <1>8, <1>14 DEF u

\* It keeps the chain layer's invariant, when e was the tail.
LEMMA PromotesInv ==
    ASSUME NEW t, NEW u, NEW e \in Entry, NEW last \in Entry, StoreInv(t),
           Promotes(t, u, e, last), e \in t.accepted,
           \A x \in Chain(t, e.dev) : x.lam <= e.lam
    PROVE  /\ StoreInv(u)
           /\ Chain(u, e.dev) = Chain(t, e.dev) \cup HeldDescendants(t, e.hash)
           /\ \A d : d # e.dev => Chain(u, d) = Chain(t, d)
<1> USE EntryFields
<1> DEFINE L == HeldDescendants(t, e.hash)
<1>0. t \in Store /\ t.gapped \subseteq Entry /\ t.accepted \subseteq Entry /\ e.dev \in Device
  BY StoreFields DEF StoreInv
<1>1. \A g \in L : g \in Entry /\ g.dev = e.dev /\ e.lam < g.lam
  BY <1>0, LineRises
<1>2. \A g, k \in L : g.lam = k.lam => g = k
  BY <1>0, OneAtATime
<1> HIDE DEF L
<1>3. /\ u \in Store /\ u.accepted = t.accepted \cup L /\ u.pending = t.pending
      /\ last \in L \cup {e} /\ \A y \in L \cup {e} : y.lam <= last.lam
      /\ u.tip[e.dev] = CursorOf(last) /\ \A d \in Device \ {e.dev} : u.tip[d] = t.tip[d]
  BY DEF Promotes, L
<1>4. Chain(u, e.dev) = Chain(t, e.dev) \cup L /\ \A d : d # e.dev => Chain(u, d) = Chain(t, d)
  BY <1>1, <1>3 DEF Chain
<1>5. TailWitnessed(u)
  <2> SUFFICES ASSUME NEW d \in Device, Chain(u, d) # {}
               PROVE  \E m \in Chain(u, d) : /\ u.tip[d] = CursorOf(m)
                                             /\ \A x \in Chain(u, d) : x.lam <= m.lam
    BY DEF TailWitnessed
  <2>1. CASE d # e.dev
    BY <1>3, <1>4, <2>1 DEF StoreInv, TailWitnessed
  <2>2. CASE d = e.dev
    <3>1. last \in Chain(u, d)
      BY <1>3, <1>4, <2>2 DEF Chain
    <3>2. ASSUME NEW x \in Chain(u, d) PROVE x.lam <= last.lam
      <4>1. CASE x \in L
        BY <1>3, <4>1
      <4>2. CASE x \in Chain(t, e.dev)
        <5>1. x \in Entry /\ x.lam <= e.lam /\ e.lam <= last.lam
          BY <1>0, <1>3, <4>2 DEF Chain
        <5> QED BY <5>1
      <4> QED BY <1>4, <2>2, <4>1, <4>2
    <3> QED BY <1>3, <2>2, <3>1, <3>2
  <2> QED BY <2>1, <2>2
<1>6. OnePerLamport(u)
  <2> SUFFICES ASSUME NEW x \in u.accepted, NEW y \in u.accepted, x.dev = y.dev, x.lam = y.lam
               PROVE  x = y
    BY DEF OnePerLamport
  <2>1. CASE x \in t.accepted /\ y \in t.accepted
    BY <2>1 DEF StoreInv, OnePerLamport
  <2>2. CASE x \in L /\ y \in L
    BY <1>2, <2>2
  <2>3. ASSUME NEW a \in L, NEW b \in t.accepted, b.dev = a.dev PROVE a.lam # b.lam
    <3>1. b \in Chain(t, e.dev) /\ b \in Entry
      BY <1>0, <1>1, <2>3 DEF Chain
    <3>2. b.lam <= e.lam /\ e.lam < a.lam /\ a \in Entry
      BY <1>1, <3>1
    <3> QED BY <3>1, <3>2
  <2> QED BY <1>3, <2>1, <2>2, <2>3
<1>7. u.pending \subseteq u.accepted
  BY <1>3 DEF StoreInv
<1> QED BY <1>3, <1>4, <1>5, <1>6, <1>7 DEF StoreInv, L

\* Settling coverage, exactly: the promise is recorded when the floor moved,
\* and dropped when its tip is on the chain.
LEMMA CoverageTable ==
    ASSUME NEW s \in Store, NEW d \in Device, NEW before, NEW tip \in Cursor
    PROVE  LET t == SettleCoverage(s, d, before, tip)
               c == IF s.floor[d] # before
                    THEN [floor |-> s.floor[d].lam, tip |-> tip] ELSE s.cover[d]
           IN  /\ SameChains(s, t) /\ t.gapped = s.gapped /\ t.floor = s.floor
               /\ t.cover[d] = IF \E e \in Chain(s, d) : CursorOf(e) = c.tip
                               THEN NoObligation ELSE c
               /\ \A x \in Device \ {d} : t.cover[x] = s.cover[x]
<1> USE StoreFields, CursorFields
<1> DEFINE c == IF s.floor[d] # before
                THEN [floor |-> s.floor[d].lam, tip |-> tip] ELSE s.cover[d]
           r == RecordCoverage(s, d, before, tip)
           t == SettleCoverage(s, d, before, tip)
\* Writing one obligation changes nothing else.
<1>1. ASSUME NEW q \in Store, NEW o \in Obligation
      PROVE  LET w == [q EXCEPT !.cover[d] = o] IN
             /\ w \in Store
             /\ w.accepted = q.accepted /\ w.pending = q.pending /\ w.tip = q.tip
             /\ w.gapped = q.gapped /\ w.floor = q.floor
             /\ w.cover[d] = o /\ \A x \in Device \ {d} : w.cover[x] = q.cover[x]
  <2>1. [q.cover EXCEPT ![d] = o] \in [Device -> Obligation]
    OBVIOUS
  <2>2. [q.cover EXCEPT ![d] = o][d] = o
        /\ \A x \in Device \ {d} : [q.cover EXCEPT ![d] = o][x] = q.cover[x]
    OBVIOUS
  <2> QED BY <2>1, <2>2 DEF Store
<1>2. [floor |-> s.floor[d].lam, tip |-> tip] \in Obligation
  BY DEF Obligation
<1>3. /\ r \in Store
      /\ r.accepted = s.accepted /\ r.pending = s.pending /\ r.tip = s.tip
      /\ r.gapped = s.gapped /\ r.floor = s.floor
      /\ r.cover[d] = c /\ \A x \in Device \ {d} : r.cover[x] = s.cover[x]
  <2>1. CASE s.floor[d] # before
    BY <1>1, <1>2, <2>1 DEF RecordCoverage
  <2>2. CASE s.floor[d] = before
    BY <2>2 DEF RecordCoverage
  <2> QED BY <2>1, <2>2
<1>4. t = ClearDelivered(r, d)
  BY DEF SettleCoverage
<1> HIDE DEF r, c, t
<1>5. Chain(r, d) = Chain(s, d)
  BY <1>3 DEF Chain
<1>6. CASE \E e \in Chain(s, d) : CursorOf(e) = c.tip
  <2>1. t = [r EXCEPT !.cover[d] = NoObligation]
    BY <1>3, <1>4, <1>5, <1>6 DEF ClearDelivered
  <2>2. /\ t \in Store
        /\ t.accepted = s.accepted /\ t.pending = s.pending /\ t.tip = s.tip
        /\ t.gapped = s.gapped /\ t.floor = s.floor
        /\ t.cover[d] = NoObligation /\ \A x \in Device \ {d} : t.cover[x] = s.cover[x]
    BY <1>1, <1>3, <2>1
  <2> QED BY <1>6, <2>2 DEF SameChains, c, t
<1>7. CASE ~\E e \in Chain(s, d) : CursorOf(e) = c.tip
  <2>1. t = r
    BY <1>3, <1>4, <1>5, <1>7 DEF ClearDelivered
  <2> QED BY <1>3, <1>7, <2>1 DEF SameChains, c, t
<1> QED BY <1>6, <1>7

\* Adopting a root above the chain moves the floor.
LEMMA RootMovesFloor ==
    ASSUME NEW s, StoreKept(s), NEW e \in Entry, NEW floor \in Cursor,
           AcceptOutcome(s, e, floor) = "root"
    PROVE  /\ floor = CursorOf(e)
           /\ AcceptRowEntry(s, e, floor, FALSE).floor[e.dev] = CursorOf(e)
           /\ s.floor[e.dev] # CursorOf(e)
<1> USE EntryFields, CursorFields
<1> DEFINE u == Unparked(s, e)
           r == RecordAdoptedFloor(u, e.dev, floor)
<1>0. s \in Store /\ e.dev \in Device /\ StoreInv(s) /\ s.floor[e.dev] \in Cursor
  BY StoreFields DEF StoreKept, StoreInv
<1>1. SameButHeld(s, u) /\ u \in Store /\ u.floor = s.floor
  BY <1>0, HeldTable DEF SameButHeld
<1>2. Classify(u, e, floor) = "root" /\ (\A d : Chain(u, d) = Chain(s, d)) /\ StoreInv(u)
  BY <1>0, <1>1, SameButHeldChains, SameChainsInv DEF AcceptOutcome
<1>3. AcceptRowEntry(s, e, floor, FALSE) = InsertEntry(r, e, FALSE)
  BY DEF AcceptRowEntry
<1> HIDE DEF u
<1>4. floor = CursorOf(e) /\ \A x \in Chain(s, e.dev) : x.lam < e.lam
  <2>1. Classify(u, e, floor) \in StoringOutcomes
    BY <1>2 DEF StoringOutcomes
  <2>2. /\ \A x \in Chain(u, e.dev) : x.lam < e.lam
        /\ Classify(u, e, floor) = "root" => floor = CursorOf(e)
    BY <1>2, <2>1, StoringLinks
  <2> QED BY <1>2, <2>2
\* What is below the floor is on the chain, and the chain is below e.
<1>5. s.floor[e.dev] = NoCursor \/ e.lam > s.floor[e.dev].lam
  <2> SUFFICES ASSUME s.floor[e.dev] # NoCursor PROVE e.lam > s.floor[e.dev].lam
    OBVIOUS
  <2>1. Chain(s, e.dev) # {} /\ s.floor[e.dev].lam <= s.tip[e.dev].lam
    BY <1>0 DEF StoreKept
  <2>2. PICK m \in Chain(s, e.dev) : s.tip[e.dev] = CursorOf(m)
    BY <1>0, <2>1 DEF StoreInv, TailWitnessed
  <2>3. m \in Entry /\ m.lam < e.lam
    BY <1>0, <1>4, <2>2, StoreFields DEF Chain
  <2> QED BY <1>0, <2>1, <2>2, <2>3
<1>6. r \in Store /\ r.floor[e.dev] = CursorOf(e)
  <2>1. /\ r \in Store
        /\ r.floor = [u.floor EXCEPT ![e.dev] =
                         IF u.floor[e.dev] = NoCursor \/ floor.lam > u.floor[e.dev].lam
                         THEN floor ELSE u.floor[e.dev]]
    BY <1>0, <1>1, AdoptedFloorTable
  <2>2. u.floor \in [Device -> Cursor]
    BY <1>1, StoreFields
  <2> HIDE DEF r
  <2> QED BY <1>0, <1>1, <1>4, <1>5, <2>1, <2>2
<1> HIDE DEF r
<1>7. InsertEntry(r, e, FALSE).floor = r.floor
  BY <1>6, InsertEntryFields
<1>8. s.floor[e.dev] # CursorOf(e)
  BY <1>5
<1> QED BY <1>3, <1>4, <1>6, <1>7, <1>8

\* An entry that is stored without moving the floor is the witness or the one
\* that follows it, so that it is not past a later entry of an honest chain.
LEMMA StoredNotPast ==
    ASSUME NEW s, StoreKept(s), NEW e \in Entry, e.dev \in Honest, NEW floor \in Cursor,
           AcceptOutcome(s, e, floor) \in StoringOutcomes \ {"root"},
           s.tip[e.dev] # NoCursor, NEW x \in Entry, x.dev = e.dev, s.tip[e.dev].lam < x.lam
    PROVE  e.lam <= x.lam
<1> USE EntryFields, CursorFields
<1> DEFINE u == Unparked(s, e)
<1>0. s \in Store /\ e.dev \in Device /\ StoreInv(s)
  BY DEF StoreKept, StoreInv
<1>1. /\ Classify(u, e, floor) \in StoringOutcomes /\ Classify(u, e, floor) # "root"
      /\ SameButHeld(s, u)
  BY <1>0, HeldTable DEF AcceptOutcome, StoringOutcomes
<1>2. (\A d : Chain(u, d) = Chain(s, d)) /\ StoreInv(u) /\ u.tip = s.tip
  BY <1>0, <1>1, SameButHeldChains, SameChainsInv DEF SameButHeld
<1> HIDE DEF u
<1>3. CursorOf(e) = s.tip[e.dev] \/ e.prev = s.tip[e.dev].hash
  <2>1. CASE Chain(s, e.dev) = {}
    BY <1>1, <1>2, <2>1 DEF Classify, FitToWitness, StoringOutcomes
  <2>2. CASE Chain(s, e.dev) # {}
    <3>1. PICK p \in Chain(s, e.dev) : p.hash = e.prev /\ CursorOf(p) = s.tip[e.dev]
      <4>1. Classify(u, e, floor) # "root" /\ Chain(u, e.dev) # {} =>
               \E p \in Chain(u, e.dev) :
                  /\ p.hash = e.prev /\ CursorOf(p) = u.tip[e.dev]
                  /\ \A y \in Chain(u, e.dev) : y.lam <= p.lam
        BY <1>1, <1>2, StoringLinks
      <4> QED BY <1>1, <1>2, <2>2, <4>1
    <3>2. p \in Entry
      BY <1>0, StoreFields DEF Chain
    <3> QED BY <3>1, <3>2
  <2> QED BY <2>1, <2>2
<1>4. PICK f \in Entry : f.dev = e.dev /\ CursorOf(f) = s.tip[e.dev]
  BY <1>0 DEF StoreKept, Signed
<1>5. f.lam < x.lam /\ f.lam = s.tip[e.dev].lam /\ f.hash = s.tip[e.dev].hash
  BY <1>4
<1>6. CASE CursorOf(e) = s.tip[e.dev]
  BY <1>5, <1>6
<1>7. CASE e.prev = s.tip[e.dev].hash
  BY <1>5, <1>7, SigningAssumption
<1> QED BY <1>3, <1>6, <1>7

\* Chains and their witnesses moved on d only, as promised there, and the rest
\* is as it was: what remains to be shown of a step is about d.
LEMMA KeptElsewhere ==
    ASSUME NEW s, StoreKept(s), NEW t, StoreInv(t),
           IsFiniteSet(t.accepted), IsFiniteSet(t.gapped), NEW d \in Device,
           \A x \in Device \ {d} :
              /\ Chain(t, x) = Chain(s, x) /\ t.tip[x] = s.tip[x]
              /\ t.floor[x] = s.floor[x] /\ t.cover[x] = s.cover[x],
           t.floor[d] # NoCursor => Chain(t, d) # {} /\ t.floor[d].lam <= t.tip[d].lam,
           t.tip[d] # NoCursor => Signed(d, t.tip[d]),
           t.cover[d] # NoObligation => t.tip[d] # NoCursor /\ Signed(d, t.cover[d].tip),
           d \in Honest /\ t.cover[d] # NoObligation => t.tip[d].lam < t.cover[d].tip.lam
    PROVE  StoreKept(t)
BY DEF StoreKept

\* An ingest that does not store the entry.
LEMMA ParkedKeeps ==
    ASSUME NEW s, StoreKept(s), NEW e \in Entry, NEW head \in HeadType,
           AcceptOutcome(s, e, head.floor) \notin StoringOutcomes
    PROVE  StoreKept(Ingested(s, head, e))
<1> DEFINE t == AcceptRowEntry(s, e, head.floor, FALSE)
           v == SettleCoverage(t, e.dev, s.floor[e.dev], head.tip)
<1>0. /\ s \in Store /\ StoreInv(s) /\ e.dev \in Device
      /\ head.floor \in Cursor /\ head.tip \in Cursor
  BY EntryFields DEF StoreKept, StoreInv, HeadType
<1>1. Ingested(s, head, e) = v
  BY DEF Ingested
<1>2. Parks(s, t, e) /\ StoreInv(t)
  BY <1>0, AcceptKeeps, AcceptInv
<1> HIDE DEF t
<1>3. t \in Store /\ t.floor = s.floor /\ t.cover = s.cover /\ t.tip = s.tip /\ t.accepted = s.accepted
  BY <1>2 DEF Parks, SameButHeld
<1>4. IsFiniteSet(t.gapped)
  <2>1. IsFiniteSet(s.gapped \cup {e})
    BY FS_AddElement DEF StoreKept
  <2>2. t.gapped \in SUBSET (s.gapped \cup {e})
    BY <1>2 DEF Parks
  <2> QED BY <2>1, <2>2, FS_Subset
<1> DEFINE c == IF t.floor[e.dev] # s.floor[e.dev]
                THEN [floor |-> t.floor[e.dev].lam, tip |-> head.tip] ELSE t.cover[e.dev]
<1>5. /\ SameChains(t, v) /\ v.gapped = t.gapped /\ v.floor = t.floor
      /\ v.cover[e.dev] = IF \E y \in Chain(t, e.dev) : CursorOf(y) = c.tip
                          THEN NoObligation ELSE c
      /\ \A x \in Device \ {e.dev} : v.cover[x] = t.cover[x]
  <2>1. t \in Store
    BY <1>3
  <2> QED BY <1>0, <2>1, CoverageTable
<1> HIDE DEF v
<1>6. StoreInv(v) /\ v.accepted = s.accepted /\ v.tip = s.tip /\ v.floor = s.floor
  BY <1>2, <1>3, <1>5, SameChainsInv DEF SameChains
<1>7. \A d : Chain(v, d) = Chain(s, d)
  BY <1>6 DEF Chain
<1>8. IsFiniteSet(v.accepted) /\ IsFiniteSet(v.gapped)
  BY <1>4, <1>5, <1>6 DEF StoreKept
<1>9. \A x \in Device : v.cover[x] = s.cover[x] \/ v.cover[x] = NoObligation
  BY <1>3, <1>5
<1>10. StoreKept(v)
  BY <1>6, <1>7, <1>8, <1>9 DEF StoreKept
<1> QED BY <1>1, <1>10

\* An ingest that stores the entry and what is held behind it.  The promise it
\* records or keeps is met, or still ahead.
LEMMA StoredKeeps ==
    ASSUME NEW s, StoreKept(s), NEW e \in Entry, NEW head \in HeadType, head.dev = e.dev,
           AdvertisementIsValid(head), AcceptOutcome(s, e, head.floor) \in StoringOutcomes
    PROVE  StoreKept(Ingested(s, head, e))
<1> USE EntryFields, CursorFields
<1> DEFINE t == AcceptRowEntry(s, e, head.floor, FALSE)
           u == Promote(t, e)
           v == SettleCoverage(u, e.dev, s.floor[e.dev], head.tip)
           L == HeldDescendants(t, e.hash)
<1>0. /\ s \in Store /\ StoreInv(s) /\ e.dev \in Device
      /\ head.floor \in Cursor /\ head.tip \in Cursor /\ Signed(e.dev, head.tip)
      /\ IsFiniteSet(s.accepted) /\ IsFiniteSet(s.gapped)
      /\ s.tip \in [Device -> Cursor] /\ s.floor \in [Device -> Cursor]
  BY StoreFields DEF StoreKept, StoreInv, HeadType
<1>1. Ingested(s, head, e) = v
  BY DEF Ingested
<1>2. Stores(s, t, e, head.floor) /\ StoreInv(t)
  BY <1>0, AcceptStores, AcceptInv
<1>3. AcceptOutcome(s, e, head.floor) = "root" =>
         /\ head.floor = CursorOf(e) /\ t.floor[e.dev] = CursorOf(e)
         /\ s.floor[e.dev] # CursorOf(e)
  BY <1>0, RootMovesFloor
<1> HIDE DEF t
<1>4. /\ t \in Store /\ t.accepted = s.accepted \cup {e} /\ t.gapped \subseteq s.gapped
      /\ t.cover = s.cover /\ t.tip[e.dev] = CursorOf(e)
      /\ \A d \in Device \ {e.dev} : t.tip[d] = s.tip[d]
      /\ \A d \in Device \ {e.dev} : t.floor[d] = s.floor[d]
  BY <1>0, <1>2 DEF Stores
<1>5. IsFiniteSet(t.accepted) /\ IsFiniteSet(t.gapped)
  BY <1>0, <1>4, FS_AddElement, FS_Subset
<1>6. PICK last \in Entry : Promotes(t, u, e, last)
  BY <1>4, <1>5, PromoteTable
<1> HIDE DEF u
<1>7. e \in t.accepted /\ \A x \in Chain(t, e.dev) : x.lam <= e.lam
  <2>1. \A x \in Chain(s, e.dev) : x.lam < e.lam /\ x \in Entry
    BY <1>0, <1>2, StoreFields DEF Stores, Chain
  <2>2. \A x \in Chain(t, e.dev) : x \in Chain(s, e.dev) \/ x = e
    BY <1>4 DEF Chain
  <2> QED BY <1>4, <2>1, <2>2
<1>8. /\ StoreInv(u) /\ Chain(u, e.dev) = Chain(t, e.dev) \cup L
      /\ \A d : d # e.dev => Chain(u, d) = Chain(t, d)
  <2>1. StoreInv(t) /\ Promotes(t, u, e, last) /\ last \in Entry
    BY <1>2, <1>6
  <2> QED BY ONLY <1>7, <2>1, e \in Entry, PromotesInv
<1>9. /\ u \in Store /\ u.accepted = t.accepted \cup L /\ u.gapped = t.gapped \ L
      /\ u.floor = t.floor /\ u.cover = t.cover
      /\ last \in L \cup {e} /\ e.lam <= last.lam
      /\ u.tip[e.dev] = CursorOf(last) /\ \A d \in Device \ {e.dev} : u.tip[d] = t.tip[d]
  BY <1>6 DEF Promotes
<1>10. L \subseteq t.gapped /\ t.gapped \subseteq Entry /\ last.dev = e.dev
  BY <1>4, <1>9, DescendantsClosed, StoreFields, LineRises
<1>11. IsFiniteSet(u.accepted) /\ IsFiniteSet(u.gapped)
  <2> HIDE DEF L
  <2>1. IsFiniteSet(L) /\ IsFiniteSet(t.gapped \ L)
    BY <1>5, <1>10, FS_Subset
  <2>2. IsFiniteSet(t.accepted \cup L)
    BY <1>5, <2>1, FS_Union
  <2> QED BY <1>9, <2>1, <2>2
<1> DEFINE c == IF u.floor[e.dev] # s.floor[e.dev]
                THEN [floor |-> u.floor[e.dev].lam, tip |-> head.tip] ELSE u.cover[e.dev]
<1>12. /\ SameChains(u, v) /\ v.gapped = u.gapped /\ v.floor = u.floor
       /\ v.cover[e.dev] = IF \E y \in Chain(u, e.dev) : CursorOf(y) = c.tip
                           THEN NoObligation ELSE c
       /\ \A x \in Device \ {e.dev} : v.cover[x] = u.cover[x]
  BY <1>0, <1>9, CoverageTable
<1> HIDE DEF v, L
<1>13. /\ StoreInv(v) /\ v.accepted = u.accepted /\ v.tip = u.tip
       /\ \A d : Chain(v, d) = Chain(u, d)
  BY <1>8, <1>12, SameChainsInv DEF SameChains, Chain
<1>14. \A x \in Device \ {e.dev} :
          /\ Chain(v, x) = Chain(s, x) /\ v.tip[x] = s.tip[x]
          /\ v.floor[x] = s.floor[x] /\ v.cover[x] = s.cover[x]
  <2>1. \A x \in Device \ {e.dev} : Chain(t, x) = Chain(s, x)
    BY <1>4 DEF Chain
  <2> QED BY <1>4, <1>8, <1>9, <1>12, <1>13, <2>1
<1>15. v.tip[e.dev] = CursorOf(last) /\ v.tip[e.dev] # NoCursor /\ Signed(e.dev, v.tip[e.dev])
  BY <1>9, <1>10, <1>13 DEF Signed
<1>16. v.floor[e.dev] # NoCursor => Chain(v, e.dev) # {} /\ v.floor[e.dev].lam <= v.tip[e.dev].lam
  <2> SUFFICES ASSUME t.floor[e.dev] # NoCursor
               PROVE  e \in Chain(v, e.dev) /\ t.floor[e.dev].lam <= last.lam
    BY <1>9, <1>12, <1>15
  <2>1. e \in Chain(v, e.dev)
    BY <1>7, <1>8, <1>13 DEF Chain
  <2>2. t.floor[e.dev] = s.floor[e.dev] \/ t.floor[e.dev] = CursorOf(e)
    BY <1>0, <1>2 DEF Stores
  <2>3. CASE t.floor[e.dev] = s.floor[e.dev]
    <3>1. Chain(s, e.dev) # {} /\ s.floor[e.dev].lam <= s.tip[e.dev].lam
      BY <1>0, <2>3 DEF StoreKept
    <3>2. PICK m \in Chain(s, e.dev) : s.tip[e.dev] = CursorOf(m)
      BY <1>0, <3>1 DEF StoreInv, TailWitnessed
    <3>3. m \in Entry /\ m.lam < e.lam
      BY <1>0, <1>2, <3>2, StoreFields DEF Stores, Chain
    <3>4. s.floor[e.dev] \in Cursor
      BY <1>0
    <3> QED BY <1>9, <2>1, <2>3, <3>1, <3>2, <3>3, <3>4
  <2>4. CASE t.floor[e.dev] = CursorOf(e)
    BY <1>9, <2>1, <2>4
  <2> QED BY <2>2, <2>3, <2>4
\* The promise is of an entry that exists.
<1>17. c # NoObligation => Signed(e.dev, c.tip)
  BY <1>0, <1>4, <1>9 DEF StoreKept
\* On an honest chain it is not of an entry below e.
<1>18. ASSUME NEW x \in Entry, x.dev = e.dev, CursorOf(x) = c.tip, e.dev \in Honest,
              c # NoObligation
       PROVE  e.lam <= x.lam
  <2>1. CASE u.floor[e.dev] # s.floor[e.dev]
    <3>1. head.floor = CursorOf(e) /\ c.tip = head.tip
      BY <1>0, <1>2, <1>9, <2>1 DEF Stores
    <3> QED BY <1>18, <3>1 DEF AdvertisementIsValid
  <2>2. CASE u.floor[e.dev] = s.floor[e.dev]
    <3>1. AcceptOutcome(s, e, head.floor) # "root"
      BY <1>3, <1>9, <2>2
    <3>2. c = s.cover[e.dev]
      BY <1>4, <1>9, <2>2
    <3> HIDE DEF c
    <3>3. s.tip[e.dev] # NoCursor /\ s.tip[e.dev].lam < c.tip.lam
      BY <1>0, <1>18, <3>2 DEF StoreKept
    <3>4. c.tip.lam = x.lam
      BY <1>18
    <3> QED BY <1>0, <1>18, <3>1, <3>3, <3>4, StoredNotPast
  <2> QED BY <2>1, <2>2
<1> HIDE DEF c
<1>19. v.cover[e.dev] # NoObligation =>
          /\ v.tip[e.dev] # NoCursor /\ Signed(e.dev, v.cover[e.dev].tip)
          /\ e.dev \in Honest => v.tip[e.dev].lam < v.cover[e.dev].tip.lam
  <2> SUFFICES ASSUME v.cover[e.dev] # NoObligation
               PROVE  /\ Signed(e.dev, c.tip)
                      /\ e.dev \in Honest => last.lam < c.tip.lam
    BY <1>12, <1>15
  <2>1. c # NoObligation /\ ~\E y \in Chain(u, e.dev) : CursorOf(y) = c.tip
    BY <1>12
  <2>2. PICK x \in Entry : x.dev = e.dev /\ CursorOf(x) = c.tip
    BY <1>17, <2>1 DEF Signed
  <2>3. ASSUME e.dev \in Honest, ~(last.lam < x.lam) PROVE FALSE
    <3>1. e.lam <= x.lam /\ x.lam <= last.lam
      BY <1>18, <2>1, <2>2, <2>3
    <3>2. x \in L \cup {e}
      BY <1>9, <1>10, <2>2, <2>3, <3>1, HonestLine DEF L
    <3>3. x \in Chain(u, e.dev)
      BY <1>7, <1>8, <3>2 DEF Chain
    <3> QED BY <2>1, <2>2, <3>3
  <2>4. c.tip.lam = x.lam
    BY <2>2
  <2> QED BY <1>17, <2>1, <2>3, <2>4
<1>20. StoreKept(v)
  <2>1. IsFiniteSet(v.accepted) /\ IsFiniteSet(v.gapped)
    BY <1>11, <1>12, <1>13
  <2> QED BY <1>0, <1>13, <1>14, <1>15, <1>16, <1>19, <2>1, KeptElsewhere
<1> QED BY <1>1, <1>20

\* Whatever an ingest does with an entry that passes the checks, the store is
\* kept in order.
LEMMA IngestKeeps ==
    ASSUME NEW s, StoreKept(s), NEW e \in Entry, NEW head \in HeadType, head.dev = e.dev,
           ~IngestFails(s, head, e)
    PROVE  StoreKept(Ingested(s, head, e))
<1>1. AdvertisementIsValid(head)
  BY DEF IngestFails
<1> QED BY <1>1, ParkedKeeps, StoredKeeps

-----------------------------------------------------------------------------
(* The other writers of a store *)

\* prepare: the entry that is signed goes on top, and nothing is owed.
LEMMA AuthoredKeeps ==
    ASSUME NEW s, StoreKept(s), NEW e \in Entry,
           ~StreamPending(s), IsNextLamport(s, e.lam)
    PROVE  StoreKept(InsertEntry(s, e, FALSE))
<1> USE EntryFields, CursorFields
<1> DEFINE t == InsertEntry(s, e, FALSE)
<1>0. /\ s \in Store /\ StoreInv(s) /\ e.dev \in Device
      /\ s.tip \in [Device -> Cursor] /\ s.floor \in [Device -> Cursor]
      /\ IsFiniteSet(s.accepted) /\ IsFiniteSet(s.gapped)
  BY StoreFields DEF StoreKept, StoreInv
<1>1. s.tip[e.dev] # NoCursor => e.lam > s.tip[e.dev].lam
  BY <1>0, NextLamportPastTips
<1>2. CanInsert(s, e)
  BY <1>0, <1>1, TailIsTip DEF CanInsert
<1>3. StoreInv(t)
  BY <1>0, <1>2, InsertEntryInv
<1>4. /\ t.accepted = s.accepted \cup {e} /\ t.gapped = s.gapped
      /\ t.tip = [s.tip EXCEPT ![e.dev] =
                      IF s.tip[e.dev] = NoCursor \/ e.lam > s.tip[e.dev].lam
                      THEN CursorOf(e) ELSE s.tip[e.dev]]
      /\ t.floor = s.floor /\ t.cover = s.cover
  BY <1>0, InsertEntryFields
<1> HIDE DEF t
<1>5. t.tip[e.dev] = CursorOf(e) /\ \A d \in Device \ {e.dev} : t.tip[d] = s.tip[d]
  BY <1>0, <1>1, <1>4
<1>6. e \in Chain(t, e.dev) /\ \A d \in Device \ {e.dev} : Chain(t, d) = Chain(s, d)
  BY <1>4 DEF Chain
<1>7. IsFiniteSet(t.accepted) /\ IsFiniteSet(t.gapped)
  <2>1. IsFiniteSet(s.accepted \cup {e})
    BY <1>0, FS_AddElement
  <2> QED BY <1>0, <1>4, <2>1
<1>8. t.floor[e.dev] # NoCursor => Chain(t, e.dev) # {} /\ t.floor[e.dev].lam <= t.tip[e.dev].lam
  <2> SUFFICES ASSUME s.floor[e.dev] # NoCursor
               PROVE  s.floor[e.dev].lam <= e.lam
    BY <1>4, <1>5, <1>6
  <2>1. Chain(s, e.dev) # {} /\ s.floor[e.dev].lam <= s.tip[e.dev].lam
    BY <1>0 DEF StoreKept
  <2>2. s.tip[e.dev] # NoCursor
    BY <1>0, <2>1, TailIsTip
  <2>3. s.tip[e.dev] \in Cursor /\ s.floor[e.dev] \in Cursor
    BY <1>0
  <2> QED BY <1>1, <2>1, <2>2, <2>3
<1>9. t.tip[e.dev] # NoCursor => Signed(e.dev, t.tip[e.dev])
  BY <1>5 DEF Signed
<1>10. t.cover[e.dev] = NoObligation
  BY <1>0, <1>4 DEF StreamPending
<1>11. \A x \in Device \ {e.dev} :
          /\ Chain(t, x) = Chain(s, x) /\ t.tip[x] = s.tip[x]
          /\ t.floor[x] = s.floor[x] /\ t.cover[x] = s.cover[x]
  BY <1>4, <1>5, <1>6
<1>12. StoreKept(t)
  BY <1>0, <1>3, <1>7, <1>8, <1>9, <1>10, <1>11, KeptElsewhere
<1> QED BY <1>12 DEF t

\* compact_chain_prefix: the entry that becomes the floor stays.
LEMMA CompactedKeeps ==
    ASSUME NEW s, StoreKept(s), NEW x \in s.accepted
    PROVE  StoreKept(CompactPrefixes(s, {x}))
<1> USE EntryFields
<1> DEFINE A == {e \in s.accepted : (e.dev = x.dev /\ e.lam < x.lam) => e \in s.pending}
           G == {g \in s.gapped : ~(g.dev = x.dev /\ g.lam < x.lam)}
           F == [d \in Device |-> IF x.dev = d THEN CursorOf(x) ELSE s.floor[d]]
           t == CompactPrefixes(s, {x})
<1>0. /\ s \in Store /\ StoreInv(s) /\ x \in Entry /\ x.dev \in Device
      /\ s.floor \in [Device -> Cursor] /\ s.accepted \subseteq Entry
      /\ IsFiniteSet(s.accepted) /\ IsFiniteSet(s.gapped)
  BY StoreFields DEF StoreKept, StoreInv
<1>1. StoreInv(t) /\ t.tip = s.tip
  BY <1>0, CompactInv
<1>2. t = [s EXCEPT !.accepted = A, !.gapped = G, !.floor = F]
  BY DEF CompactPrefixes
<1> HIDE DEF A, G, F
<1>3. t.accepted = A /\ t.gapped = G /\ t.floor = F /\ t.cover = s.cover
  BY <1>0, <1>2 DEF Store
<1> HIDE DEF t
<1>4. IsFiniteSet(t.accepted) /\ IsFiniteSet(t.gapped)
  <2>1. A \in SUBSET s.accepted /\ G \in SUBSET s.gapped
    BY DEF A, G
  <2> QED BY <1>0, <1>3, <2>1, FS_Subset
<1>5. x \in Chain(t, x.dev) /\ \A d \in Device \ {x.dev} : Chain(t, d) = Chain(s, d)
  BY <1>0, <1>3 DEF A, Chain
<1>6. t.floor[x.dev] = CursorOf(x) /\ \A d \in Device \ {x.dev} : t.floor[d] = s.floor[d]
  BY <1>0, <1>3 DEF F
<1>7. x.lam <= t.tip[x.dev].lam
  <2>1. PICK m \in Chain(s, x.dev) : s.tip[x.dev] = CursorOf(m) /\ x.lam <= m.lam
    BY <1>0 DEF StoreInv, TailWitnessed, Chain
  <2>2. m \in Entry
    BY <1>0 DEF Chain
  <2> QED BY <1>1, <2>1, <2>2
<1>8. StoreKept(t)
  <2>1. /\ t.tip[x.dev] = s.tip[x.dev] /\ t.cover[x.dev] = s.cover[x.dev]
        /\ t.floor[x.dev].lam <= t.tip[x.dev].lam /\ Chain(t, x.dev) # {}
    BY <1>0, <1>1, <1>3, <1>5, <1>6, <1>7
  <2>2. \A d \in Device \ {x.dev} :
           /\ Chain(t, d) = Chain(s, d) /\ t.tip[d] = s.tip[d]
           /\ t.floor[d] = s.floor[d] /\ t.cover[d] = s.cover[d]
    BY <1>1, <1>3, <1>5, <1>6
  <2>3. /\ s.tip[x.dev] # NoCursor => Signed(x.dev, s.tip[x.dev])
        /\ s.cover[x.dev] # NoObligation => s.tip[x.dev] # NoCursor /\ Signed(x.dev, s.cover[x.dev].tip)
        /\ x.dev \in Honest /\ s.cover[x.dev] # NoObligation => s.tip[x.dev].lam < s.cover[x.dev].tip.lam
    BY <1>0 DEF StoreKept
  <2> QED BY <1>0, <1>1, <1>4, <2>1, <2>2, <2>3, KeptElsewhere
<1> QED BY <1>8 DEF t

\* purge_repo_rows: witnesses and obligations survive.
LEMMA PurgedKeeps ==
    ASSUME NEW s, StoreKept(s)
    PROVE  StoreKept([s EXCEPT !.accepted = {}, !.pending = {}, !.gapped = {},
                               !.floor = [d \in Device |-> NoCursor]])
<1> DEFINE F == [d \in Device |-> NoCursor]
           t == [s EXCEPT !.accepted = {}, !.pending = {}, !.gapped = {}, !.floor = F]
<1>0. s \in Store /\ StoreInv(s)
  BY DEF StoreKept, StoreInv
<1>1. StoreInv(t) /\ t.tip = s.tip /\ t.accepted = {} /\ t.gapped = {}
  BY <1>0, PurgeInv
<1>2. t.floor = F /\ t.cover = s.cover
  BY <1>0 DEF Store
<1>3. \A d \in Device : t.floor[d] = NoCursor
  BY <1>2
<1> HIDE DEF F, t
<1>4. IsFiniteSet(t.accepted) /\ IsFiniteSet(t.gapped)
  BY <1>1, FS_EmptySet
<1>5. StoreKept(t)
  BY <1>1, <1>2, <1>3, <1>4 DEF StoreKept
<1> QED BY <1>5 DEF t, F

\* A store starts with its seed and the witnesses of its chains.
LEMMA SeededKeeps ==
    ASSUME NEW n \in Node
    PROVE  LET s == EmptyStore(Device)
               t == [s EXCEPT !.accepted = Seed[n],
                              !.tip = [d \in Device |->
                                          ChainTail([s EXCEPT !.accepted = Seed[n]], d)]]
           IN  StoreKept(t)
<1> USE EntryFields, CursorFields
<1> DEFINE s == EmptyStore(Device)
           r == [s EXCEPT !.accepted = Seed[n]]
           T == [d \in Device |-> ChainTail(r, d)]
           t == [s EXCEPT !.accepted = Seed[n], !.tip = T]
           N == [d \in Device |-> NoCursor]
           O == [d \in Device |-> NoObligation]
<1>1. /\ Seed[n] \in SUBSET Entry /\ IsFiniteSet(Seed[n])
      /\ \A e, f \in Seed[n] : e.dev = f.dev /\ e.lam = f.lam => e = f
  BY SessionAssumption
<1>2. N \in [Device -> Cursor] /\ O \in [Device -> Obligation]
  OBVIOUS
<1>3. s = [accepted |-> {}, pending |-> {}, gapped |-> {}, tip |-> N,
           floor |-> N, cover |-> O, writers |-> Device]
  BY DEF EmptyStore
<1>4. s \in Store
  BY <1>2, <1>3 DEF Store
<1>5. r.accepted = Seed[n]
  BY <1>3
\* The tail of a chain of the seed is its latest entry.
<1>6. ASSUME NEW d \in Device
      PROVE  /\ Chain(r, d) = {} => ChainTail(r, d) = NoCursor
             /\ Chain(r, d) # {} =>
                   \E m \in Chain(r, d) : /\ ChainTail(r, d) = CursorOf(m)
                                          /\ \A x \in Chain(r, d) : x.lam <= m.lam
  <2> DEFINE C == Chain(r, d)
             m == CHOOSE e \in C : \A x \in C : x.lam <= e.lam
  <2>1. C \in SUBSET Entry /\ C \in SUBSET Seed[n]
    BY <1>1, <1>5 DEF Chain
  <2>2. IsFiniteSet(C)
    BY <1>1, <2>1, FS_Subset
  <2>3. \A x, y \in C : x.lam = y.lam => x = y
    BY <1>1, <1>5 DEF Chain
  <2>4. C # {} => \E e \in C : \A x \in C : x.lam <= e.lam
    <3> HIDE DEF C
    <3> QED BY <2>1, <2>2, <2>3, LatestExists
  <2>5. C # {} => m \in C /\ \A x \in C : x.lam <= m.lam
    <3> HIDE DEF C
    <3> QED BY <2>4
  <2>6. ChainTail(r, d) = IF C = {} THEN NoCursor ELSE CursorOf(m)
    BY DEF ChainTail
  <2> HIDE DEF m, C
  <2> QED BY <2>5, <2>6 DEF C
<1>7. \A d \in Device : T[d] = ChainTail(r, d)
  OBVIOUS
<1>8. T \in [Device -> Cursor]
  <2>1. ASSUME NEW d \in Device PROVE ChainTail(r, d) \in Cursor
    <3>1. Chain(r, d) \subseteq Entry
      BY <1>1, <1>5 DEF Chain
    <3> QED BY <1>6, <3>1
  <2> QED BY <2>1
<1> HIDE DEF T, r, N, O
<1>9. /\ t \in Store /\ t.accepted = Seed[n] /\ t.pending = {} /\ t.gapped = {}
      /\ t.tip = T /\ t.floor = N /\ t.cover = O
  <2>1. s.pending = {} /\ s.gapped = {} /\ s.floor = N /\ s.cover = O
    BY <1>3
  <2> HIDE DEF s
  <2> QED BY <1>1, <1>4, <1>8, <2>1 DEF Store
<1> HIDE DEF t, s
<1>10. \A d : Chain(t, d) = Chain(r, d)
  BY <1>5, <1>9 DEF Chain
<1>11. StoreInv(t)
  <2>1. TailWitnessed(t)
    BY <1>6, <1>7, <1>9, <1>10 DEF TailWitnessed
  <2>2. OnePerLamport(t)
    BY <1>1, <1>9 DEF OnePerLamport
  <2> QED BY <1>9, <2>1, <2>2 DEF StoreInv
<1>12. IsFiniteSet(t.accepted) /\ IsFiniteSet(t.gapped)
  BY <1>1, <1>9, FS_EmptySet
<1>13. ASSUME NEW d \in Device
       PROVE  /\ t.floor[d] = NoCursor /\ t.cover[d] = NoObligation
              /\ t.tip[d] # NoCursor => Signed(d, t.tip[d])
  <2>1. t.floor[d] = NoCursor /\ t.cover[d] = NoObligation
    BY <1>9 DEF N, O
  <2>2. t.tip[d] # NoCursor => Signed(d, t.tip[d])
    <3> SUFFICES ASSUME t.tip[d] # NoCursor PROVE Signed(d, t.tip[d])
      OBVIOUS
    <3>1. PICK m \in Chain(r, d) : t.tip[d] = CursorOf(m)
      BY <1>6, <1>7, <1>9
    <3>2. m \in Entry /\ m.dev = d
      BY <1>1, <1>5 DEF Chain
    <3> QED BY <3>1, <3>2 DEF Signed
  <2> QED BY <2>1, <2>2
<1>14. StoreKept(t)
  BY <1>11, <1>12, <1>13 DEF StoreKept
<1> QED BY <1>14 DEF t, T, r, s

-----------------------------------------------------------------------------
(* What a store is asked for *)

\* A page of a chain's entries is made of entries of that chain.
LEMMA ReadsChain ==
    ASSUME NEW s, StoreKept(s), NEW d \in Device, NEW start, NEW limit \in Nat
    PROVE  LET read == ChainEntries(s, d, start, limit) IN
           read.entries \in Seq(Chain(s, d)) /\ Len(read.entries) <= limit
<1> DEFINE C == Chain(s, d)
           key == [e \in C |-> e.lam]
           From(lam) == FirstInOrder({e \in C : e.lam >= lam}, key, limit)
<1>0. s \in Store /\ C \subseteq Entry /\ C \in SUBSET s.accepted
  BY StoreFields DEF StoreKept, StoreInv, Chain
<1>1. IsFiniteSet(C)
  BY <1>0, FS_Subset DEF StoreKept
<1>2. (\A x \in C : key[x] \in Nat) /\ \A x, y \in C : key[x] = key[y] => x = y
  BY <1>0, EntryFields DEF StoreKept, StoreInv, OnePerLamport, Chain
<1>3. ASSUME NEW lam
      PROVE  From(lam) \in Seq(C) /\ Len(From(lam)) <= limit
  <2> DEFINE S == {e \in C : e.lam >= lam}
  <2>1. S \in SUBSET C
    OBVIOUS
  <2>2. IsFiniteSet(S)
    BY <1>1, <2>1, FS_Subset
  <2>3. (\A x \in S : key[x] \in Nat) /\ \A x, y \in S : key[x] = key[y] => x = y
    BY <1>2
  <2> HIDE DEF S, key, C
  <2>4. FirstInOrder(S, key, limit) \in Seq(S) /\ Len(FirstInOrder(S, key, limit)) <= limit
    BY <2>2, <2>3, FirstInOrderPage
  <2>5. \A q \in Seq(S) : q \in Seq(C)
    BY <2>1
  <2> QED BY <2>4, <2>5 DEF S
<1>4. ChainEntries(s, d, start, limit).entries = <<>>
      \/ \E lam : ChainEntries(s, d, start, limit).entries = From(lam)
  BY DEF ChainEntries
<1>5. <<>> \in Seq(C) /\ Len(<<>>) <= limit
  OBVIOUS
<1> HIDE DEF From, C
<1> QED BY <1>3, <1>4, <1>5 DEF C

\* A head is of a chain with a tip that somebody signed.
LEMMA HeadsSigned ==
    ASSUME NEW s, StoreKept(s), NEW d \in Device, Chain(s, d) # {}
    PROVE  ChainHead(s, d) \in HeadType /\ ChainHead(s, d).dev = d
<1> USE EntryFields, CursorFields
<1>0. /\ s \in Store /\ StoreInv(s) /\ s.floor[d] \in Cursor
      /\ s.tip[d] \in Cursor /\ s.cover[d] \in Obligation
  BY StoreFields DEF StoreKept, StoreInv
<1>1. ChainTail(s, d) = s.tip[d] /\ s.tip[d] # NoCursor
  BY <1>0, TailIsTip
<1>2. Signed(d, s.tip[d]) /\ (s.cover[d] # NoObligation => Signed(d, s.cover[d].tip))
  BY <1>1 DEF StoreKept
<1>3. s.cover[d].tip \in Cursor
  BY <1>0 DEF Obligation
<1> QED BY <1>0, <1>1, <1>2, <1>3 DEF ChainHead, HeadType

\* A store has finitely many chains.
LEMMA ChainsFinite ==
    ASSUME NEW s, StoreKept(s), NEW after
    PROVE  IsFiniteSet({d \in Device : d > after /\ Chain(s, d) # {}})
<1> DEFINE D == {d \in Device : d > after /\ Chain(s, d) # {}}
           A == {e \in s.accepted : e.dev \in D}
           f == [e \in A |-> e.dev]
<1>1. A \in SUBSET s.accepted
  OBVIOUS
<1>2. IsFiniteSet(A)
  BY <1>1, FS_Subset DEF StoreKept
<1>3. f \in [A -> D]
  OBVIOUS
<1>4. ASSUME NEW d \in D PROVE \E e \in A : f[e] = d
  <2>1. PICK e \in Chain(s, d) : TRUE
    OBVIOUS
  <2>2. e \in A /\ e.dev = d
    BY DEF Chain
  <2> QED BY <2>2
<1> HIDE DEF A, D, f
<1>5. f \in Surjection(A, D)
  BY <1>3, <1>4 DEF Surjection
<1>6. IsFiniteSet(D)
  BY <1>2, <1>5, FS_Surjection
<1> QED BY <1>6 DEF D

\* A page of an inventory is a sequence of heads.
LEMMA PageOfHeads ==
    ASSUME NEW s, StoreKept(s), NEW after, NEW limit \in Nat
    PROVE  /\ ChainPage(s, after, limit) \in Seq(HeadType)
           /\ Len(ChainPage(s, after, limit)) <= limit
<1> DEFINE D == {d \in Device : d > after /\ Chain(s, d) # {}}
           key == [d \in Device |-> d]
           page == FirstInOrder(D, key, limit)
<1>1. IsFiniteSet(D)
  BY ChainsFinite
<1>2. (\A d \in D : key[d] \in Nat) /\ \A x, y \in D : key[x] = key[y] => x = y
  BY SessionAssumption
<1> HIDE DEF D, key
<1>3. page \in Seq(D) /\ Len(page) <= limit
  BY <1>1, <1>2, FirstInOrderPage
<1>4. \A d \in D : ChainHead(s, d) \in HeadType
  BY HeadsSigned DEF D
<1>5. ChainPage(s, after, limit) = [i \in DOMAIN page |-> ChainHead(s, page[i])]
  BY DEF ChainPage, D, key
<1> HIDE DEF page
<1>6. \A i \in DOMAIN page : page[i] \in D
  BY <1>3
<1>7. DOMAIN page = 1..Len(page) /\ Len(page) \in Nat
  BY <1>3
<1>8. [i \in 1..Len(page) |-> ChainHead(s, page[i])] \in Seq(HeadType)
  BY <1>4, <1>6, <1>7
<1>9. Len([i \in 1..Len(page) |-> ChainHead(s, page[i])]) = Len(page)
  BY <1>7
<1> QED BY <1>3, <1>5, <1>7, <1>8, <1>9

-----------------------------------------------------------------------------
(* The frames in flight *)

Marks == [type : {"invdone", "streamdone", "done"}, body : {0} \cup BOOLEAN]

\* Frames carry a natural number of entries, and marks none.
LEMMA LoadType ==
    ASSUME NEW fr \in Frames
    PROVE  /\ Load(fr) \in Nat
           /\ fr \in Marks => Load(fr) = 0
           /\ fr.type = "entries" => fr.body \in Seq(Entry) /\ fr.body # <<>>
           /\ fr.type = "inventory" => fr.body \in Seq(HeadType)
<1>1. CASE fr \in [type : {"inventory"}, body : Seq(HeadType)]
  BY <1>1 DEF Load, Marks
<1>2. CASE fr \in [type : {"entries"}, body : Seq(Entry) \ {<<>>}]
  BY <1>2 DEF Load, Marks
<1>3. CASE fr \in Marks
  BY <1>3 DEF Load, Marks
<1> QED BY <1>1, <1>2, <1>3 DEF Frames, Marks

\* Nothing is in flight at the beginning of a direction.
LEMMA CountsNone == \E f : Counts(f, <<>>, 0, 0)
<1> DEFINE f == [i \in 0..0 |-> 0]
<1>1. Len(<<>>) = 0
  OBVIOUS
<1>2. f \in [0..0 -> Nat] /\ f[0] = 0
  OBVIOUS
<1> HIDE DEF f
<1>3. Counts(f, <<>>, 0, 0)
  BY <1>1, <1>2 DEF Counts
<1> QED BY <1>3

\* What was received is no more than what was sent.
LEMMA CountsBound ==
    ASSUME NEW w \in Seq(Frames), NEW got, NEW sent, NEW f, Counts(f, w, got, sent)
    PROVE  got \in Nat /\ sent \in Nat /\ got <= sent
BY DEF Counts

\* A frame is sent.
LEMMA CountsSend ==
    ASSUME NEW w \in Seq(Frames), NEW fr \in Frames, NEW got, NEW sent,
           NEW f, Counts(f, w, got, sent)
    PROVE  \E g : Counts(g, w \o <<fr>>, got, sent + Load(fr))
<1> DEFINE n == Len(w)
           v == w \o <<fr>>
           g == [i \in 0..(n + 1) |-> IF i <= n THEN f[i] ELSE sent + Load(fr)]
<1>1. /\ n \in Nat /\ v \in Seq(Frames) /\ Len(v) = n + 1
      /\ v[n + 1] = fr /\ \A i \in 1..n : v[i] = w[i]
  OBVIOUS
<1>2. /\ f \in [0..n -> Nat] /\ f[0] = got /\ f[n] = sent
      /\ \A i \in 1..n : f[i] = f[i - 1] + Load(w[i])
      /\ \A i, j \in 0..n : i <= j => f[i] <= f[j]
  BY DEF Counts
<1>3. Load(fr) \in Nat
  BY LoadType
<1> HIDE DEF n, v
<1>4. sent \in Nat /\ sent + Load(fr) \in Nat /\ sent <= sent + Load(fr)
  BY <1>1, <1>2, <1>3
<1>5. g \in [0..(n + 1) -> Nat] /\ g[0] = got /\ g[n + 1] = sent + Load(fr)
  BY <1>1, <1>2, <1>4
<1>6. \A i \in 1..(n + 1) : g[i] = g[i - 1] + Load(v[i])
  BY <1>1, <1>2, <1>4
<1>7. \A i, j \in 0..(n + 1) : i <= j => g[i] <= g[j]
  BY <1>1, <1>2, <1>4
<1> HIDE DEF g
<1>8. Counts(g, v, got, sent + Load(fr))
  BY <1>1, <1>5, <1>6, <1>7 DEF Counts
<1> QED BY <1>8 DEF v

\* A frame without entries is received.
LEMMA CountsReceive ==
    ASSUME NEW w \in Seq(Frames), w # <<>>, NEW got, NEW sent,
           NEW f, Counts(f, w, got, sent)
    PROVE  \E g : Counts(g, Tail(w), got + Load(Head(w)), sent)
<1> DEFINE n == Len(w) - 1
           v == Tail(w)
           g == [i \in 0..n |-> f[i + 1]]
<1>1. /\ n \in Nat /\ v \in Seq(Frames) /\ Len(v) = n /\ Len(w) = n + 1
      /\ Head(w) = w[1] /\ \A i \in 1..n : v[i] = w[i + 1]
  OBVIOUS
<1>2. /\ f \in [0..(n + 1) -> Nat] /\ f[0] = got /\ f[n + 1] = sent
      /\ \A i \in 1..(n + 1) : f[i] = f[i - 1] + Load(w[i])
      /\ \A i, j \in 0..(n + 1) : i <= j => f[i] <= f[j]
  BY <1>1 DEF Counts
<1> HIDE DEF n, v
<1>3. f[1] = got + Load(Head(w))
  BY <1>1, <1>2
<1>4. g \in [0..n -> Nat] /\ g[0] = got + Load(Head(w)) /\ g[n] = sent
  BY <1>1, <1>2, <1>3
<1>5. \A i \in 1..n : g[i] = g[i - 1] + Load(v[i])
  <2> SUFFICES ASSUME NEW i \in 1..n PROVE g[i] = g[i - 1] + Load(v[i])
    OBVIOUS
  <2>1. i + 1 \in 1..(n + 1) /\ (i + 1) - 1 = i /\ (i - 1) + 1 = i /\ i \in 0..n /\ i - 1 \in 0..n
    BY <1>1
  <2>2. f[i + 1] = f[i] + Load(w[i + 1])
    BY <1>2, <2>1
  <2>3. g[i] = f[i + 1] /\ g[i - 1] = f[i]
    BY <2>1
  <2> QED BY <1>1, <2>2, <2>3
<1>6. \A i, j \in 0..n : i <= j => g[i] <= g[j]
  BY <1>1, <1>2
<1> HIDE DEF g
<1>7. Counts(g, v, got + Load(Head(w)), sent)
  BY <1>1, <1>4, <1>5, <1>6 DEF Counts
<1> QED BY <1>7 DEF v

\* The first entry of a frame is received, and the others are left in it.
LEMMA CountsDeliver ==
    ASSUME NEW w \in Seq(Frames), w # <<>>, NEW rest \in Frames, NEW got, NEW sent,
           NEW f, Counts(f, w, got, sent), Load(Head(w)) = Load(rest) + 1
    PROVE  \E g : Counts(g, <<rest>> \o Tail(w), got + 1, sent)
<1> DEFINE n == Len(w)
           v == <<rest>> \o Tail(w)
           g == [i \in 0..n |-> IF i = 0 THEN got + 1 ELSE f[i]]
<1>1. /\ n \in Nat /\ n >= 1 /\ v \in Seq(Frames) /\ Len(v) = n
      /\ Head(w) = w[1] /\ v[1] = rest /\ \A i \in 2..n : v[i] = w[i]
  OBVIOUS
<1>2. /\ f \in [0..n -> Nat] /\ f[0] = got /\ f[n] = sent
      /\ \A i \in 1..n : f[i] = f[i - 1] + Load(w[i])
      /\ \A i, j \in 0..n : i <= j => f[i] <= f[j]
  BY DEF Counts
<1>3. Load(rest) \in Nat
  BY LoadType
<1> HIDE DEF n, v
<1>4. got \in Nat /\ f[1] = (got + 1) + Load(rest)
  <2>1. f[1] = f[0] + Load(w[1]) /\ f[0] \in Nat
    BY <1>1, <1>2
  <2>2. f[1] = got + (Load(rest) + 1)
    BY <1>1, <1>2, <2>1
  <2> QED BY <1>2, <1>3, <2>1, <2>2
<1>5. g \in [0..n -> Nat] /\ g[0] = got + 1 /\ g[n] = sent
  BY <1>1, <1>2, <1>4
<1>6. \A i \in 1..n : g[i] = g[i - 1] + Load(v[i])
  <2> SUFFICES ASSUME NEW i \in 1..n PROVE g[i] = g[i - 1] + Load(v[i])
    OBVIOUS
  <2>1. CASE i = 1
    BY <1>1, <1>4, <2>1
  <2>2. CASE i # 1
    <3>1. i \in 2..n /\ i - 1 \in 1..n
      BY <1>1, <2>2
    <3> QED BY <1>1, <1>2, <3>1
  <2> QED BY <2>1, <2>2
<1>7. \A i, j \in 0..n : i <= j => g[i] <= g[j]
  <2> SUFFICES ASSUME NEW i \in 0..n, NEW j \in 0..n, i <= j PROVE g[i] <= g[j]
    OBVIOUS
  <2>1. CASE i = 0 /\ j # 0
    <3>1. f[1] <= f[j] /\ g[j] = f[j] /\ g[i] = got + 1 /\ f[1] \in Nat /\ f[j] \in Nat
      BY <1>1, <1>2, <2>1
    <3>2. got + 1 <= f[1]
      BY <1>3, <1>4
    <3> QED BY <1>4, <3>1, <3>2
  <2>2. CASE i # 0 \/ j = 0
    BY <1>1, <1>2, <1>4, <2>2
  <2> QED BY <2>1, <2>2
<1> HIDE DEF g
<1>8. Counts(g, v, got + 1, sent)
  BY <1>1, <1>5, <1>6, <1>7 DEF Counts
<1> QED BY <1>8 DEF v

\* An inventory, where there is one, is the last frame and is awaited.
LEMMA WireSend ==
    ASSUME NEW w, NEW offered, NEW place, NEW next, WireOK(w, offered, place),
           place \notin {"await", "error"}, NEW fr \in Frames,
           fr.type = "inventory" => next = "await",
           fr.type = "entries" => \A j \in DOMAIN fr.body : Offers(offered, fr.body[j].dev)
    PROVE  WireOK(w \o <<fr>>, offered, next)
<1> DEFINE n == Len(w)
           v == w \o <<fr>>
<1>1. w \in Seq(Frames)
  BY DEF WireOK
<1>2. /\ n \in Nat /\ v \in Seq(Frames) /\ Len(v) = n + 1 /\ DOMAIN v = 1..(n + 1)
      /\ DOMAIN w = 1..n /\ v[n + 1] = fr /\ \A i \in 1..n : v[i] = w[i]
  BY <1>1
<1> HIDE DEF n, v
<1>3. \A i \in 1..n : /\ w[i].type # "inventory"
                      /\ w[i].type = "entries" =>
                            \A j \in DOMAIN w[i].body : Offers(offered, w[i].body[j].dev)
  BY <1>2 DEF WireOK
<1>4. \A i \in 1..(n + 1) : i \in 1..n \/ i = n + 1
  BY <1>2
<1>5. WireOK(v, offered, next)
  BY <1>2, <1>3, <1>4 DEF WireOK
<1> QED BY <1>5 DEF v

LEMMA WireReceive ==
    ASSUME NEW w, NEW offered, NEW place, WireOK(w, offered, place), w # <<>>
    PROVE  WireOK(Tail(w), offered, place)
<1> DEFINE n == Len(w)
           v == Tail(w)
<1>1. w \in Seq(Frames)
  BY DEF WireOK
<1>2. /\ n \in Nat /\ v \in Seq(Frames) /\ Len(v) = n - 1 /\ DOMAIN v = 1..(n - 1)
      /\ DOMAIN w = 1..n /\ \A i \in 1..(n - 1) : v[i] = w[i + 1] /\ i + 1 \in 1..n
  BY <1>1
<1> HIDE DEF v
<1>3. ASSUME NEW i \in 1..(n - 1)
      PROVE  /\ v[i].type = "inventory" => i = n - 1 /\ place \in {"await", "error"}
             /\ v[i].type = "entries" =>
                   \A j \in DOMAIN v[i].body : Offers(offered, v[i].body[j].dev)
  <2>1. v[i] = w[i + 1] /\ i + 1 \in DOMAIN w /\ i \in Int
    BY <1>2
  <2>2. /\ w[i + 1].type = "inventory" => i + 1 = n /\ place \in {"await", "error"}
        /\ w[i + 1].type = "entries" =>
              \A j \in DOMAIN w[i + 1].body : Offers(offered, w[i + 1].body[j].dev)
    BY <2>1 DEF WireOK
  <2> QED BY <1>2, <2>1, <2>2
<1>4. WireOK(v, offered, place)
  BY <1>2, <1>3 DEF WireOK
<1> QED BY <1>4 DEF v

\* The rest of a frame of entries takes its place.
LEMMA WireDeliver ==
    ASSUME NEW w, NEW offered, NEW place, WireOK(w, offered, place), w # <<>>,
           Head(w).type = "entries", NEW rest \in Frames, rest.type = "entries",
           \A j \in DOMAIN rest.body : \E k \in DOMAIN Head(w).body : rest.body[j] = Head(w).body[k]
    PROVE  WireOK(<<rest>> \o Tail(w), offered, place)
<1> DEFINE n == Len(w)
           v == <<rest>> \o Tail(w)
<1>1. w \in Seq(Frames)
  BY DEF WireOK
<1>2. /\ n \in Nat /\ n >= 1 /\ v \in Seq(Frames) /\ Len(v) = n /\ DOMAIN v = 1..n
      /\ DOMAIN w = 1..n /\ Head(w) = w[1] /\ v[1] = rest /\ \A i \in 2..n : v[i] = w[i]
  BY <1>1
<1> HIDE DEF v
<1>3. \A i \in 1..n :
         /\ w[i].type = "inventory" => i = n /\ place \in {"await", "error"}
         /\ w[i].type = "entries" =>
               \A j \in DOMAIN w[i].body : Offers(offered, w[i].body[j].dev)
  BY <1>2 DEF WireOK
<1>4. ASSUME NEW j \in DOMAIN rest.body PROVE Offers(offered, rest.body[j].dev)
  <2> DEFINE body == w[1].body
  <2>0. 1 \in 1..n /\ w[1].type = "entries"
    BY <1>2
  <2>1. \A k \in DOMAIN body : Offers(offered, body[k].dev)
    BY <1>3, <2>0
  <2>2. PICK k \in DOMAIN body : rest.body[j] = body[k]
    BY <1>2
  <2> QED BY <2>1, <2>2
<1>5. \A i \in 1..n : i = 1 \/ i \in 2..n
  BY <1>2
<1>6. WireOK(v, offered, place)
  BY <1>2, <1>3, <1>4, <1>5 DEF WireOK
<1> QED BY <1>6 DEF v

\* The answer to an inventory finds no other frame.
LEMMA WireAnswer ==
    ASSUME NEW w, NEW offered, NEW place, WireOK(w, offered, place), w # <<>>,
           Head(w).type = "inventory"
    PROVE  Tail(w) = <<>> /\ Head(w).body \in Seq(HeadType) /\ Head(w) \in Frames
<1>1. w \in Seq(Frames)
  BY DEF WireOK
<1>2. Head(w) = w[1] /\ 1 \in DOMAIN w /\ Len(w) \in Nat
  BY <1>1
<1>3. Len(w) = 1
  BY <1>2 DEF WireOK
<1>4. Tail(w) = <<>>
  <2>1. Tail(w) \in Seq(Frames) /\ Len(Tail(w)) = 0
    BY <1>1, <1>3
  <2> QED BY <2>1, EmptySeq
<1>5. Head(w) \in Frames
  BY <1>1, <1>2
<1> QED BY <1>4, <1>5, LoadType

LEMMA WireEmpty ==
    ASSUME NEW offered, NEW place
    PROVE  WireOK(<<>>, offered, place)
BY DEF WireOK

\* Marks end inventories and streams, and carry nothing.
LEMMA WireMark ==
    ASSUME NEW w, NEW offered, NEW place, NEW next, WireOK(w, offered, place),
           place \notin {"await", "error"}, NEW fr \in Marks,
           NEW got, NEW sent, \E f : Counts(f, w, got, sent)
    PROVE  WireOK(w \o <<fr>>, offered, next) /\ \E f : Counts(f, w \o <<fr>>, got, sent)
<1>1. fr \in Frames /\ fr.type \notin {"inventory", "entries"}
  BY DEF Frames, Marks
<1>2. Load(fr) = 0 /\ w \in Seq(Frames)
  BY <1>1, LoadType DEF WireOK
<1>3. WireOK(w \o <<fr>>, offered, next)
  BY <1>1, WireSend
<1>4. PICK f : Counts(f, w, got, sent)
  OBVIOUS
<1>5. sent \in Nat
  BY <1>2, <1>4, CountsBound
<1>6. \E g : Counts(g, w \o <<fr>>, got, sent + Load(fr))
  BY <1>1, <1>2, <1>4, CountsSend
<1>7. sent + Load(fr) = sent
  BY <1>2, <1>5
<1> QED BY <1>3, <1>6, <1>7


-----------------------------------------------------------------------------
(* The session's own steps *)

LEMMA FieldNames ==
    SessionFields = {"dialer", "round", "moved", "pending", "skipped", "disturbed", "place",
                     "from", "to", "after", "page", "start", "chains", "sent", "owes",
                     "expect", "offered", "got", "wire"}
BY DEF SessionFields, Session

\* What a step of the session may change.
LEMMA SameStores ==
    ASSUME SInv, UNCHANGED <<db, faults>>, sess' # NoSession => SessionOK(sess')
    PROVE  SInv'
BY DEF SInv

\* A direction begins with nothing sent.
LEMMA BeginsOK ==
    ASSUME NEW x \in Node, NEW y \in Node, NEW r
    PROVE  SessionOK(Session(x, y, r))
<1> DEFINE z == Session(x, y, r)
<1>1. /\ DOMAIN z = SessionFields /\ z.from = x /\ z.to = y /\ z.dialer = x
      /\ z.owes = FALSE /\ z.chains = 0 /\ z.sent = 0 /\ z.offered = <<>> /\ z.page = <<>>
      /\ z.wire = <<>> /\ z.got = 0
  BY FieldNames DEF Session
<1> HIDE DEF z
<1>2. EntriesPerSession \in Nat /\ ChainsPerSession \in Nat
  BY SessionAssumption
<1>3. <<>> \in Seq(HeadType) /\ <<>> \in Seq(PageType) /\ DOMAIN <<>> = {}
  OBVIOUS
<1>4. WireOK(z.wire, z.offered, z.place)
  BY <1>1, WireEmpty
<1>5. \E f : Counts(f, z.wire, z.got, z.sent)
  BY <1>1, CountsNone
<1>6. \A i \in DOMAIN z.page : Offers(z.offered, z.page[i].head.dev)
  BY <1>1, <1>3
<1>7. /\ z.chains \in Nat /\ z.chains <= ChainsPerSession
      /\ z.sent \in Nat /\ z.sent <= EntriesPerSession
  BY <1>1, <1>2
<1>8. z.owes \in BOOLEAN
  BY <1>1, Zenon
<1>9. SessionOK(z)
  BY <1>1, <1>3, <1>4, <1>5, <1>6, <1>7, <1>8 DEF SessionOK
<1> QED BY <1>9 DEF z

LEMMA TurnsOK ==
    ASSUME NEW x, SessionOK(x)
    PROVE  SessionOK(Turned(x))
<1> DEFINE z == Session(x.to, x.from, x.round)
           y == Turned(x)
<1>1. SessionOK(z)
  BY BeginsOK DEF SessionOK
<1> HIDE DEF z
<1>2. DOMAIN z = SessionFields
  BY <1>1 DEF SessionOK
<1>3. /\ DOMAIN y = SessionFields /\ y.from = z.from /\ y.to = z.to /\ y.dialer = x.dialer
      /\ y.owes = z.owes /\ y.chains = z.chains /\ y.sent = z.sent
      /\ y.offered = z.offered /\ y.page = z.page
      /\ y.wire = z.wire /\ y.got = z.got /\ y.place = z.place
  <2>1. y = [z EXCEPT !.dialer = x.dialer, !.moved = x.moved, !.pending = x.pending,
                      !.skipped = x.skipped, !.disturbed = x.disturbed]
    BY DEF Turned, z
  <2> QED BY <1>2, <2>1, FieldNames
<1> HIDE DEF y
<1>4. x.dialer \in Node
  BY DEF SessionOK
<1>5. SessionOK(y)
  BY <1>1, <1>3, <1>4 DEF SessionOK
<1> QED BY <1>5 DEF y

\* Nothing is said of the fields a step may set freely.
LEMMA FreeFields ==
    ASSUME NEW x, SessionOK(x), NEW y, DOMAIN y = SessionFields,
           y.from = x.from, y.to = x.to, y.dialer = x.dialer, y.owes \in BOOLEAN,
           y.chains \in Nat, y.chains <= ChainsPerSession,
           y.sent = x.sent, y.offered = x.offered, y.page = x.page, y.got = x.got,
           WireOK(y.wire, y.offered, y.place), \E f : Counts(f, y.wire, y.got, y.sent)
    PROVE  SessionOK(y)
BY DEF SessionOK

LEMMA ErrorOK ==
    ASSUME NEW x, SessionOK(x)
    PROVE  SessionOK([x EXCEPT !.place = "error"])
<1> DEFINE y == [x EXCEPT !.place = "error"]
<1>1. /\ DOMAIN x = SessionFields /\ x.owes \in BOOLEAN
      /\ x.chains \in Nat /\ x.chains <= ChainsPerSession
  BY DEF SessionOK
<1>2. /\ DOMAIN y = SessionFields /\ y.from = x.from /\ y.to = x.to /\ y.dialer = x.dialer
      /\ y.owes = x.owes /\ y.chains = x.chains /\ y.sent = x.sent
      /\ y.offered = x.offered /\ y.page = x.page
      /\ y.wire = x.wire /\ y.got = x.got /\ y.place = "error"
  BY <1>1, FieldNames
<1> HIDE DEF y
<1>3. WireOK(y.wire, y.offered, y.place)
  <2>1. WireOK(x.wire, x.offered, x.place)
    BY DEF SessionOK
  <2>2. WireOK(x.wire, x.offered, "error")
    BY <2>1 DEF WireOK
  <2> QED BY <1>2, <2>2
<1>4. \E f : Counts(f, y.wire, y.got, y.sent)
  BY <1>2 DEF SessionOK
<1>5. SessionOK(y)
  BY <1>1, <1>2, <1>3, <1>4, FreeFields
<1> QED BY <1>5 DEF y

\* Streams end with two marks.
LEMMA EndStreamOK ==
    ASSUME NEW x, SessionOK(x), x.place \notin {"await", "error"}, NEW owes \in BOOLEAN
    PROVE  SessionOK(EndStream(x, owes))
<1> DEFINE y == EndStream(x, owes)
           a == Frame("streamdone", owes)
           b == Frame("done", owes)
           v == x.wire \o <<a>>
<1>1. /\ DOMAIN x = SessionFields /\ x.wire \in Seq(Frames)
      /\ x.chains \in Nat /\ x.chains <= ChainsPerSession
  BY DEF SessionOK, WireOK
<1>2. a \in Marks /\ b \in Marks
  BY DEF Frame, Marks
<1>3. a \in Frames /\ b \in Frames
  BY <1>2 DEF Marks, Frames
<1>4. /\ DOMAIN y = SessionFields /\ y.from = x.from /\ y.to = x.to /\ y.dialer = x.dialer
      /\ y.owes = owes /\ y.chains = x.chains /\ y.sent = x.sent
      /\ y.offered = x.offered /\ y.page = x.page
      /\ y.wire = x.wire \o <<a, b>> /\ y.got = x.got /\ y.place = "sent"
  BY <1>1, FieldNames DEF EndStream
<1> HIDE DEF y, a, b
<1>5. x.wire \o <<a, b>> = v \o <<b>>
  <2> DEFINE u == <<a>> \o <<b>>
             z == <<a, b>>
  <2>1. /\ <<a>> \in Seq(Frames) /\ <<b>> \in Seq(Frames)
        /\ u \in Seq(Frames) /\ Len(u) = 2 /\ u[1] = a /\ u[2] = b
    BY <1>3
  <2>2. z \in Seq(Frames) /\ Len(z) = 2 /\ z[1] = a /\ z[2] = b
    BY <1>3
  <2>3. \A i \in 1..2 : i = 1 \/ i = 2
    OBVIOUS
  <2> HIDE DEF u, z
  <2>4. z = u
    BY <2>1, <2>2, <2>3, SeqEqual
  <2>5. <<a, b>> = <<a>> \o <<b>>
    BY <2>4 DEF u, z
  <2>6. \A w \in Seq(Frames), y1 \in Seq(Frames), y2 \in Seq(Frames) :
           (w \o y1) \o y2 = w \o (y1 \o y2)
    BY ConcatAssociative
  <2>7. (x.wire \o <<a>>) \o <<b>> = x.wire \o (<<a>> \o <<b>>)
    BY <1>1, <2>1, <2>6
  <2> QED BY <2>5, <2>7
<1>6. /\ WireOK(x.wire, x.offered, x.place)
      /\ \E f : Counts(f, x.wire, x.got, x.sent)
  BY DEF SessionOK
<1>7. WireOK(v, x.offered, "sent") /\ \E f : Counts(f, v, x.got, x.sent)
  BY <1>2, <1>6, WireMark
<1> HIDE DEF v
<1>8. "sent" \notin {"await", "error"}
  OBVIOUS
<1>9. WireOK(v \o <<b>>, x.offered, "sent") /\ \E f : Counts(f, v \o <<b>>, x.got, x.sent)
  BY <1>2, <1>7, <1>8, WireMark
<1>10. SessionOK(y)
  BY <1>1, <1>4, <1>5, <1>9, FreeFields
<1> QED BY <1>10 DEF y

\* An inventory is offered, or the stream ends.
LEMMA OfferKeeps ==
    ASSUME SInv, Offer
    PROVE  SInv'
<1> DEFINE x == sess
           s == db[sess.from]
           owes == IF x.place = "start" THEN StreamPending(s) ELSE x.owes
           room == ChainsPerSession - x.chains
           limit == IF room < ChainsPerPage THEN room ELSE ChainsPerPage
           page == ChainPage(s, x.after, limit)
           fr == Frame("inventory", page)
           y == [x EXCEPT !.place = "await", !.owes = owes, !.chains = @ + Len(page),
                          !.wire = x.wire \o <<fr>>]
<1>1. sess # NoSession /\ SessionOK(x) /\ x.place \in {"start", "offer"} /\ UNCHANGED <<db, faults>>
  BY DEF SInv, Offer
<1>2. sess' \in {[x EXCEPT !.place = "error"], EndStream(x, owes), y}
  BY Zenon DEF Offer, Put
<1>3. /\ DOMAIN x = SessionFields /\ x.owes \in BOOLEAN /\ x.wire \in Seq(Frames)
      /\ x.chains \in Nat /\ x.chains <= ChainsPerSession
      /\ WireOK(x.wire, x.offered, x.place) /\ \E f : Counts(f, x.wire, x.got, x.sent)
      /\ x.from \in Node
  BY <1>1 DEF SessionOK, WireOK
<1>4. StoreKept(s)
  BY <1>3 DEF SInv
<1>5. owes \in BOOLEAN
  BY <1>3 DEF StreamPending
<1>6. limit \in Nat /\ limit <= room /\ room \in Int
  BY <1>3, SessionAssumption
<1> HIDE DEF owes, limit, s
<1>7. page \in Seq(HeadType) /\ Len(page) \in Nat /\ Len(page) <= limit
  BY <1>4, <1>6, PageOfHeads
<1> HIDE DEF page
<1>8. /\ fr \in Frames /\ fr.type = "inventory" /\ Load(fr) = 0
  BY <1>7 DEF Frame, Frames, Load
<1>9. /\ DOMAIN y = SessionFields /\ y.from = x.from /\ y.to = x.to /\ y.dialer = x.dialer
      /\ y.owes = owes /\ y.chains = x.chains + Len(page) /\ y.sent = x.sent
      /\ y.offered = x.offered /\ y.page = x.page
      /\ y.wire = x.wire \o <<fr>> /\ y.got = x.got /\ y.place = "await"
  BY <1>3, FieldNames
<1>10. y.chains \in Nat /\ y.chains <= ChainsPerSession
  <2>1. ChainsPerSession \in Nat
    BY SessionAssumption
  <2>2. Len(page) <= room
    BY <1>6, <1>7
  <2> QED BY <1>3, <1>7, <1>9, <2>1, <2>2
<1> HIDE DEF fr
<1>11. WireOK(y.wire, y.offered, y.place)
  <2>1. x.place \notin {"await", "error"}
    BY <1>1
  <2> QED BY <1>3, <1>8, <1>9, <2>1, WireSend
<1>12. \E f : Counts(f, y.wire, y.got, y.sent)
  <2>1. PICK f : Counts(f, x.wire, x.got, x.sent)
    BY <1>3
  <2>2. \E g : Counts(g, x.wire \o <<fr>>, x.got, x.sent + Load(fr))
    BY <1>3, <1>8, <2>1, CountsSend
  <2>3. x.sent + Load(fr) = x.sent
    BY <1>3, <1>8, <2>1, CountsBound
  <2> QED BY <1>9, <2>2, <2>3
<1> HIDE DEF y
<1>13. SessionOK(y)
  BY <1>1, <1>5, <1>9, <1>10, <1>11, <1>12, FreeFields
<1>14. SessionOK(EndStream(x, owes))
  BY <1>1, <1>5, EndStreamOK
<1>15. SessionOK([x EXCEPT !.place = "error"])
  BY <1>1, ErrorOK
<1>16. SessionOK(sess')
  BY <1>2, <1>13, <1>14, <1>15
<1> QED BY <1>1, <1>16, SameStores

\* The answer takes the place of the inventory: the receiver keeps its heads,
\* the sender the frontiers.
LEMMA AnswerKeeps ==
    ASSUME SInv, Answer
    PROVE  SInv'
<1> DEFINE x == sess
           w == x.wire
           heads == Head(w).body
           t == db[x.to]
           page == [i \in DOMAIN heads |->
                      [head |-> heads[i], frontier |-> ChainFrontier(t, heads[i].dev)]]
           y == sess'
<1>1. /\ sess # NoSession /\ SessionOK(x) /\ w # <<>> /\ Head(w).type = "inventory"
      /\ UNCHANGED <<db, faults>>
  BY DEF SInv, Answer
<1>2. /\ DOMAIN x = SessionFields /\ WireOK(w, x.offered, x.place) /\ x.to \in Node
      /\ w \in Seq(Frames)
  BY <1>1 DEF SessionOK, WireOK
<1>3. Tail(w) = <<>> /\ heads \in Seq(HeadType) /\ Head(w) \in Frames
  BY <1>1, <1>2, WireAnswer
<1>4. /\ DOMAIN y = SessionFields /\ y.from = x.from /\ y.to = x.to /\ y.dialer = x.dialer
      /\ y.owes = x.owes /\ y.chains = x.chains /\ y.sent = x.sent
      /\ y.offered = heads /\ y.page = page /\ y.wire = Tail(w) /\ y.got = x.got
  <2>1. sess' = [sess EXCEPT
                  !.wire = Tail(w), !.expect = "page", !.offered = heads,
                  !.place = "serve", !.start = NoStart, !.after = Last(heads).dev,
                  !.page = page]
    BY <1>2, FieldNames DEF Answer
  <2> HIDE DEF page, heads, w
  <2> QED BY <1>2, <2>1, FieldNames
<1>5. t \in Store
  BY <1>2 DEF SInv
<1> HIDE DEF heads, t, y
<1>6. \A i \in DOMAIN heads : heads[i] \in HeadType /\ heads[i].dev \in Device
  BY <1>3 DEF HeadType
<1>7. /\ page \in Seq(PageType)
      /\ \A i \in DOMAIN page : Offers(heads, page[i].head.dev)
  <2>1. \A i \in DOMAIN heads : page[i] \in PageType /\ page[i].head = heads[i]
    BY <1>5, <1>6 DEF PageType
  <2>2. Len(heads) \in Nat /\ DOMAIN heads = 1..Len(heads) /\ DOMAIN page = DOMAIN heads
    BY <1>3
  <2> HIDE DEF page
  <2>3. page \in [1..Len(heads) -> PageType]
    <3>1. page = [i \in 1..Len(heads) |-> page[i]]
      BY <2>2 DEF page
    <3> QED BY <2>1, <2>2, <3>1
  <2>4. page \in Seq(PageType)
    BY <2>2, <2>3
  <2>5. \A i \in DOMAIN page : Offers(heads, page[i].head.dev)
    BY <2>1, <2>2 DEF Offers
  <2> QED BY <2>4, <2>5
<1> HIDE DEF page
<1>8. WireOK(y.wire, y.offered, y.place)
  BY <1>3, <1>4, WireEmpty
<1>9. \E f : Counts(f, y.wire, y.got, y.sent)
  <2>1. PICK f : Counts(f, w, x.got, x.sent)
    BY <1>1 DEF SessionOK
  <2>2. Load(Head(w)) = 0
    BY <1>1 DEF Load
  <2>3. \E g : Counts(g, Tail(w), x.got + Load(Head(w)), x.sent)
    BY <1>1, <1>2, <2>1, CountsReceive
  <2>4. x.got + Load(Head(w)) = x.got
    BY <1>2, <2>1, <2>2, CountsBound
  <2> QED BY <1>4, <2>3, <2>4
<1>10. SessionOK(y)
  BY <1>1, <1>3, <1>4, <1>7, <1>8, <1>9 DEF SessionOK
<1>11. SessionOK(sess')
  BY <1>10 DEF y
<1> QED BY <1>1, <1>11, SameStores

\* The chains still to serve are among those offered.
LEMMA RestOffered ==
    ASSUME NEW x, SessionOK(x), x.page # <<>>
    PROVE  /\ Tail(x.page) \in Seq(PageType)
           /\ \A i \in DOMAIN Tail(x.page) : Offers(x.offered, Tail(x.page)[i].head.dev)
           /\ Head(x.page) \in PageType /\ Offers(x.offered, Head(x.page).head.dev)
<1> DEFINE p == x.page
           n == Len(p)
           v == Tail(p)
<1>1. p \in Seq(PageType) /\ \A i \in DOMAIN p : Offers(x.offered, p[i].head.dev)
  BY DEF SessionOK
<1> HIDE DEF p
<1>2. p # <<>>
  BY DEF p
<1>3. /\ n \in Nat /\ v \in Seq(PageType) /\ DOMAIN v = 1..(n - 1) /\ DOMAIN p = 1..n
      /\ Head(p) = p[1] /\ 1 \in 1..n /\ \A i \in 1..(n - 1) : v[i] = p[i + 1] /\ i + 1 \in 1..n
  BY <1>1, <1>2
<1>4. Head(p) \in PageType /\ Offers(x.offered, Head(p).head.dev)
  BY <1>1, <1>3
<1> HIDE DEF v, n
<1>5. \A i \in DOMAIN v : Offers(x.offered, v[i].head.dev)
  BY <1>1, <1>3
<1> QED BY <1>3, <1>4, <1>5 DEF p, v

\* The chains to serve may become fewer.
LEMMA ServesFewer ==
    ASSUME NEW x, SessionOK(x), NEW y, DOMAIN y = SessionFields,
           y.from = x.from, y.to = x.to, y.dialer = x.dialer, y.owes \in BOOLEAN,
           y.chains = x.chains, y.sent = x.sent, y.offered = x.offered, y.got = x.got,
           y.wire = x.wire, y.place = x.place,
           y.page = Tail(x.page), x.page # <<>>
    PROVE  SessionOK(y)
<1>1. /\ y.page \in Seq(PageType)
      /\ \A i \in DOMAIN y.page : Offers(y.offered, y.page[i].head.dev)
  BY RestOffered
<1> QED BY <1>1 DEF SessionOK

LEMMA PassOverKeeps ==
    ASSUME SInv, PassOver
    PROVE  SInv'
<1> DEFINE x == sess
           y == sess'
           owes == x.owes \/ Plan.plan = "pending"
           skipped == IF Plan.plan = "diverged" THEN x.skipped \cup {Serving.head.dev} ELSE x.skipped
<1>1. sess # NoSession /\ SessionOK(x) /\ x.page # <<>> /\ UNCHANGED <<db, faults>>
  BY DEF SInv, PassOver, MayServe
<1>2. DOMAIN x = SessionFields
  BY <1>1 DEF SessionOK
<1>3. y = [x EXCEPT !.page = Tail(x.page), !.owes = owes, !.skipped = skipped]
  BY <1>2, FieldNames DEF PassOver
<1>4. owes \in BOOLEAN
  OBVIOUS
<1> HIDE DEF owes, skipped
<1>5. /\ DOMAIN y = SessionFields /\ y.from = x.from /\ y.to = x.to /\ y.dialer = x.dialer
      /\ y.owes = owes /\ y.chains = x.chains /\ y.sent = x.sent
      /\ y.offered = x.offered /\ y.page = Tail(x.page) /\ y.wire = x.wire /\ y.got = x.got
      /\ y.place = x.place
  BY <1>2, <1>3, FieldNames
<1>6. SessionOK(y)
  BY <1>1, <1>4, <1>5, ServesFewer
<1> QED BY <1>1, <1>6, SameStores

\* A read gives entries, nothing, or an error.
LEMMA ReadKinds ==
    ASSUME NEW s, NEW d, NEW start, NEW limit
    PROVE  ChainEntries(s, d, start, limit).kind \in {"page", "skip", "error"}
<1>1. \/ \E es : ChainEntries(s, d, start, limit) = [kind |-> "page", entries |-> es]
      \/ ChainEntries(s, d, start, limit) \in
            {[kind |-> "skip", entries |-> <<>>], [kind |-> "error", entries |-> <<>>]}
  BY Zenon DEF ChainEntries
<1> QED BY <1>1

LEMMA EndChainKeeps ==
    ASSUME SInv, EndChain
    PROVE  SInv'
<1> DEFINE x == sess
           y == sess'
           owes == x.owes \/ ~Delivered(Cursor0, Serving.head.tip)
           skipped == x.skipped \cup {Serving.head.dev}
           error == [x EXCEPT !.place = "error"]
           skip == [x EXCEPT !.page = Tail(x.page), !.start = NoStart, !.skipped = skipped]
           done == [x EXCEPT !.page = Tail(x.page), !.start = NoStart, !.owes = owes]
<1>1. sess # NoSession /\ SessionOK(x) /\ x.page # <<>> /\ UNCHANGED <<db, faults>>
  BY DEF SInv, EndChain, MayServe
<1>2. DOMAIN x = SessionFields /\ x.owes \in BOOLEAN
  BY <1>1 DEF SessionOK
<1>3. Read.kind \in {"page", "skip", "error"}
  BY ReadKinds DEF Read
<1>4. y \in {error, skip, done}
  <2>1. /\ Read.kind = "error" => y = error
        /\ Read.kind = "skip" => y = skip
        /\ Read.kind = "page" => y = done
    <3> HIDE DEF y
    <3>1. y = CASE Read.kind = "error" -> error
                [] Read.kind = "skip" -> skip
                [] Read.kind = "page" -> done
      BY <1>2, FieldNames DEF EndChain, y
    <3> HIDE DEF error, skip, done
    <3> QED BY <3>1
  <2> QED BY <1>3, <2>1
<1>5. owes \in BOOLEAN
  OBVIOUS
<1> HIDE DEF owes, skipped, y
<1>6. SessionOK(error)
  BY <1>1, ErrorOK
<1> HIDE DEF error
<1>7. SessionOK(skip)
  <2>1. /\ DOMAIN skip = SessionFields /\ skip.from = x.from /\ skip.to = x.to
        /\ skip.dialer = x.dialer /\ skip.owes = x.owes /\ skip.chains = x.chains
        /\ skip.sent = x.sent /\ skip.offered = x.offered /\ skip.page = Tail(x.page)
        /\ skip.wire = x.wire /\ skip.got = x.got /\ skip.place = x.place
    BY <1>2, FieldNames
  <2> HIDE DEF skip
  <2> QED BY <1>1, <1>2, <2>1, ServesFewer
<1> HIDE DEF skip
<1>8. SessionOK(done)
  <2>1. /\ DOMAIN done = SessionFields /\ done.from = x.from /\ done.to = x.to
        /\ done.dialer = x.dialer /\ done.owes = owes /\ done.chains = x.chains
        /\ done.sent = x.sent /\ done.offered = x.offered /\ done.page = Tail(x.page)
        /\ done.wire = x.wire /\ done.got = x.got /\ done.place = x.place
    BY <1>2, FieldNames
  <2> HIDE DEF done
  <2> QED BY <1>1, <1>5, <2>1, ServesFewer
<1> HIDE DEF done
<1>9. SessionOK(sess')
  BY <1>4, <1>6, <1>7, <1>8 DEF y
<1> QED BY <1>1, <1>9, SameStores

\* A page of entries is of a chain that was offered, and within the cap.
LEMMA SendPageKeeps ==
    ASSUME SInv, SendPage
    PROVE  SInv'
<1> DEFINE x == sess
           y == sess'
           d == Serving.head.dev
           s == db[x.from]
           limit == IF EntriesPerPage < EntriesPerSession - x.sent
                    THEN EntriesPerPage ELSE EntriesPerSession - x.sent
           es == Read.entries
           start == [kind |-> "after", at |-> CursorOf(Last(es))]
           fr == Frame("entries", es)
<1>1. /\ sess # NoSession /\ SessionOK(x) /\ x.page # <<>> /\ UNCHANGED <<db, faults>>
      /\ x.place = "serve" /\ x.sent < EntriesPerSession /\ es # <<>>
  BY DEF SInv, SendPage, MayServe
<1>2. /\ DOMAIN x = SessionFields /\ x.from \in Node /\ x.sent \in Nat
      /\ x.owes \in BOOLEAN /\ x.wire \in Seq(Frames)
      /\ WireOK(x.wire, x.offered, x.place) /\ \E f : Counts(f, x.wire, x.got, x.sent)
  BY <1>1 DEF SessionOK, WireOK
<1>3. y = [x EXCEPT !.start = start, !.sent = x.sent + Len(es), !.moved = TRUE,
                    !.wire = x.wire \o <<fr>>]
  BY <1>2, FieldNames DEF SendPage, Put
<1>4. Head(x.page) \in PageType /\ Offers(x.offered, d)
  BY <1>1, RestOffered DEF Serving
<1>5. d \in Device
  BY <1>4 DEF PageType, HeadType, Serving
<1>6. limit \in Nat /\ limit <= EntriesPerSession - x.sent /\ EntriesPerSession \in Nat
  BY <1>1, <1>2, SessionAssumption
<1>7. StoreKept(s)
  BY <1>2 DEF SInv
<1>8. es = ChainEntries(s, d, Cursor0, limit).entries
  BY DEF Read
<1> HIDE DEF es, limit, s, d, start, y
<1>9. es \in Seq(Chain(s, d)) /\ Len(es) <= limit
  BY <1>5, <1>6, <1>7, <1>8, ReadsChain
<1>10. Chain(s, d) \subseteq Entry /\ \A e \in Chain(s, d) : e.dev = d
  BY <1>7 DEF StoreKept, StoreInv, Store, Chain
<1>11. es \in Seq(Entry) /\ \A j \in DOMAIN es : es[j].dev = d
  <2>1. Len(es) \in Nat /\ DOMAIN es = 1..Len(es) /\ \A j \in 1..Len(es) : es[j] \in Chain(s, d)
    BY <1>9
  <2>2. es \in [1..Len(es) -> Entry]
    BY <1>9, <1>10, <2>1
  <2> QED BY <1>10, <2>1, <2>2
<1>12. fr \in Frames /\ fr.type = "entries" /\ fr.body = es /\ Load(fr) = Len(es) /\ Len(es) \in Nat
  BY <1>1, <1>11 DEF Frame, Frames, Load
<1> HIDE DEF fr
<1>13. /\ DOMAIN y = SessionFields /\ y.from = x.from /\ y.to = x.to /\ y.dialer = x.dialer
       /\ y.owes = x.owes /\ y.chains = x.chains /\ y.sent = x.sent + Len(es)
       /\ y.offered = x.offered /\ y.page = x.page /\ y.wire = x.wire \o <<fr>>
       /\ y.got = x.got /\ y.place = x.place
  BY <1>2, <1>3, FieldNames
<1>14. y.sent \in Nat /\ y.sent <= EntriesPerSession
  BY <1>2, <1>6, <1>9, <1>12, <1>13
<1>15. WireOK(y.wire, y.offered, y.place)
  <2>1. x.place \notin {"await", "error"} /\ fr.type # "inventory"
    BY <1>1, <1>12
  <2>2. \A j \in DOMAIN fr.body : Offers(x.offered, fr.body[j].dev)
    BY <1>4, <1>11, <1>12
  <2> QED BY <1>2, <1>12, <1>13, <2>1, <2>2, WireSend
<1>16. \E f : Counts(f, y.wire, y.got, y.sent)
  <2>1. PICK f : Counts(f, x.wire, x.got, x.sent)
    BY <1>2
  <2>2. \E g : Counts(g, x.wire \o <<fr>>, x.got, x.sent + Load(fr))
    BY <1>2, <1>12, <2>1, CountsSend
  <2> QED BY <1>12, <1>13, <2>2
<1>17. SessionOK(y)
  BY <1>1, <1>13, <1>14, <1>15, <1>16 DEF SessionOK
<1>18. SessionOK(sess')
  BY <1>17 DEF y
<1> QED BY <1>1, <1>18, SameStores

\* The inventory's end is a mark, and so are the two ends of the stream.
LEMMA EndInventoryKeeps ==
    ASSUME SInv, EndInventory
    PROVE  SInv'
<1> DEFINE x == sess
           fr == Frame("invdone", 0)
           z == [x EXCEPT !.wire = x.wire \o <<fr>>, !.page = <<>>, !.start = NoStart]
           y == [z EXCEPT !.place = "offer"]
<1>1. sess # NoSession /\ SessionOK(x) /\ x.place = "serve" /\ UNCHANGED <<db, faults>>
  BY DEF SInv, EndInventory
<1>2. /\ DOMAIN x = SessionFields /\ x.owes \in BOOLEAN
      /\ WireOK(x.wire, x.offered, x.place) /\ \E f : Counts(f, x.wire, x.got, x.sent)
  BY <1>1 DEF SessionOK
<1>3. sess' \in {EndStream(z, TRUE), y}
  BY <1>2, FieldNames DEF EndInventory, Put
<1>4. fr \in Marks
  BY DEF Frame, Marks
<1> HIDE DEF fr
<1>5. /\ DOMAIN z = SessionFields /\ z.from = x.from /\ z.to = x.to /\ z.dialer = x.dialer
      /\ z.owes = x.owes /\ z.chains = x.chains /\ z.sent = x.sent
      /\ z.offered = x.offered /\ z.page = <<>> /\ z.wire = x.wire \o <<fr>>
      /\ z.got = x.got /\ z.place = x.place
  BY <1>2, FieldNames
<1> HIDE DEF z
<1>6. x.place \notin {"await", "error"}
  BY <1>1
<1>7. \A next : /\ WireOK(z.wire, z.offered, next)
                /\ \E f : Counts(f, z.wire, z.got, z.sent)
  BY <1>2, <1>4, <1>5, <1>6, WireMark
<1>8. z.page \in Seq(PageType) /\ \A i \in DOMAIN z.page : Offers(z.offered, z.page[i].head.dev)
  BY <1>5
<1>9. SessionOK(z)
  BY <1>1, <1>5, <1>7, <1>8 DEF SessionOK
<1>10. SessionOK(EndStream(z, TRUE))
  BY <1>5, <1>6, <1>9, EndStreamOK
<1>11. /\ DOMAIN y = SessionFields /\ y.from = z.from /\ y.to = z.to /\ y.dialer = z.dialer
       /\ y.owes = z.owes /\ y.chains = z.chains /\ y.sent = z.sent
       /\ y.offered = z.offered /\ y.page = z.page /\ y.wire = z.wire
       /\ y.got = z.got
  BY <1>5, FieldNames
<1> HIDE DEF y
<1>12. SessionOK(y)
  BY <1>7, <1>9, <1>11 DEF SessionOK
<1>13. SessionOK(sess')
  BY <1>3, <1>10, <1>12
<1> QED BY <1>1, <1>13, SameStores

\* Marks move the receiver on; a frame it does not expect fails the session.
LEMMA AdvanceKeeps ==
    ASSUME SInv, Advance
    PROVE  SInv'
<1> DEFINE x == sess
           w == x.wire
           type == Head(w).type
           y == [x EXCEPT !.wire = Tail(w), !.expect = Follow[type]]
<1>1. sess # NoSession /\ SessionOK(x) /\ w # <<>> /\ UNCHANGED <<db, faults>>
  BY DEF SInv, Advance
<1>2. /\ DOMAIN x = SessionFields /\ x.owes \in BOOLEAN /\ w \in Seq(Frames)
      /\ WireOK(w, x.offered, x.place) /\ \E f : Counts(f, w, x.got, x.sent)
      /\ x.chains \in Nat /\ x.chains <= ChainsPerSession
  BY <1>1 DEF SessionOK, WireOK
<1>3. sess' = [x EXCEPT !.place = "error"] \/ (type \in DOMAIN Follow /\ sess' = y)
  BY <1>2, FieldNames DEF Advance
<1>4. CASE sess' = [x EXCEPT !.place = "error"]
  <2>1. SessionOK(sess')
    BY <1>1, <1>4, ErrorOK
  <2> QED BY <1>1, <2>1, SameStores
<1>5. CASE type \in DOMAIN Follow /\ sess' = y
  <2>1. type # "entries"
    BY <1>5 DEF Follow
  <2>2. Load(Head(w)) = 0
    BY <2>1 DEF Load
  <2>3. /\ DOMAIN y = SessionFields /\ y.from = x.from /\ y.to = x.to /\ y.dialer = x.dialer
        /\ y.owes = x.owes /\ y.chains = x.chains /\ y.sent = x.sent
        /\ y.offered = x.offered /\ y.page = x.page /\ y.wire = Tail(w)
        /\ y.got = x.got /\ y.place = x.place
    BY <1>2, FieldNames
  <2> HIDE DEF y
  <2>4. WireOK(y.wire, y.offered, y.place)
    BY <1>1, <1>2, <2>3, WireReceive
  <2>5. \E f : Counts(f, y.wire, y.got, y.sent)
    <3>1. PICK f : Counts(f, w, x.got, x.sent)
      BY <1>2
    <3>2. \E g : Counts(g, Tail(w), x.got + Load(Head(w)), x.sent)
      BY <1>1, <1>2, <3>1, CountsReceive
    <3>3. x.got + Load(Head(w)) = x.got
      BY <1>2, <2>2, <3>1, CountsBound
    <3> QED BY <2>3, <3>2, <3>3
  <2>6. SessionOK(y)
    BY <1>1, <1>2, <2>3, <2>4, <2>5, FreeFields
  <2>7. SessionOK(sess')
    BY <1>5, <2>6
  <2> QED BY <1>1, <2>7, SameStores
<1> QED BY <1>3, <1>4, <1>5

-----------------------------------------------------------------------------
(* The steps that change a store *)

LEMMA OneStore ==
    ASSUME SInv, NEW n \in Node, NEW t, StoreKept(t), db' = [db EXCEPT ![n] = t],
           faults' \in 0..MaxFaults, sess' # NoSession => SessionOK(sess')
    PROVE  SInv'
<1>1. t \in Store
  BY DEF StoreKept, StoreInv
<1>2. db' \in [Node -> Store]
  BY <1>1 DEF SInv
<1>3. ASSUME NEW m \in Node PROVE StoreKept(db'[m])
  BY DEF SInv
<1> QED BY <1>2, <1>3 DEF SInv

LEMMA TouchedOK ==
    ASSUME SInv, NEW n, sess' = Touched(n)
    PROVE  sess' # NoSession => SessionOK(sess')
<1> DEFINE x == sess
           y == [x EXCEPT !.disturbed = TRUE]
<1>1. CASE sess = NoSession
  BY <1>1 DEF Touched
<1>2. CASE sess # NoSession
  <2>1. SessionOK(x)
    BY <1>2 DEF SInv
  <2>2. /\ DOMAIN x = SessionFields /\ x.owes \in BOOLEAN
        /\ WireOK(x.wire, x.offered, x.place) /\ \E f : Counts(f, x.wire, x.got, x.sent)
        /\ x.chains \in Nat /\ x.chains <= ChainsPerSession
    BY <2>1 DEF SessionOK
  <2>3. /\ DOMAIN y = SessionFields /\ y.from = x.from /\ y.to = x.to /\ y.dialer = x.dialer
        /\ y.owes = x.owes /\ y.chains = x.chains /\ y.sent = x.sent
        /\ y.offered = x.offered /\ y.page = x.page /\ y.wire = x.wire
        /\ y.got = x.got /\ y.place = x.place
    BY <2>2, FieldNames
  <2>4. sess' \in {x, y}
    BY DEF Touched
  <2> HIDE DEF y
  <2>5. SessionOK(y)
    BY <2>1, <2>2, <2>3, FreeFields
  <2> QED BY <2>1, <2>4, <2>5
<1> QED BY <1>1, <1>2

LEMMA FaultCounted ==
    ASSUME SInv, Fault
    PROVE  faults' \in 0..MaxFaults
BY SessionAssumption DEF SInv, Fault

\* One entry of a frame is ingested against the head it was offered with.
LEMMA DeliverKeeps ==
    ASSUME SInv, Deliver
    PROVE  SInv'
<1> DEFINE x == sess
           w == x.wire
           body == Head(w).body
           e == Head(body)
           head == x.offered[CHOOSE i \in DOMAIN x.offered : x.offered[i].dev = e.dev]
           fr == Frame("entries", Tail(body))
           rest == IF Len(body) = 1 THEN Tail(w) ELSE <<fr>> \o Tail(w)
           t == Ingested(db[x.to], head, e)
           y == [x EXCEPT !.got = x.got + 1, !.wire = rest]
<1>1. /\ sess # NoSession /\ SessionOK(x) /\ w # <<>> /\ Head(w).type = "entries"
      /\ UNCHANGED faults
  BY DEF SInv, Deliver
<1>2. /\ DOMAIN x = SessionFields /\ x.owes \in BOOLEAN /\ w \in Seq(Frames)
      /\ WireOK(w, x.offered, x.place) /\ \E f : Counts(f, w, x.got, x.sent)
      /\ x.chains \in Nat /\ x.chains <= ChainsPerSession /\ x.to \in Node
      /\ x.offered \in Seq(HeadType)
  BY <1>1 DEF SessionOK, WireOK
<1>3. \/ sess' = [x EXCEPT !.place = "error"] /\ UNCHANGED db
      \/ /\ ~IngestFails(db[x.to], head, e)
         /\ sess' = y /\ db' = [db EXCEPT ![x.to] = t]
  BY <1>2, FieldNames DEF Deliver, SInv
<1>4. CASE sess' = [x EXCEPT !.place = "error"] /\ UNCHANGED db
  <2>1. SessionOK(sess')
    BY <1>1, <1>4, ErrorOK
  <2> QED BY <1>1, <1>4, <2>1, SameStores
<1>5. CASE /\ ~IngestFails(db[x.to], head, e)
           /\ sess' = y /\ db' = [db EXCEPT ![x.to] = t]
  <2>1. Head(w) \in Frames /\ Head(w) = w[1] /\ 1 \in DOMAIN w
    BY <1>1, <1>2
  <2>2. body \in Seq(Entry) /\ body # <<>> /\ Load(Head(w)) = Len(body)
    BY <1>1, <2>1, LoadType DEF Load
  <2>3. \A j \in DOMAIN body : Offers(x.offered, body[j].dev)
    BY <1>1, <1>2, <2>1 DEF WireOK
  <2> HIDE DEF body, w
  <2>4. e \in Entry /\ e = body[1] /\ 1 \in DOMAIN body /\ Len(body) \in Nat
    BY <2>2
  <2>5. head \in HeadType /\ head.dev = e.dev
    <3>1. \E i \in DOMAIN x.offered : x.offered[i].dev = e.dev
      BY <2>3, <2>4 DEF Offers
    <3> QED BY <1>2, <3>1
  <2> HIDE DEF e, head
  <2>6. StoreKept(t)
    BY <1>2, <1>5, <2>4, <2>5, IngestKeeps DEF SInv
  <2> HIDE DEF t
  <2>7. PICK f : Counts(f, w, x.got, x.sent)
    BY <1>2
  <2>8. WireOK(rest, x.offered, x.place) /\ \E g : Counts(g, rest, x.got + 1, x.sent)
    <3>1. CASE Len(body) = 1
      <4>1. WireOK(Tail(w), x.offered, x.place)
        BY <1>1, <1>2, WireReceive DEF w
      <4>2. \E g : Counts(g, Tail(w), x.got + Load(Head(w)), x.sent)
        BY <1>1, <1>2, <2>7, CountsReceive DEF w
      <4>3. rest = Tail(w) /\ Load(Head(w)) = 1
        BY <2>2, <3>1
      <4> QED BY <4>1, <4>2, <4>3
    <3>2. CASE Len(body) # 1
      <4>1. /\ Tail(body) \in Seq(Entry) /\ Len(Tail(body)) = Len(body) - 1
            /\ Tail(body) # <<>>
            /\ \A j \in DOMAIN Tail(body) : j + 1 \in DOMAIN body /\ Tail(body)[j] = body[j + 1]
        <5> DEFINE v == Tail(body)
        <5>1. v \in Seq(Entry) /\ Len(v) = Len(body) - 1 /\ DOMAIN v = 1..(Len(body) - 1)
          BY <2>2, <2>4
        <5>2. \A j \in 1..(Len(body) - 1) : v[j] = body[j + 1]
          BY <2>2, <2>4
        <5>3. \A j \in 1..(Len(body) - 1) : j + 1 \in DOMAIN body
          BY <2>2, <2>4
        <5>4. Len(body) - 1 # 0
          BY <2>4, <3>2
        <5> HIDE DEF v
        <5>5. v # <<>>
          BY <5>1, <5>4
        <5>6. \A j \in DOMAIN v : j + 1 \in DOMAIN body /\ v[j] = body[j + 1]
          BY <5>1, <5>2, <5>3
        <5> QED BY <5>1, <5>5, <5>6 DEF v
      <4>2. /\ fr \in Frames /\ fr.type = "entries" /\ fr.body = Tail(body)
            /\ Load(fr) = Len(body) - 1
        BY <4>1 DEF Frame, Frames, Load
      <4>3. rest = <<fr>> \o Tail(w)
        BY <3>2
      <4> HIDE DEF fr, rest
      <4>4. \A j \in DOMAIN fr.body : \E k \in DOMAIN Head(w).body : fr.body[j] = Head(w).body[k]
        BY <4>1, <4>2 DEF body
      <4>5. WireOK(rest, x.offered, x.place)
        BY <1>1, <1>2, <4>2, <4>3, <4>4, WireDeliver DEF w
      <4>6. Load(Head(w)) = Load(fr) + 1
        BY <2>2, <2>4, <4>2
      <4>7. \E g : Counts(g, rest, x.got + 1, x.sent)
        BY <1>1, <1>2, <2>7, <4>2, <4>3, <4>6, CountsDeliver DEF w
      <4> QED BY <4>5, <4>7
    <3> QED BY <3>1, <3>2
  <2> HIDE DEF rest
  <2>9. /\ DOMAIN y = SessionFields /\ y.from = x.from /\ y.to = x.to /\ y.dialer = x.dialer
        /\ y.owes = x.owes /\ y.chains = x.chains /\ y.sent = x.sent
        /\ y.offered = x.offered /\ y.page = x.page /\ y.wire = rest
        /\ y.got = x.got + 1 /\ y.place = x.place
    BY <1>2, FieldNames
  <2> HIDE DEF y
  <2>10. SessionOK(y)
    BY <1>1, <2>8, <2>9 DEF SessionOK
  <2>11. SessionOK(sess') /\ faults' \in 0..MaxFaults
    BY <1>1, <1>5, <2>10 DEF SInv
  <2> QED BY <1>2, <1>5, <2>6, <2>11, OneStore
<1> QED BY <1>3, <1>4, <1>5

\* Dialing, turning around and ending.
LEMMA TurnsKeep ==
    ASSUME SInv, \/ \E x, y \in Node : Dial(x, y)
                 \/ TurnAround \/ Finish \/ Abort
    PROVE  SInv'
<1>1. ASSUME NEW x \in Node, NEW y \in Node, Dial(x, y) PROVE SInv'
  <2>1. UNCHANGED <<db, faults>> /\ SessionOK(sess')
    BY <1>1, BeginsOK DEF Dial
  <2> QED BY <2>1, SameStores
<1>2. CASE TurnAround
  <2>1. UNCHANGED <<db, faults>> /\ SessionOK(sess')
    BY <1>2, TurnsOK DEF TurnAround, SInv
  <2> QED BY <2>1, SameStores
<1>3. CASE Finish
  <2>1. SessionOK(sess)
    BY <1>3 DEF Finish, Finished, SInv
  <2>2. SessionOK(Session(sess.dialer, sess.from, sess.round + 1))
    BY <2>1, BeginsOK DEF SessionOK
  <2>3. UNCHANGED <<db, faults>> /\ (sess' # NoSession => SessionOK(sess'))
    BY <1>3, <2>2 DEF Finish
  <2> QED BY <2>3, SameStores
<1>4. CASE Abort
  <2>1. faults' \in 0..MaxFaults
    BY <1>4, FaultCounted DEF Abort, SInv
  <2> QED BY <1>4, <2>1 DEF Abort, SInv
<1> QED BY <1>1, <1>2, <1>3, <1>4

\* Edits, compactions, purges and the sessions of others.
LEMMA OthersKeep ==
    ASSUME SInv, NEW n \in Node,
           \/ \E e \in Entry : Author(n, e) \/ Compact(n, e)
           \/ Purge(n)
           \/ \E m \in Node, d \in Device : SideSession(m, n, d)
    PROVE  SInv'
<1> DEFINE s == db[n]
<1>1. StoreKept(s) /\ db \in [Node -> Store] /\ faults \in 0..MaxFaults
  BY DEF SInv
<1>2. ASSUME NEW e \in Entry, Author(n, e) PROVE SInv'
  <2>1. StoreKept(InsertEntry(s, e, FALSE))
    BY <1>1, <1>2, AuthoredKeeps DEF Author
  <2>2. db' = [db EXCEPT ![n] = InsertEntry(s, e, FALSE)] /\ sess' = Touched(n)
    BY <1>1, <1>2 DEF Author
  <2>3. faults' \in 0..MaxFaults
    BY <1>1, <1>2 DEF Author
  <2> QED BY <2>1, <2>2, <2>3, TouchedOK, OneStore
<1>3. ASSUME NEW e \in Entry, Compact(n, e) PROVE SInv'
  <2>1. e \in s.accepted
    BY <1>3 DEF Compact, CompactionTargets, Chain
  <2>2. StoreKept(CompactPrefixes(s, {e}))
    BY <1>1, <2>1, CompactedKeeps
  <2>3. db' = [db EXCEPT ![n] = CompactPrefixes(s, {e})] /\ sess' = Touched(n) /\ Fault
    BY <1>1, <1>3 DEF Compact
  <2> QED BY <2>2, <2>3, FaultCounted, TouchedOK, OneStore
<1>4. CASE Purge(n)
  <2> DEFINE t == [s EXCEPT !.accepted = {}, !.pending = {}, !.gapped = {},
                            !.floor = [d \in Device |-> NoCursor]]
  <2>1. StoreKept(t)
    BY <1>1, PurgedKeeps
  <2>2. db' = [db EXCEPT ![n] = t] /\ sess' = Touched(n) /\ Fault
    BY <1>1, <1>4 DEF Purge
  <2> HIDE DEF t
  <2> QED BY <2>1, <2>2, FaultCounted, TouchedOK, OneStore
<1>5. ASSUME NEW m \in Node, NEW d \in Device, SideSession(m, n, d) PROVE SInv'
  <2> DEFINE head == ChainHead(db[m], d)
             plan == ChainPlan(head, ChainFrontier(db[n], d))
             es == ChainEntries(db[m], d, plan.start, 1).entries
             e == es[1]
  <2>1. /\ Chain(db[m], d) # {} /\ es # <<>> /\ ~IngestFails(s, head, e) /\ Fault
        /\ db' = [db EXCEPT ![n] = Ingested(s, head, e)] /\ sess' = Touched(n)
    BY <1>1, <1>5 DEF SideSession
  <2>2. StoreKept(db[m])
    BY DEF SInv
  <2>3. head \in HeadType /\ head.dev = d
    BY <2>1, <2>2, HeadsSigned
  <2>4. es \in Seq(Chain(db[m], d))
    BY <2>2, ReadsChain
  <2> HIDE DEF es, head
  <2>5. e \in Chain(db[m], d)
    BY <2>1, <2>4
  <2>6. e \in Entry /\ e.dev = d
    BY <2>2, <2>5 DEF StoreKept, StoreInv, Store, Chain
  <2>7. StoreKept(Ingested(s, head, e))
    BY <1>1, <2>1, <2>3, <2>6, IngestKeeps
  <2> QED BY <2>1, <2>7, FaultCounted, TouchedOK, OneStore
<1> QED BY <1>2, <1>3, <1>4, <1>5

-----------------------------------------------------------------------------
(* The theorems *)

LEMMA InitSInv == Init => SInv
<1> SUFFICES ASSUME Init PROVE SInv
  OBVIOUS
<1>1. ASSUME NEW n \in Node PROVE StoreKept(db[n])
  BY SeededKeeps DEF Init
<1>2. db = [n \in Node |-> db[n]]
  BY DEF Init
<1>3. \A n \in Node : db[n] \in Store
  BY <1>1 DEF StoreKept, StoreInv
<1>4. db \in [Node -> Store]
  BY <1>2, <1>3
<1>5. faults = 0 /\ sess = NoSession
  BY DEF Init
<1>6. 0 \in 0..MaxFaults
  BY SessionAssumption
<1> QED BY <1>1, <1>4, <1>5, <1>6 DEF SInv

LEMMA NextSInv == SInv /\ [Next]_vars => SInv'
<1> SUFFICES ASSUME SInv, [Next]_vars PROVE SInv'
  OBVIOUS
<1>1. CASE UNCHANGED vars
  BY <1>1 DEF SInv, vars
<1>2. CASE SessionStep
  BY <1>2, OfferKeeps, AnswerKeeps, PassOverKeeps, SendPageKeeps, EndChainKeeps,
     EndInventoryKeeps, DeliverKeeps, AdvanceKeeps, TurnsKeep DEF SessionStep
<1>3. CASE (\E x, y \in Node : Dial(x, y)) \/ Abort
  BY <1>3, TurnsKeep
<1>4. CASE \E n \in Node : \/ \E e \in Entry : Author(n, e) \/ Compact(n, e)
                           \/ Purge(n)
                           \/ \E m \in Node, d \in Device : SideSession(m, n, d)
  BY <1>4, OthersKeep
<1> QED BY <1>1, <1>2, <1>3, <1>4 DEF Next

\* What the sessions keep of every store and of themselves holds always.
THEOREM SessionInvariance == Spec => []SInv
<1>1. Init => SInv
  BY InitSInv
<1>2. SInv /\ [Next]_vars => SInv'
  BY NextSInv
<1> QED BY <1>1, <1>2, PTL DEF Spec

\* A suffix is owed only while its promised tip is ahead of the chain, whoever
\* moved the chain since the promise was read (ingest_received_against); no
\* direction receives more than was sent, nor sends past its cap.
THEOREM SessionsKeepStores == Spec => []SessionInv
<1>1. SInv => SessionInv
  <2> SUFFICES ASSUME SInv PROVE SessionInv
    OBVIOUS
  <2> USE CursorFields
  <2>1. sess # NoSession => sess.got <= sess.sent /\ sess.sent <= EntriesPerSession
    <3> SUFFICES ASSUME sess # NoSession
                 PROVE  sess.got <= sess.sent /\ sess.sent <= EntriesPerSession
      OBVIOUS
    <3>1. SessionOK(sess)
      BY DEF SInv
    <3>2. sess.wire \in Seq(Frames) /\ sess.sent <= EntriesPerSession
      BY <3>1 DEF SessionOK, WireOK
    <3>3. PICK f : Counts(f, sess.wire, sess.got, sess.sent)
      BY <3>1 DEF SessionOK
    <3> QED BY <3>2, <3>3, CountsBound
  <2>2. ASSUME NEW n \in Node, NEW d \in Honest
        PROVE  /\ ChainTail(db[n], d).lam <= db[n].tip[d].lam
               /\ db[n].cover[d] # NoObligation =>
                     ChainTail(db[n], d).lam < db[n].cover[d].tip.lam
    <3> DEFINE s == db[n]
    <3>1. StoreKept(s) /\ d \in Device
      BY DEF SInv, Honest
    <3>2. s.tip[d] \in Cursor /\ s \in Store
      BY <3>1 DEF StoreKept, StoreInv, Store
    <3>3. ChainTail(s, d).lam \in Nat /\ ChainTail(s, d).lam <= s.tip[d].lam
      <4>1. CASE Chain(s, d) = {}
        BY <3>2, <4>1 DEF ChainTail, NoCursor, Cursor
      <4>2. CASE Chain(s, d) # {}
        BY <3>1, <3>2, <4>2, TailIsTip DEF StoreKept, Cursor
      <4> QED BY <4>1, <4>2
    <3>4. s.cover[d] # NoObligation => s.tip[d].lam < s.cover[d].tip.lam /\ s.cover[d].tip.lam \in Nat
      <4> SUFFICES ASSUME s.cover[d] # NoObligation
                   PROVE  s.tip[d].lam < s.cover[d].tip.lam /\ s.cover[d].tip.lam \in Nat
        OBVIOUS
      <4>1. s.tip[d].lam < s.cover[d].tip.lam /\ Signed(d, s.cover[d].tip)
        BY <3>1 DEF StoreKept
      <4>2. PICK x \in Entry : CursorOf(x) = s.cover[d].tip
        BY <4>1 DEF Signed
      <4> QED BY <4>1, <4>2, EntryFields
    <3> HIDE DEF s
    <3>5. s.tip[d].lam \in Nat
      BY <3>2 DEF Cursor
    <3>6. s.cover[d] # NoObligation => ChainTail(s, d).lam < s.cover[d].tip.lam
      BY <3>3, <3>4, <3>5
    <3> QED BY <3>3, <3>6 DEF s
  <2> QED BY <2>1, <2>2 DEF SessionInv, SInv
<1> QED BY <1>1, SessionInvariance, PTL

-----------------------------------------------------------------------------
(* What a session reports *)

\* The sender has ended its stream.
Ended(x) ==
    \/ x.expect \in {"done", "end"}
    \/ \E i \in DOMAIN x.wire : x.wire[i].type \in {"streamdone", "done"}

\* The sender has looked at what its store owes.
Started(x) == x.place \notin {"start", "error"} \/ x.wire # <<>> \/ Ended(x)

\* Entries are in flight only if something moved.  Unless something moved or
\* was disturbed, what the sender's store s owes is in the sender's flag once
\* it started and in the session's report once it ended; in the second
\* direction, so is what the receiver's store t owes.
Told(x, s, t) ==
    /\ x.from # x.to
    /\ x.place = "start" => x.wire = <<>> /\ x.expect = "stream"
    /\ \A i \in DOMAIN x.wire : x.wire[i].type = "entries" => x.moved
    /\ Ended(x) => x.place \in {"sent", "error"} /\ (x.owes => x.pending)
    /\ ~x.disturbed /\ ~x.moved =>
          /\ Started(x) /\ StreamPending(s) => x.owes
          /\ x.from # x.dialer /\ StreamPending(t) => x.pending

OInv == sess # NoSession => Told(sess, db[sess.from], db[sess.to])

\* A step that sends nothing and ends nothing.
LEMMA ToldKept ==
    ASSUME NEW x, NEW s, NEW t, Told(x, s, t), NEW y, NEW s1, NEW t1,
           y.from = x.from, y.to = x.to, y.dialer = x.dialer,
           y.disturbed = x.disturbed, y.moved = x.moved, y.pending = x.pending,
           y.place \in {x.place, "error"}, y.place = "start" => y.expect = x.expect,
           x.owes => y.owes, y.owes = x.owes \/ ~Ended(x),
           \A j \in DOMAIN y.wire : \E i \in DOMAIN x.wire : y.wire[j].type = x.wire[i].type,
           y.wire # <<>> => x.wire # <<>>, Ended(y) => Ended(x),
           y.moved \/ (s1 = s /\ t1 = t)
    PROVE  Told(y, s1, t1)
<1>1. y.place = "start" => y.wire = <<>> /\ y.expect = "stream"
  BY DEF Told
<1>2. \A j \in DOMAIN y.wire : y.wire[j].type = "entries" => y.moved
  BY DEF Told
<1>3. Ended(y) => y.place \in {"sent", "error"} /\ (y.owes => y.pending)
  BY DEF Told
<1>4. Started(y) => Started(x)
  BY DEF Started
<1>5. ~y.disturbed /\ ~y.moved =>
         /\ Started(y) /\ StreamPending(s1) => y.owes
         /\ y.from # y.dialer /\ StreamPending(t1) => y.pending
  BY <1>4 DEF Told
<1>6. y.from # y.to
  BY DEF Told
<1> QED BY <1>1, <1>2, <1>3, <1>5, <1>6 DEF Told

\* A frame is sent that does not end the stream.
LEMMA ToldSend ==
    ASSUME NEW x, NEW s, NEW t, Told(x, s, t), NEW y, x.wire \in Seq(Frames),
           x.place \notin {"sent", "error"},
           NEW fr \in Frames, fr.type \notin {"streamdone", "done"},
           y.wire = x.wire \o <<fr>>, y.expect = x.expect,
           y.from = x.from, y.to = x.to, y.dialer = x.dialer,
           y.disturbed = x.disturbed, y.pending = x.pending, y.place # "start",
           y.moved = x.moved \/ y.moved = TRUE, fr.type = "entries" => y.moved,
           ~y.disturbed /\ ~y.moved /\ StreamPending(s) => y.owes
    PROVE  Told(y, s, t)
<1> DEFINE w == x.wire
           n == Len(w)
           v == y.wire
<1>1. /\ n \in Nat /\ DOMAIN w = 1..n /\ DOMAIN v = 1..(n + 1)
      /\ v[n + 1] = fr /\ \A i \in 1..n : v[i] = w[i]
  OBVIOUS
<1>2. \A i \in 1..(n + 1) : i \in 1..n \/ i = n + 1
  BY <1>1
<1>3. ~Ended(x)
  BY DEF Told
<1>4. \A i \in DOMAIN v : (i \in DOMAIN w /\ v[i] = w[i]) \/ v[i] = fr
  BY <1>1, <1>2
<1> HIDE DEF n
<1>5. ~Ended(y)
  BY <1>3, <1>4 DEF Ended
<1>6. \A i \in DOMAIN y.wire : y.wire[i].type = "entries" => y.moved
  BY <1>4 DEF Told
<1>7. ~y.moved => ~x.moved
  OBVIOUS
<1>8. ~y.disturbed /\ ~y.moved =>
         /\ Started(y) /\ StreamPending(s) => y.owes
         /\ y.from # y.dialer /\ StreamPending(t) => y.pending
  BY <1>7 DEF Told
<1> QED BY <1>5, <1>6, <1>8 DEF Told

\* The stream's end carries its flag into the session's report.
LEMMA ToldEnd ==
    ASSUME NEW x, NEW s, NEW t, Told(x, s, t), DOMAIN x = SessionFields,
           x.wire \in Seq(Frames), NEW owes \in BOOLEAN,
           ~x.disturbed /\ ~x.moved /\ StreamPending(s) => owes
    PROVE  Told(EndStream(x, owes), s, t)
<1> DEFINE y == EndStream(x, owes)
           a == Frame("streamdone", owes)
           b == Frame("done", owes)
           w == x.wire
           n == Len(w)
           v == w \o <<a, b>>
<1>1. /\ y.from = x.from /\ y.to = x.to /\ y.dialer = x.dialer
      /\ y.owes = owes /\ y.wire = v /\ y.place = "sent" /\ y.expect = x.expect
      /\ y.disturbed = x.disturbed /\ y.moved = x.moved
  BY FieldNames DEF EndStream
<1>2. y.pending = (x.pending \/ owes)
  BY FieldNames DEF EndStream
<1> HIDE DEF y
<1>3. (x.pending => y.pending) /\ (y.owes => y.pending)
  BY <1>1, <1>2
<1>4. a.type # "entries" /\ b.type # "entries"
  BY DEF Frame
<1> HIDE DEF a, b
<1>5. /\ n \in Nat /\ DOMAIN w = 1..n /\ DOMAIN v = 1..(n + 2)
      /\ v[n + 1] = a /\ v[n + 2] = b /\ \A i \in 1..n : v[i] = w[i]
  OBVIOUS
<1>6. \A i \in 1..(n + 2) : i \in 1..n \/ i = n + 1 \/ i = n + 2
  BY <1>5
<1>7. \A i \in DOMAIN v : (i \in DOMAIN w /\ v[i] = w[i]) \/ v[i] = a \/ v[i] = b
  BY <1>5, <1>6
<1> HIDE DEF v, n
<1>8. \A i \in DOMAIN y.wire : y.wire[i].type = "entries" => y.moved
  BY <1>1, <1>4, <1>7 DEF Told
<1>9. ~y.disturbed /\ ~y.moved =>
         /\ Started(y) /\ StreamPending(s) => y.owes
         /\ y.from # y.dialer /\ StreamPending(t) => y.pending
  BY <1>1, <1>3 DEF Told
<1>10. y.from # y.to
  BY <1>1 DEF Told
<1>11. Told(y, s, t)
  BY <1>1, <1>3, <1>8, <1>9, <1>10 DEF Told
<1> QED BY <1>11 DEF y

\* What is known of the session before a step.
LEMMA ToldBefore ==
    ASSUME SInv, OInv, sess # NoSession
    PROVE  /\ Told(sess, db[sess.from], db[sess.to]) /\ SessionOK(sess)
           /\ DOMAIN sess = SessionFields /\ sess.owes \in BOOLEAN
           /\ sess.wire \in Seq(Frames)
           /\ sess.from \in Node /\ sess.to \in Node /\ sess.dialer \in Node
BY DEF SInv, OInv, SessionOK, WireOK

\* A session that begins reports nothing yet.
LEMMA ToldBegins ==
    ASSUME NEW x, NEW y, x # y, NEW r, NEW s, NEW t
    PROVE  Told(Session(x, y, r), s, t)
<1> DEFINE z == Session(x, y, r)
<1>1. /\ z.from = x /\ z.to = y /\ z.dialer = x /\ z.place = "start"
      /\ z.wire = <<>> /\ z.expect = "stream"
  BY DEF Session
<1> HIDE DEF z
<1>2. DOMAIN <<>> = {}
  OBVIOUS
<1>3. ~Ended(z)
  BY <1>1, <1>2 DEF Ended
<1>4. ~Started(z)
  BY <1>1, <1>3 DEF Started
<1>5. Told(z, s, t)
  BY <1>1, <1>2, <1>3, <1>4 DEF Told
<1> QED BY <1>5 DEF z

\* The second direction keeps what the first one reported.
LEMMA ToldTurned ==
    ASSUME NEW x, NEW s, NEW t, Told(x, s, t), x.expect = "end", x.from = x.dialer
    PROVE  Told(Turned(x), t, s)
<1> DEFINE z == Session(x.to, x.from, x.round)
           y == Turned(x)
<1>1. /\ y.from = x.to /\ y.to = x.from /\ y.dialer = x.dialer /\ y.place = "start"
      /\ y.wire = <<>> /\ y.expect = "stream"
      /\ y.moved = x.moved /\ y.pending = x.pending /\ y.disturbed = x.disturbed
  BY DEF Turned, Session
<1> HIDE DEF y
<1>2. DOMAIN <<>> = {}
  OBVIOUS
<1>3. ~Ended(y)
  BY <1>1, <1>2 DEF Ended
<1>4. ~Started(y)
  BY <1>1, <1>3 DEF Started
<1>5. Ended(x) /\ Started(x)
  BY DEF Ended, Started
<1>6. ~x.disturbed /\ ~x.moved /\ StreamPending(s) => x.pending
  BY <1>5 DEF Told
<1>7. x.from # x.to
  BY DEF Told
<1>8. Told(y, t, s)
  BY <1>1, <1>2, <1>3, <1>4, <1>6, <1>7 DEF Told
<1> QED BY <1>8 DEF y

LEMMA ToldError ==
    ASSUME NEW x, NEW s, NEW t, Told(x, s, t), DOMAIN x = SessionFields
    PROVE  Told([x EXCEPT !.place = "error"], s, t)
<1> DEFINE y == [x EXCEPT !.place = "error"]
<1>1. /\ y.from = x.from /\ y.to = x.to /\ y.dialer = x.dialer /\ y.owes = x.owes
      /\ y.wire = x.wire /\ y.place = "error" /\ y.expect = x.expect
      /\ y.disturbed = x.disturbed /\ y.moved = x.moved /\ y.pending = x.pending
  BY FieldNames
<1> HIDE DEF y
<1>2. Ended(y) => Ended(x)
  BY <1>1 DEF Ended
<1>3. x.owes => y.owes
  BY <1>1
<1>4. Told(y, s, t)
  BY <1>1, <1>2, <1>3, ToldKept
<1> QED BY <1>4 DEF y

LEMMA OfferTells ==
    ASSUME SInv, OInv, Offer
    PROVE  OInv'
<1> DEFINE x == sess
           s == db[x.from]
           t == db[x.to]
           owes == IF x.place = "start" THEN StreamPending(s) ELSE x.owes
           room == ChainsPerSession - x.chains
           limit == IF room < ChainsPerPage THEN room ELSE ChainsPerPage
           page == ChainPage(s, x.after, limit)
           fr == Frame("inventory", page)
           y == [x EXCEPT !.place = "await", !.owes = owes, !.chains = @ + Len(page),
                          !.wire = x.wire \o <<fr>>]
<1>1. sess # NoSession /\ x.place \in {"start", "offer"} /\ UNCHANGED db
  BY DEF Offer
<1>2. sess' \in {[x EXCEPT !.place = "error"], EndStream(x, owes), y}
  BY Zenon DEF Offer, Put
<1>3. /\ Told(x, s, t) /\ DOMAIN x = SessionFields /\ x.owes \in BOOLEAN
      /\ x.wire \in Seq(Frames) /\ x.from \in Node
      /\ x.chains \in Nat /\ x.chains <= ChainsPerSession
  BY <1>1, ToldBefore DEF SessionOK
<1>4. owes \in BOOLEAN
  BY <1>3 DEF StreamPending
<1>5. ~x.disturbed /\ ~x.moved /\ StreamPending(s) => owes
  <2>1. CASE x.place = "start"
    BY <2>1
  <2>2. CASE x.place # "start"
    <3>1. Started(x)
      BY <1>1, <2>2 DEF Started
    <3> QED BY <1>3, <2>2, <3>1 DEF Told
  <2> QED BY <2>1, <2>2
<1>6. limit \in Nat
  BY <1>3, SessionAssumption
<1>7. page \in Seq(HeadType)
  <2>1. StoreKept(s)
    BY <1>3 DEF SInv
  <2> HIDE DEF s, limit
  <2> QED BY <1>6, <2>1, PageOfHeads
<1> HIDE DEF owes, page
<1>8. fr \in Frames /\ fr.type = "inventory"
  BY <1>7 DEF Frame, Frames
<1>9. /\ y.from = x.from /\ y.to = x.to /\ y.dialer = x.dialer /\ y.owes = owes
      /\ y.wire = x.wire \o <<fr>> /\ y.place = "await" /\ y.expect = x.expect
      /\ y.disturbed = x.disturbed /\ y.moved = x.moved /\ y.pending = x.pending
  BY <1>3, FieldNames
<1> HIDE DEF y, fr
<1>10. x.place \notin {"sent", "error"} /\ fr.type \notin {"streamdone", "done", "entries"}
  BY <1>1, <1>8
<1>11. ~y.disturbed /\ ~y.moved /\ StreamPending(s) => y.owes
  BY <1>5, <1>9
<1>12. Told(y, s, t)
  BY <1>3, <1>8, <1>9, <1>10, <1>11, ToldSend
<1>13. Told(EndStream(x, owes), s, t)
  BY <1>3, <1>4, <1>5, ToldEnd
<1>14. Told([x EXCEPT !.place = "error"], s, t)
  BY <1>3, ToldError
<1>15. Told(sess', s, t)
  BY <1>2, <1>12, <1>13, <1>14
<1>16. sess'.from = x.from /\ sess'.to = x.to
  <2>1. EndStream(x, owes).from = x.from /\ EndStream(x, owes).to = x.to
    BY <1>3, FieldNames DEF EndStream
  <2>2. [x EXCEPT !.place = "error"].from = x.from /\ [x EXCEPT !.place = "error"].to = x.to
    BY <1>3, FieldNames
  <2> QED BY <1>2, <1>9, <2>1, <2>2
<1> QED BY <1>1, <1>15, <1>16 DEF OInv

LEMMA AnswerTells ==
    ASSUME SInv, OInv, Answer
    PROVE  OInv'
<1> DEFINE x == sess
           y == sess'
           s == db[x.from]
           t == db[x.to]
           w == x.wire
           heads == Head(w).body
           page == [i \in DOMAIN heads |->
                      [head |-> heads[i], frontier |-> ChainFrontier(t, heads[i].dev)]]
<1>1. /\ sess # NoSession /\ w # <<>> /\ x.expect = "stream" /\ Head(w).type = "inventory"
      /\ UNCHANGED db
  BY DEF Answer
<1>2. Told(x, s, t) /\ DOMAIN x = SessionFields /\ WireOK(w, x.offered, x.place)
  BY <1>1, ToldBefore DEF SessionOK
<1>3. Tail(w) = <<>>
  BY <1>1, <1>2, WireAnswer
<1>4. /\ y.from = x.from /\ y.to = x.to /\ y.dialer = x.dialer /\ y.owes = x.owes
      /\ y.wire = Tail(w) /\ y.place = "serve" /\ y.expect = "page"
      /\ y.disturbed = x.disturbed /\ y.moved = x.moved /\ y.pending = x.pending
  <2>1. sess' = [sess EXCEPT
                  !.wire = Tail(w), !.expect = "page", !.offered = heads,
                  !.place = "serve", !.start = NoStart, !.after = Last(heads).dev,
                  !.page = page]
    BY <1>2, FieldNames DEF Answer
  <2> HIDE DEF page, heads, w
  <2> QED BY <1>2, <2>1, FieldNames
<1> HIDE DEF y
<1>5. DOMAIN <<>> = {}
  OBVIOUS
<1>6. ~Ended(y)
  BY <1>3, <1>4, <1>5 DEF Ended
<1>7. Started(x)
  BY <1>1 DEF Started
<1>8. Told(y, s, t)
  BY <1>2, <1>3, <1>4, <1>5, <1>6, <1>7 DEF Told
<1> QED BY <1>1, <1>4, <1>8 DEF OInv, y

\* Chains passed over or exhausted may add to what the sender owes.
LEMMA ServingTells ==
    ASSUME SInv, OInv, PassOver \/ EndChain
    PROVE  OInv'
<1> DEFINE x == sess
           y == sess'
           s == db[x.from]
           t == db[x.to]
<1>1. sess # NoSession /\ x.place = "serve" /\ UNCHANGED db
  BY DEF PassOver, EndChain, MayServe
<1>2. Told(x, s, t) /\ DOMAIN x = SessionFields /\ x.owes \in BOOLEAN
  BY <1>1, ToldBefore
<1>3. /\ y.from = x.from /\ y.to = x.to /\ y.dialer = x.dialer
      /\ y.wire = x.wire /\ y.place \in {x.place, "error"} /\ y.expect = x.expect
      /\ y.disturbed = x.disturbed /\ y.moved = x.moved /\ y.pending = x.pending
      /\ x.owes => y.owes
  <2>1. CASE PassOver
    <3> DEFINE owes == x.owes \/ Plan.plan = "pending"
               skipped == IF Plan.plan = "diverged" THEN x.skipped \cup {Serving.head.dev}
                          ELSE x.skipped
    <3>1. y = [x EXCEPT !.page = Tail(x.page), !.owes = owes, !.skipped = skipped]
      BY <1>2, <2>1, FieldNames DEF PassOver
    <3>2. x.owes => owes
      OBVIOUS
    <3> HIDE DEF owes, skipped, y
    <3>3. y.owes = owes
      BY <1>2, <3>1, FieldNames
    <3>4. x.owes => y.owes
      BY <3>2, <3>3
    <3> QED BY <1>2, <3>1, <3>4, FieldNames
  <2>2. CASE EndChain
    <3> DEFINE owes == x.owes \/ ~Delivered(Cursor0, Serving.head.tip)
               skipped == x.skipped \cup {Serving.head.dev}
               error == [x EXCEPT !.place = "error"]
               skip == [x EXCEPT !.page = Tail(x.page), !.start = NoStart, !.skipped = skipped]
               done == [x EXCEPT !.page = Tail(x.page), !.start = NoStart, !.owes = owes]
    <3>1. Read.kind \in {"page", "skip", "error"}
      BY ReadKinds DEF Read
    <3>2. y \in {error, skip, done}
      <4> HIDE DEF y
      <4>1. y = CASE Read.kind = "error" -> error
                  [] Read.kind = "skip" -> skip
                  [] Read.kind = "page" -> done
        BY <1>2, <2>2, FieldNames DEF EndChain, y
      <4> HIDE DEF error, skip, done
      <4> QED BY <3>1, <4>1
    <3>3. x.owes => owes
      OBVIOUS
    <3> HIDE DEF owes, skipped, y
    <3>4. y.owes \in {x.owes, owes}
      BY <1>2, <3>2, FieldNames
    <3>5. x.owes => y.owes
      BY <3>3, <3>4
    <3> QED BY <1>2, <3>2, <3>5, FieldNames
  <2> QED BY <2>1, <2>2
<1> HIDE DEF y
<1>4. ~Ended(x)
  BY <1>1, <1>2 DEF Told
<1>5. Ended(y) => Ended(x)
  BY <1>3 DEF Ended
<1>6. Told(y, s, t)
  BY <1>2, <1>3, <1>4, <1>5, ToldKept
<1> QED BY <1>1, <1>3, <1>6 DEF OInv, y

\* Entries in flight are reported as movement; the rest of a page is not.
LEMMA SendPageTells ==
    ASSUME SInv, OInv, SendPage
    PROVE  OInv'
<1> DEFINE x == sess
           y == sess'
           s == db[x.from]
           t == db[x.to]
           es == Read.entries
           start == [kind |-> "after", at |-> CursorOf(Last(es))]
           fr == Frame("entries", es)
<1>1. sess # NoSession /\ x.place = "serve" /\ UNCHANGED db
  BY DEF SendPage, MayServe
<1>2. Told(x, s, t) /\ DOMAIN x = SessionFields /\ x.wire \in Seq(Frames)
  BY <1>1, ToldBefore
<1>3. y = [x EXCEPT !.start = start, !.sent = x.sent + Len(es), !.moved = TRUE,
                    !.wire = x.wire \o <<fr>>]
  BY <1>2, FieldNames DEF SendPage, Put
<1>4. fr \in Frames /\ fr.type = "entries"
  <2>1. SInv'
    BY SendPageKeeps
  <2>2. y.wire = x.wire \o <<fr>> /\ DOMAIN y = SessionFields
    <3> HIDE DEF y, fr, start, es
    <3> QED BY <1>2, <1>3, FieldNames
  <2>3. y # NoSession
    <3>1. "wire" \in DOMAIN y /\ "wire" \notin DOMAIN NoSession
      BY <2>2, FieldNames DEF NoSession
    <3> QED BY <3>1
  <2>4. y.wire \in Seq(Frames)
    BY <2>1, <2>3 DEF SInv, SessionOK, WireOK
  <2>5. fr.type = "entries"
    BY DEF Frame
  <2> HIDE DEF y, fr
  <2>6. fr \in Frames
    <3> DEFINE w == x.wire
    <3>1. (w \o <<fr>>)[Len(w) + 1] = fr /\ Len(w \o <<fr>>) = Len(w) + 1 /\ Len(w) \in Nat
      BY <1>2
    <3>2. w \o <<fr>> \in Seq(Frames)
      BY <2>2, <2>4
    <3> HIDE DEF w
    <3> QED BY <3>1, <3>2
  <2> QED BY <2>5, <2>6
<1> HIDE DEF es, start, y, fr
<1>5. /\ y.from = x.from /\ y.to = x.to /\ y.dialer = x.dialer
      /\ y.wire = x.wire \o <<fr>> /\ y.place = x.place /\ y.expect = x.expect
      /\ y.disturbed = x.disturbed /\ y.moved = TRUE /\ y.pending = x.pending
  BY <1>2, <1>3, FieldNames
<1>6. x.place \notin {"sent", "error"} /\ fr.type \notin {"streamdone", "done"} /\ y.place # "start"
  BY <1>1, <1>4, <1>5
<1>7. y.moved
  BY <1>5
<1>8. Told(y, s, t)
  BY <1>2, <1>4, <1>5, <1>6, <1>7, ToldSend
<1> QED BY <1>1, <1>5, <1>8 DEF OInv, y

LEMMA EndInventoryTells ==
    ASSUME SInv, OInv, EndInventory
    PROVE  OInv'
<1> DEFINE x == sess
           s == db[x.from]
           t == db[x.to]
           fr == Frame("invdone", 0)
           z == [x EXCEPT !.wire = x.wire \o <<fr>>, !.page = <<>>, !.start = NoStart]
           y == [z EXCEPT !.place = "offer"]
<1>1. sess # NoSession /\ x.place = "serve" /\ UNCHANGED db
  BY DEF EndInventory
<1>2. Told(x, s, t) /\ DOMAIN x = SessionFields /\ x.wire \in Seq(Frames)
  BY <1>1, ToldBefore
<1>3. sess' \in {EndStream(z, TRUE), y}
  BY <1>2, FieldNames DEF EndInventory, Put
<1>4. fr \in Frames /\ fr.type = "invdone"
  BY DEF Frame, Frames
<1> HIDE DEF fr
<1>5. /\ DOMAIN z = SessionFields /\ z.from = x.from /\ z.to = x.to /\ z.dialer = x.dialer
      /\ z.owes = x.owes /\ z.wire = x.wire \o <<fr>> /\ z.place = x.place
      /\ z.expect = x.expect /\ z.disturbed = x.disturbed /\ z.moved = x.moved
      /\ z.pending = x.pending
  BY <1>2, FieldNames
<1> HIDE DEF z
<1>6. /\ y.from = x.from /\ y.to = x.to /\ y.dialer = x.dialer
      /\ y.owes = x.owes /\ y.wire = x.wire \o <<fr>> /\ y.place = "offer"
      /\ y.expect = x.expect /\ y.disturbed = x.disturbed /\ y.moved = x.moved
      /\ y.pending = x.pending
  BY <1>5, FieldNames
<1> HIDE DEF y
<1>7. /\ x.place \notin {"sent", "error"} /\ x.place # "start"
      /\ fr.type \notin {"streamdone", "done", "entries"}
  BY <1>1, <1>4
<1>8. ~x.disturbed /\ ~x.moved /\ StreamPending(s) => x.owes
  <2>1. Started(x)
    BY <1>1 DEF Started
  <2> QED BY <1>2, <2>1 DEF Told
<1>9. /\ ~z.disturbed /\ ~z.moved /\ StreamPending(s) => z.owes
      /\ ~y.disturbed /\ ~y.moved /\ StreamPending(s) => y.owes
  BY <1>5, <1>6, <1>8
<1>10. Told(z, s, t)
  BY <1>2, <1>4, <1>5, <1>7, <1>9, ToldSend
<1>11. Told(y, s, t)
  BY <1>2, <1>4, <1>6, <1>7, <1>9, ToldSend
<1>12. z.wire \in Seq(Frames)
  BY <1>2, <1>4, <1>5
<1>13. Told(EndStream(z, TRUE), s, t)
  BY <1>5, <1>10, <1>12, ToldEnd
<1>14. EndStream(z, TRUE).from = z.from /\ EndStream(z, TRUE).to = z.to
  BY <1>5, FieldNames DEF EndStream
<1>15. Told(sess', s, t) /\ sess'.from = x.from /\ sess'.to = x.to
  BY <1>3, <1>5, <1>6, <1>11, <1>13, <1>14
<1> QED BY <1>1, <1>15 DEF OInv

LEMMA DeliverTells ==
    ASSUME SInv, OInv, Deliver
    PROVE  OInv'
<1> DEFINE x == sess
           s == db[x.from]
           t == db[x.to]
           w == x.wire
           body == Head(w).body
           fr == Frame("entries", Tail(body))
           rest == IF Len(body) = 1 THEN Tail(w) ELSE <<fr>> \o Tail(w)
           y == [x EXCEPT !.got = x.got + 1, !.wire = rest]
<1>1. sess # NoSession /\ w # <<>> /\ Head(w).type = "entries" /\ x.expect = "page"
  BY DEF Deliver
<1>2. Told(x, s, t) /\ DOMAIN x = SessionFields /\ w \in Seq(Frames)
  BY <1>1, ToldBefore
<1>3. (sess' = [x EXCEPT !.place = "error"] /\ UNCHANGED db) \/ sess' = y
  BY <1>2, FieldNames DEF Deliver
<1>4. CASE sess' = [x EXCEPT !.place = "error"] /\ UNCHANGED db
  <2>1. Told(sess', s, t)
    BY <1>2, <1>4, ToldError
  <2>2. sess'.from = x.from /\ sess'.to = x.to
    BY <1>2, <1>4, FieldNames
  <2> QED BY <1>4, <2>1, <2>2 DEF OInv
<1>5. CASE sess' = y
  <2>1. \A j \in DOMAIN rest : \E i \in DOMAIN w : rest[j].type = w[i].type
    <3>1. /\ Head(w) = w[1] /\ Len(w) \in Nat /\ Len(w) >= 1 /\ DOMAIN w = 1..Len(w)
          /\ Tail(w) \in Seq(Frames) /\ DOMAIN Tail(w) = 1..(Len(w) - 1)
          /\ \A j \in 1..(Len(w) - 1) : Tail(w)[j] = w[j + 1] /\ j + 1 \in 1..Len(w)
      BY <1>1, <1>2
    <3>2. CASE Len(body) = 1
      BY <3>1, <3>2
    <3>3. CASE Len(body) # 1
      <4> DEFINE v == <<fr>> \o Tail(w)
      <4>1. fr.type = "entries"
        BY DEF Frame
      <4> HIDE DEF fr
      <4>2. /\ DOMAIN v = 1..Len(w) /\ v[1] = fr
            /\ \A j \in 2..Len(w) : v[j] = w[j]
        <5>1. DOMAIN v = 1..Len(w) /\ v[1] = fr
          BY <3>1
        <5>2. \A j \in 2..Len(w) : v[j] = Tail(w)[j - 1] /\ j - 1 \in 1..(Len(w) - 1)
          BY <3>1
        <5>3. \A j \in 2..Len(w) : (j - 1) + 1 = j
          OBVIOUS
        <5> HIDE DEF v
        <5> QED BY <3>1, <5>1, <5>2, <5>3
      <4>3. \A j \in 1..Len(w) : j = 1 \/ j \in 2..Len(w)
        BY <3>1
      <4>4. rest = v
        BY <3>3
      <4> HIDE DEF v, rest, w
      <4>5. w[1].type = "entries" /\ 1 \in DOMAIN w
        BY <1>1, <3>1 DEF w
      <4> QED BY <3>1, <4>1, <4>2, <4>3, <4>4, <4>5
    <3> QED BY <3>2, <3>3
  <2> HIDE DEF rest
  <2>2. /\ y.from = x.from /\ y.to = x.to /\ y.dialer = x.dialer /\ y.owes = x.owes
        /\ y.wire = rest /\ y.place = x.place /\ y.expect = x.expect
        /\ y.disturbed = x.disturbed /\ y.moved = x.moved /\ y.pending = x.pending
    BY <1>2, FieldNames
  <2> HIDE DEF y
  <2>3. x.moved
    <3>1. 1 \in DOMAIN w /\ w[1].type = "entries"
      BY <1>1, <1>2
    <3> QED BY <1>2, <3>1 DEF Told
  <2>4. y.moved
    BY <2>2, <2>3
  <2>5. Ended(y) => Ended(x)
    BY <2>1, <2>2 DEF Ended
  <2>6. x.owes => y.owes
    BY <2>2
  <2>7. /\ \A j \in DOMAIN y.wire : \E i \in DOMAIN x.wire : y.wire[j].type = x.wire[i].type
        /\ x.wire # <<>>
    BY <1>1, <2>1, <2>2
  <2> HIDE DEF s, t, w
  <2>8. ASSUME NEW s1, NEW t1 PROVE Told(y, s1, t1)
    <3>1. y.place \in {x.place, "error"} /\ (y.owes = x.owes \/ ~Ended(x))
      BY <2>2
    <3> HIDE DEF x
    <3> QED BY <1>2, <2>2, <2>4, <2>5, <2>6, <2>7, <3>1, ToldKept
  <2> QED BY <1>5, <2>2, <2>8 DEF OInv
<1> QED BY <1>3, <1>4, <1>5

LEMMA AdvanceTells ==
    ASSUME SInv, OInv, Advance
    PROVE  OInv'
<1> DEFINE x == sess
           s == db[x.from]
           t == db[x.to]
           w == x.wire
           type == Head(w).type
           y == [x EXCEPT !.wire = Tail(w), !.expect = Follow[type]]
<1>1. sess # NoSession /\ w # <<>> /\ UNCHANGED db
  BY DEF Advance
<1>2. Told(x, s, t) /\ DOMAIN x = SessionFields /\ w \in Seq(Frames)
  BY <1>1, ToldBefore
<1>3. sess' = [x EXCEPT !.place = "error"] \/ (type \in DOMAIN Follow /\ sess' = y)
  BY <1>2, FieldNames DEF Advance
<1>4. CASE sess' = [x EXCEPT !.place = "error"]
  <2>1. Told(sess', s, t)
    BY <1>2, <1>4, ToldError
  <2>2. sess'.from = x.from /\ sess'.to = x.to
    BY <1>2, <1>4, FieldNames
  <2> QED BY <1>1, <2>1, <2>2 DEF OInv
<1>5. CASE type \in DOMAIN Follow /\ sess' = y
  <2>1. /\ Head(w) = w[1] /\ 1 \in DOMAIN w
        /\ \A j \in DOMAIN Tail(w) : j + 1 \in DOMAIN w /\ Tail(w)[j] = w[j + 1]
    BY <1>1, <1>2
  <2>2. /\ y.from = x.from /\ y.to = x.to /\ y.dialer = x.dialer /\ y.owes = x.owes
        /\ y.wire = Tail(w) /\ y.place = x.place /\ y.expect = Follow[type]
        /\ y.disturbed = x.disturbed /\ y.moved = x.moved /\ y.pending = x.pending
    BY <1>2, FieldNames
  <2> HIDE DEF y
  <2>3. Follow[type] \in {"done", "end"} => type \in {"streamdone", "done"}
    BY <1>5 DEF Follow
  <2>4. Ended(y) => Ended(x)
    BY <2>1, <2>2, <2>3 DEF Ended
  <2>5. x.place # "start"
    BY <1>1, <1>2 DEF Told
  <2>6. x.owes => y.owes
    BY <2>2
  <2>7. /\ \A j \in DOMAIN y.wire : \E i \in DOMAIN x.wire : y.wire[j].type = x.wire[i].type
        /\ x.wire # <<>>
    BY <1>1, <2>1, <2>2
  <2> HIDE DEF s, t, w
  <2>8. Told(y, s, t)
    BY <1>2, <2>2, <2>4, <2>5, <2>6, <2>7, ToldKept
  <2> QED BY <1>1, <1>5, <2>2, <2>8 DEF OInv, s, t
<1> QED BY <1>3, <1>4, <1>5

LEMMA TurnsTell ==
    ASSUME SInv, OInv, \/ \E x, y \in Node : Dial(x, y)
                       \/ TurnAround \/ Finish \/ Abort
    PROVE  OInv'
<1>1. ASSUME NEW x \in Node, NEW y \in Node, Dial(x, y) PROVE OInv'
  <2>1. x # y /\ sess' = Session(x, y, 1)
    BY <1>1, SessionAssumption DEF Dial
  <2> QED BY <2>1, ToldBegins DEF OInv
<1>2. CASE TurnAround
  <2> DEFINE x == sess
  <2>1. /\ sess # NoSession /\ x.expect = "end" /\ x.from = x.dialer /\ sess' = Turned(x)
        /\ UNCHANGED db
    BY <1>2 DEF TurnAround
  <2>2. Told(x, db[x.from], db[x.to])
    BY <2>1, ToldBefore
  <2>3. Told(sess', db[x.to], db[x.from])
    BY <2>1, <2>2, ToldTurned
  <2>4. sess'.from = x.to /\ sess'.to = x.from
    BY <2>1 DEF Turned, Session
  <2> QED BY <2>1, <2>3, <2>4 DEF OInv
<1>3. CASE Finish
  <2>1. sess # NoSession /\ sess.from # sess.dialer
    BY <1>3 DEF Finish, Finished
  <2>2. sess' = NoSession \/ sess' = Session(sess.dialer, sess.from, sess.round + 1)
    BY <1>3 DEF Finish
  <2> QED BY <2>1, <2>2, ToldBegins DEF OInv
<1>4. CASE Abort
  BY <1>4 DEF Abort, OInv
<1> QED BY <1>1, <1>2, <1>3, <1>4

\* Whoever changes one of the two stores meanwhile disturbs the session.
LEMMA OthersTell ==
    ASSUME SInv, OInv, NEW n \in Node, NEW r, db' = [db EXCEPT ![n] = r], sess' = Touched(n)
    PROVE  OInv'
<1> DEFINE x == sess
<1>1. CASE sess = NoSession
  BY <1>1 DEF Touched, OInv
<1>2. CASE sess # NoSession /\ n \in {x.from, x.to}
  <2> DEFINE y == [x EXCEPT !.disturbed = TRUE]
  <2>1. Told(x, db[x.from], db[x.to]) /\ DOMAIN x = SessionFields
    BY <1>2, ToldBefore
  <2>2. /\ y.from = x.from /\ y.to = x.to /\ y.dialer = x.dialer /\ y.owes = x.owes
        /\ y.wire = x.wire /\ y.place = x.place /\ y.expect = x.expect
        /\ y.disturbed = TRUE /\ y.moved = x.moved /\ y.pending = x.pending
    BY <2>1, FieldNames
  <2>3. sess' = y
    BY <1>2 DEF Touched
  <2> HIDE DEF y
  <2>4. y.disturbed
    BY <2>2
  <2>5. Ended(y) => Ended(x)
    BY <2>2 DEF Ended
  <2>6. /\ y.from # y.to
        /\ y.place = "start" => y.wire = <<>> /\ y.expect = "stream"
        /\ \A i \in DOMAIN y.wire : y.wire[i].type = "entries" => y.moved
        /\ Ended(y) => y.place \in {"sent", "error"} /\ (y.owes => y.pending)
    BY <2>1, <2>2, <2>5 DEF Told
  <2>7. Told(y, db'[x.from], db'[x.to])
    BY <2>4, <2>6 DEF Told
  <2> QED BY <2>2, <2>3, <2>7 DEF OInv
<1>3. CASE sess # NoSession /\ n \notin {x.from, x.to}
  <2>1. Told(x, db[x.from], db[x.to]) /\ sess' = x
    BY <1>3, ToldBefore DEF Touched
  <2>2. db'[x.from] = db[x.from] /\ db'[x.to] = db[x.to]
    BY <1>3, ToldBefore DEF SInv
  <2> QED BY <2>1, <2>2 DEF OInv
<1> QED BY <1>1, <1>2, <1>3

LEMMA NextOInv == SInv /\ OInv /\ [Next]_vars => OInv'
<1> SUFFICES ASSUME SInv, OInv, [Next]_vars PROVE OInv'
  OBVIOUS
<1>1. CASE UNCHANGED vars
  BY <1>1 DEF OInv, vars
<1>2. CASE SessionStep
  BY <1>2, OfferTells, AnswerTells, ServingTells, SendPageTells,
     EndInventoryTells, DeliverTells, AdvanceTells, TurnsTell DEF SessionStep
<1>3. CASE (\E x, y \in Node : Dial(x, y)) \/ Abort
  BY <1>3, TurnsTell
<1>4. CASE \E n \in Node : \/ \E e \in Entry : Author(n, e) \/ Compact(n, e)
                           \/ Purge(n)
                           \/ \E m \in Node, d \in Device : SideSession(m, n, d)
  <2>1. PICK n \in Node : \/ \E e \in Entry : Author(n, e) \/ Compact(n, e)
                          \/ Purge(n)
                          \/ \E m \in Node, d \in Device : SideSession(m, n, d)
    BY <1>4
  <2>2. \E r : db' = [db EXCEPT ![n] = r] /\ sess' = Touched(n)
    BY <2>1, Zenon DEF Author, Compact, Purge, SideSession
  <2> QED BY <2>2, OthersTell
<1> QED BY <1>1, <1>2, <1>3, <1>4 DEF Next

\* A store that owes a suffix says so: when both directions are done
\* (connect_and_table_reconcile) and nothing moved or was disturbed, what either
\* store owes is in the report, through the flag each stream ends with.
THEOREM OwedIsReported == Spec => []OwedIsPending
<1>1. Init => OInv
  BY DEF Init, OInv
<1>2. SInv /\ OInv /\ [Next]_vars => OInv'
  BY NextOInv
<1>3. OInv => OwedIsPending
  <2> SUFFICES ASSUME OInv, Finished, ~sess.disturbed, ~sess.moved,
                      StreamPending(db[sess.from]) \/ StreamPending(db[sess.to])
               PROVE  sess.pending
    BY DEF OwedIsPending, Moved
  <2>1. Told(sess, db[sess.from], db[sess.to]) /\ sess.expect = "end" /\ sess.from # sess.dialer
    BY DEF OInv, Finished
  <2>2. Ended(sess) /\ Started(sess)
    BY <2>1 DEF Ended, Started
  <2> QED BY <2>1, <2>2 DEF Told
<1> QED BY <1>1, <1>2, <1>3, SessionInvariance, PTL DEF Spec

-----------------------------------------------------------------------------
(* What a quiet session leaves *)

\* The receiver's chain is the sender's, or further.
Beyond(s, t, d) ==
    ChainTail(t, d) = ChainTail(s, d) \/ ChainTail(t, d).lam > ChainTail(s, d).lam

\* The sender is done with d's chain.
Settled(x, s, t, d) == x.owes \/ d \in x.skipped \/ Beyond(s, t, d)

InPage(page, d) == \E i \in DOMAIN page : page[i].head.dev = d

\* The heads are the store's, and none up to the last one is missing.
Inventory(heads, s, after) ==
    /\ heads # <<>>
    /\ \A i \in DOMAIN heads : heads[i] = ChainHead(s, heads[i].dev)
    /\ \A d \in Device :
          Chain(s, d) # {} /\ d > after /\ d <= Last(heads).dev => Offers(heads, d)

\* While nothing moved and nobody disturbed the stores: what was read of them
\* still holds; each chain of the sender is still to be offered, still to be
\* served or done with; an ended stream is done with all of them; and so was
\* the first direction.
Current(x, s, t) ==
    /\ \A i \in DOMAIN x.page :
          x.page[i] = [head     |-> ChainHead(s, x.page[i].head.dev),
                       frontier |-> ChainFrontier(t, x.page[i].head.dev)]
    /\ \A i \in DOMAIN x.wire :
          x.wire[i].type = "inventory" => Inventory(x.wire[i].body, s, x.after)
    /\ \A d \in Device :
          Chain(s, d) # {} => d > x.after \/ InPage(x.page, d) \/ Settled(x, s, t, d)
    /\ Ended(x) => \A d \in Device : Chain(s, d) # {} => Settled(x, s, t, d)
    /\ x.from # x.dialer =>
          \A d \in Device :
             Chain(t, d) # {} => x.pending \/ d \in x.skipped \/ Beyond(t, s, d)

Quiet(x, s, t) ==
    /\ x.start # NoStart => x.moved
    /\ x.place = "start" => ~x.owes
    /\ x.place \in {"start", "offer"} => x.page = <<>>
    /\ \A i \in DOMAIN x.wire : x.wire[i].type = "inventory" => x.page = <<>>
    /\ ~x.disturbed /\ ~x.moved => Current(x, s, t)

QInv == sess # NoSession => Quiet(sess, db[sess.from], db[sess.to])

\* A page of the inventory leaves out no chain before its last one.
LEMMA PageComplete ==
    ASSUME NEW s, StoreKept(s), NEW after, NEW limit \in Nat
    PROVE  LET heads == ChainPage(s, after, limit) IN
           /\ heads # <<>> => Inventory(heads, s, after)
           /\ heads = <<>> /\ limit # 0 =>
                 \A d \in Device : Chain(s, d) # {} => ~(d > after)
<1> DEFINE D == {d \in Device : d > after /\ Chain(s, d) # {}}
           key == [d \in Device |-> d]
           page == FirstInOrder(D, key, limit)
           heads == ChainPage(s, after, limit)
<1>1. IsFiniteSet(D)
  BY ChainsFinite
<1>2. (\A d \in D : key[d] \in Nat) /\ \A x, y \in D : key[x] = key[y] => x = y
  BY SessionAssumption
<1>3. \A d \in D : d \in Device /\ key[d] = d
  OBVIOUS
<1>4. heads = [i \in DOMAIN page |-> ChainHead(s, page[i])]
  BY DEF ChainPage
<1> HIDE DEF key, heads
<1>5. page \in Seq(D)
  <2> HIDE DEF D
  <2> QED BY <1>1, <1>2, FirstInOrderPage
<1>6. /\ page = <<>> /\ limit # 0 => D = {}
      /\ page # <<>> =>
            \A x \in D : key[x] <= key[Last(page)] => \E i \in DOMAIN page : page[i] = x
  <2> HIDE DEF D
  <2> QED BY <1>1, <1>2, PageLeavesNoneOut
<1> HIDE DEF page
<1>7. /\ Len(page) \in Nat /\ DOMAIN page = 1..Len(page)
      /\ heads = <<>> <=> page = <<>>
      /\ DOMAIN heads = DOMAIN page
  <2>1. Len(page) \in Nat /\ DOMAIN page = 1..Len(page) /\ DOMAIN heads = DOMAIN page
    BY <1>4, <1>5
  <2>2. page = <<>> <=> Len(page) = 0
    BY <1>5, EmptySeq
  <2>3. heads \in Seq(HeadType)
    BY PageOfHeads DEF heads
  <2>4. heads = <<>> <=> Len(heads) = 0
    BY <2>3, EmptySeq
  <2>5. Len(heads) = Len(page)
    BY <2>1, <2>3
  <2> QED BY <2>1, <2>2, <2>4, <2>5
<1>8. \A i \in DOMAIN heads : heads[i] = ChainHead(s, page[i]) /\ heads[i].dev = page[i]
  BY <1>4, <1>7 DEF ChainHead
<1>9. heads = <<>> /\ limit # 0 => \A d \in Device : Chain(s, d) # {} => ~(d > after)
  BY <1>6, <1>7
<1>10. ASSUME heads # <<>> PROVE Inventory(heads, s, after)
  <2>1. page # <<>>
    BY <1>7, <1>10
  <2>2. Last(page) \in D /\ Last(heads).dev = Last(page)
    <3>1. Len(page) # 0
      BY <1>5, <2>1, EmptySeq
    <3>2. Len(page) \in DOMAIN page /\ Len(heads) = Len(page)
      <4>1. heads \in Seq(HeadType)
        BY PageOfHeads DEF heads
      <4> QED BY <1>7, <3>1, <4>1
    <3> QED BY <1>5, <1>7, <1>8, <3>2 DEF Last
  <2>3. ASSUME NEW d \in Device, Chain(s, d) # {}, d > after, d <= Last(heads).dev
        PROVE  Offers(heads, d)
    <3>1. d \in D
      BY <2>3
    <3>2. key[d] <= key[Last(page)]
      BY <1>3, <2>2, <2>3, <3>1
    <3>3. PICK i \in DOMAIN page : page[i] = d
      BY <1>6, <2>1, <3>1, <3>2
    <3> QED BY <1>7, <1>8, <3>3 DEF Offers
  <2>4. \A i \in DOMAIN heads : heads[i] = ChainHead(s, heads[i].dev)
    BY <1>8
  <2> QED BY <1>10, <2>3, <2>4 DEF Inventory
<1> QED BY <1>9, <1>10 DEF heads

\* What the plan of a chain says of the receiver.
LEMMA PlanSays ==
    ASSUME NEW s, StoreKept(s), NEW t, StoreKept(t), NEW d \in Device,
           ChainHead(s, d) \in HeadType
    PROVE  LET head == ChainHead(s, d)
               plan == ChainPlan(head, ChainFrontier(t, d))
           IN  /\ plan.plan \in {"send", "complete", "diverged", "pending"}
               /\ plan.plan = "complete" /\ s.cover[d] = NoObligation => Beyond(s, t, d)
               /\ plan.plan = "send" => ~Delivered(plan.start, head.tip)
<1> USE CursorFields
<1> DEFINE head == ChainHead(s, d)
           fr == ChainFrontier(t, d)
           plan == ChainPlan(head, fr)
           at == fr.at
<1>1. head.tip \in Cursor /\ head.tip.lam \in Nat
  BY DEF HeadType
<1>2. s.cover[d] = NoObligation => head.tip = ChainTail(s, d)
  BY DEF ChainHead
<1>3. t.tip[d] \in Cursor /\ ChainTail(t, d) \in Cursor
  <2>1. t.tip[d] \in Cursor /\ StoreInv(t)
    BY DEF StoreKept, StoreInv, Store
  <2>2. ChainTail(t, d) = NoCursor \/ ChainTail(t, d) = t.tip[d]
    BY <2>1, TailIsTip DEF ChainTail
  <2> QED BY <2>1, <2>2
<1>4. /\ fr.kind \in {"empty", "restore", "accepted"}
      /\ fr.kind = "accepted" => at = ChainTail(t, d)
      /\ at \in Cursor
  BY <1>3 DEF ChainFrontier
<1> HIDE DEF head, fr, at
<1>5. at.lam \in Nat
  BY <1>4
<1>6. CASE fr.kind = "empty"
  <2>1. plan = [plan |-> "send", start |-> [kind |-> "beginning", at |-> NoCursor]]
    BY <1>6 DEF ChainPlan
  <2> QED BY <2>1 DEF Delivered, head, fr
<1>7. CASE fr.kind = "accepted" /\ at.lam >= head.tip.lam
  <2>1. plan = [plan |-> IF at.lam > head.tip.lam \/ at = head.tip THEN "complete" ELSE "diverged",
                start |-> NoStart]
    BY <1>7 DEF ChainPlan, at
  <2>2. plan.plan = (IF at.lam > head.tip.lam \/ at = head.tip THEN "complete" ELSE "diverged")
    BY <2>1
  <2>3. plan.plan = "complete" => at.lam > head.tip.lam \/ at = head.tip
    BY <2>2
  <2>4. plan.plan \in {"complete", "diverged"}
    BY <2>2
  <2> HIDE DEF plan
  <2>5. plan.plan = "complete" /\ s.cover[d] = NoObligation => Beyond(s, t, d)
    BY <1>2, <1>4, <1>7, <2>3 DEF Beyond
  <2> QED BY <2>4, <2>5 DEF plan, head, fr
<1>8. CASE fr.kind = "restore" /\ at.lam > head.tip.lam
  <2>1. plan = [plan |-> "pending", start |-> NoStart]
    BY <1>8 DEF ChainPlan, at
  <2> QED BY <2>1 DEF head, fr
<1>9. CASE /\ fr.kind # "empty" /\ ~(fr.kind = "accepted" /\ at.lam >= head.tip.lam)
           /\ ~(fr.kind = "restore" /\ at.lam > head.tip.lam)
  <2>1. plan = [plan |-> "send", start |-> SendFrom(head, fr)]
    BY <1>9 DEF ChainPlan, at
  <2>2. plan.plan = "send" /\ plan.start = SendFrom(head, fr)
    BY <2>1
  <2> HIDE DEF plan
  <2>3. ~Delivered(SendFrom(head, fr), head.tip)
    <3>1. \/ SendFrom(head, fr).kind = "at"
          \/ fr.kind = "accepted" /\ SendFrom(head, fr).at = at
      BY DEF SendFrom, at
    <3>2. CASE SendFrom(head, fr).kind = "at"
      BY <3>2 DEF Delivered
    <3>3. CASE fr.kind = "accepted" /\ SendFrom(head, fr).at = at
      <4>1. at.lam < head.tip.lam
        BY <1>1, <1>5, <1>9, <3>3
      <4> QED BY <1>1, <1>5, <3>3, <4>1 DEF Delivered
    <3> QED BY <3>1, <3>2, <3>3
  <2> QED BY <2>2, <2>3 DEF plan, head, fr
<1> QED BY <1>4, <1>6, <1>7, <1>8, <1>9

\* A step that takes nothing up and ends nothing.
LEMMA QuietKept ==
    ASSUME NEW x, NEW s, NEW t, Quiet(x, s, t), NEW y, NEW s1, NEW t1,
           y.from = x.from, y.dialer = x.dialer, y.after = x.after, y.page = x.page,
           y.disturbed = x.disturbed, y.moved = x.moved, y.pending = x.pending,
           y.place \in {x.place, "error"}, y.start = x.start,
           y.owes = x.owes, y.skipped = x.skipped,
           \A j \in DOMAIN y.wire :
              y.wire[j].type = "inventory" => \E i \in DOMAIN x.wire : y.wire[j] = x.wire[i],
           Ended(y) => Ended(x), y.moved \/ (s1 = s /\ t1 = t)
    PROVE  Quiet(y, s1, t1)
<1>1. /\ y.start # NoStart => y.moved
      /\ y.place = "start" => ~y.owes
      /\ y.place \in {"start", "offer"} => y.page = <<>>
  BY DEF Quiet
<1>2. \A i \in DOMAIN y.wire : y.wire[i].type = "inventory" => y.page = <<>>
  BY DEF Quiet
<1>3. ASSUME ~y.disturbed, ~y.moved PROVE Current(y, s1, t1)
  <2>1. Current(x, s, t) /\ s1 = s /\ t1 = t
    BY <1>3 DEF Quiet
  <2>2. \A d \in Device : Settled(x, s, t, d) => Settled(y, s, t, d)
    BY DEF Settled
  <2>3. Current(y, s, t)
    BY <2>1, <2>2 DEF Current
  <2> QED BY <2>1, <2>3
<1> QED BY <1>1, <1>2, <1>3 DEF Quiet

\* A chain is done with.
LEMMA QuietServed ==
    ASSUME NEW x, NEW s, NEW t, Quiet(x, s, t), SessionOK(x), x.page # <<>>, ~Ended(x), NEW y,
           y.from = x.from, y.dialer = x.dialer, y.after = x.after, y.page = Tail(x.page),
           y.disturbed = x.disturbed, y.moved = x.moved, y.pending = x.pending,
           x.place = "serve", y.place = "serve", y.start \in {x.start, NoStart},
           x.owes => y.owes, x.skipped \subseteq y.skipped,
           y.wire = x.wire, y.expect = x.expect,
           ~y.disturbed /\ ~y.moved => Settled(y, s, t, Head(x.page).head.dev)
    PROVE  Quiet(y, s, t)
<1> DEFINE p == x.page
           n == Len(p)
           v == Tail(p)
<1>1. p \in Seq(PageType)
  BY DEF SessionOK
<1>2. /\ n \in Nat /\ DOMAIN v = 1..(n - 1) /\ DOMAIN p = 1..n /\ Head(p) = p[1]
      /\ \A i \in 1..(n - 1) : v[i] = p[i + 1] /\ i + 1 \in 1..n
  BY <1>1
<1>3. \A i \in 2..n : i - 1 \in 1..(n - 1) /\ v[i - 1] = p[i]
  <2>1. \A i \in 2..n : i - 1 \in 1..(n - 1) /\ (i - 1) + 1 = i
    BY <1>2
  <2> HIDE DEF v
  <2> QED BY <1>2, <2>1
<1>4. \A i \in 1..n : i = 1 \/ i \in 2..n
  BY <1>2
<1> HIDE DEF n, v
<1>5. ASSUME NEW d, InPage(p, d) PROVE d = Head(p).head.dev \/ InPage(v, d)
  <2>1. PICK i \in 1..n : p[i].head.dev = d
    BY <1>2, <1>5 DEF InPage
  <2>2. CASE i = 1
    BY <1>2, <2>1, <2>2
  <2>3. CASE i \in 2..n
    <3>1. i - 1 \in DOMAIN v /\ v[i - 1].head.dev = d
      BY <1>2, <1>3, <2>1, <2>3
    <3> QED BY <3>1 DEF InPage
  <2> QED BY <1>4, <2>2, <2>3
<1>6. \A i \in DOMAIN v : \E j \in DOMAIN p : v[i] = p[j]
  BY <1>2
<1>7. ~Ended(y)
  BY DEF Ended
<1>8. \A i \in DOMAIN y.wire : y.wire[i].type # "inventory"
  BY DEF SessionOK, WireOK
<1>9. ASSUME ~y.disturbed, ~y.moved PROVE Current(y, s, t)
  <2>1. Current(x, s, t)
    BY <1>9 DEF Quiet
  <2>2. \A d \in Device : Settled(x, s, t, d) => Settled(y, s, t, d)
    BY DEF Settled
  <2>3. \A i \in DOMAIN v :
           v[i] = [head     |-> ChainHead(s, v[i].head.dev),
                   frontier |-> ChainFrontier(t, v[i].head.dev)]
    BY <1>6, <2>1 DEF Current
  <2>4. \A d \in Device :
           Chain(s, d) # {} => d > y.after \/ InPage(v, d) \/ Settled(y, s, t, d)
    BY <1>5, <1>9, <2>1, <2>2 DEF Current
  <2>5. y.from # y.dialer =>
           \A d \in Device :
              Chain(t, d) # {} => y.pending \/ d \in y.skipped \/ Beyond(t, s, d)
    BY <2>1 DEF Current
  <2>6. y.page = v
    BY DEF v
  <2> QED BY <1>7, <1>8, <2>3, <2>4, <2>5, <2>6 DEF Current
<1>10. y.start # NoStart => y.moved
  BY DEF Quiet
<1> QED BY <1>8, <1>9, <1>10 DEF Quiet

\* The stream ends, and every chain is done with.
LEMMA QuietEnd ==
    ASSUME NEW x, NEW s, NEW t, DOMAIN x = SessionFields,
           x.start # NoStart => x.moved,
           x.wire \in Seq(Frames), NEW owes \in BOOLEAN, x.page = <<>>,
           \A i \in DOMAIN x.wire : x.wire[i].type # "inventory",
           ~x.disturbed /\ ~x.moved /\ x.from # x.dialer =>
              \A d \in Device :
                 Chain(t, d) # {} => x.pending \/ d \in x.skipped \/ Beyond(t, s, d),
           ~x.disturbed /\ ~x.moved =>
              \A d \in Device : Chain(s, d) # {} => owes \/ d \in x.skipped \/ Beyond(s, t, d)
    PROVE  Quiet(EndStream(x, owes), s, t)
<1> DEFINE y == EndStream(x, owes)
           a == Frame("streamdone", owes)
           b == Frame("done", owes)
           w == x.wire
           n == Len(w)
           v == w \o <<a, b>>
<1>1. /\ y.from = x.from /\ y.to = x.to /\ y.dialer = x.dialer
      /\ y.owes = owes /\ y.wire = v /\ y.place = "sent" /\ y.expect = x.expect
      /\ y.disturbed = x.disturbed /\ y.moved = x.moved /\ y.after = x.after
      /\ y.page = x.page /\ y.start = x.start /\ y.skipped = x.skipped
  BY FieldNames DEF EndStream
<1>2. y.pending = (x.pending \/ owes)
  BY FieldNames DEF EndStream
<1> HIDE DEF y
<1>3. x.pending => y.pending
  BY <1>2
<1>4. a.type # "inventory" /\ b.type # "inventory"
  BY DEF Frame
<1> HIDE DEF a, b
<1>5. /\ n \in Nat /\ DOMAIN w = 1..n /\ DOMAIN v = 1..(n + 2)
      /\ v[n + 1] = a /\ v[n + 2] = b /\ \A i \in 1..n : v[i] = w[i]
  OBVIOUS
<1>6. \A i \in 1..(n + 2) : i \in 1..n \/ i = n + 1 \/ i = n + 2
  BY <1>5
<1>7. \A i \in DOMAIN v : (i \in DOMAIN w /\ v[i] = w[i]) \/ v[i] = a \/ v[i] = b
  BY <1>5, <1>6
<1> HIDE DEF v, n
<1>8. \A i \in DOMAIN y.wire : y.wire[i].type # "inventory"
  BY <1>1, <1>4, <1>7
<1>9. ASSUME ~y.disturbed, ~y.moved PROVE Current(y, s, t)
  <2>1. ~x.disturbed /\ ~x.moved
    BY <1>1, <1>9
  <2>2. \A d \in Device : Chain(s, d) # {} => Settled(y, s, t, d)
    BY <1>1, <2>1 DEF Settled
  <2>3. y.from # y.dialer =>
           \A d \in Device :
              Chain(t, d) # {} => y.pending \/ d \in y.skipped \/ Beyond(t, s, d)
    BY <1>1, <1>3, <2>1
  <2>4. DOMAIN <<>> = {}
    OBVIOUS
  <2> QED BY <1>1, <1>8, <2>2, <2>3, <2>4 DEF Current
<1>10. /\ y.start # NoStart => y.moved
       /\ y.place # "start" /\ y.page = <<>>
  BY <1>1
<1>11. Quiet(y, s, t)
  BY <1>8, <1>9, <1>10 DEF Quiet
<1> QED BY <1>11 DEF y

LEMMA QuietError ==
    ASSUME NEW x, NEW s, NEW t, Quiet(x, s, t), DOMAIN x = SessionFields
    PROVE  Quiet([x EXCEPT !.place = "error"], s, t)
<1> DEFINE y == [x EXCEPT !.place = "error"]
<1>1. /\ y.from = x.from /\ y.dialer = x.dialer /\ y.owes = x.owes
      /\ y.wire = x.wire /\ y.place = "error" /\ y.expect = x.expect
      /\ y.disturbed = x.disturbed /\ y.moved = x.moved /\ y.pending = x.pending
      /\ y.after = x.after /\ y.page = x.page /\ y.start = x.start /\ y.skipped = x.skipped
  BY FieldNames
<1> HIDE DEF y
<1>2. Ended(y) => Ended(x)
  BY <1>1 DEF Ended
<1>3. Quiet(y, s, t)
  BY <1>1, <1>2, QuietKept
<1> QED BY <1>3 DEF y

LEMMA QuietBegins ==
    ASSUME NEW x, NEW y, NEW r, NEW s, NEW t
    PROVE  Quiet(Session(x, y, r), s, t)
<1> DEFINE z == Session(x, y, r)
<1>1. /\ z.from = x /\ z.to = y /\ z.dialer = x /\ z.place = "start" /\ z.page = <<>>
      /\ z.wire = <<>> /\ z.expect = "stream" /\ z.start = NoStart /\ z.after = 0
  BY DEF Session
<1>2. ~z.owes
  BY DEF Session
<1> HIDE DEF z
<1>3. DOMAIN <<>> = {}
  OBVIOUS
<1>4. ~Ended(z)
  BY <1>1, <1>3 DEF Ended
<1>5. \A d \in Device : d > z.after
  BY <1>1, SessionAssumption
<1>6. Current(z, s, t)
  BY <1>1, <1>3, <1>4, <1>5 DEF Current
<1>7. Quiet(z, s, t)
  BY <1>1, <1>2, <1>3, <1>6 DEF Quiet
<1> QED BY <1>7 DEF z

LEMMA QuietTurned ==
    ASSUME NEW x, NEW s, NEW t, Quiet(x, s, t), Told(x, s, t), x.expect = "end"
    PROVE  Quiet(Turned(x), t, s)
<1> DEFINE y == Turned(x)
<1>1. /\ y.from = x.to /\ y.to = x.from /\ y.dialer = x.dialer /\ y.place = "start"
      /\ y.wire = <<>> /\ y.expect = "stream" /\ y.page = <<>> /\ y.start = NoStart
      /\ y.moved = x.moved /\ y.pending = x.pending /\ y.disturbed = x.disturbed
      /\ y.skipped = x.skipped /\ y.after = 0
  BY DEF Turned, Session
<1>2. ~y.owes
  BY DEF Turned, Session
<1> HIDE DEF y
<1>3. DOMAIN <<>> = {}
  OBVIOUS
<1>4. ~Ended(y)
  BY <1>1, <1>3 DEF Ended
<1>5. \A d \in Device : d > y.after
  BY <1>1, SessionAssumption
<1>6. Ended(x) /\ (x.owes => x.pending)
  BY DEF Ended, Told
<1>7. ASSUME ~y.disturbed, ~y.moved PROVE Current(y, t, s)
  <2>1. Current(x, s, t)
    BY <1>1, <1>7 DEF Quiet
  <2>2. \A d \in Device :
           Chain(s, d) # {} => y.pending \/ d \in y.skipped \/ Beyond(s, t, d)
    BY <1>1, <1>6, <2>1 DEF Current, Settled
  <2> QED BY <1>1, <1>3, <1>4, <1>5, <2>2 DEF Current
<1>8. Quiet(y, t, s)
  BY <1>1, <1>2, <1>3, <1>7 DEF Quiet
<1> QED BY <1>8 DEF y

\* What is known of the session before a step.
LEMMA QuietBefore ==
    ASSUME SInv, OInv, QInv, sess # NoSession
    PROVE  /\ Quiet(sess, db[sess.from], db[sess.to])
           /\ StoreKept(db[sess.from]) /\ StoreKept(db[sess.to])
<1>1. sess.from \in Node /\ sess.to \in Node
  BY ToldBefore
<1> QED BY <1>1 DEF SInv, QInv

LEMMA OfferQuiet ==
    ASSUME SInv, OInv, QInv, Offer
    PROVE  QInv'
<1> DEFINE x == sess
           s == db[x.from]
           t == db[x.to]
           owes == IF x.place = "start" THEN StreamPending(s) ELSE x.owes
           room == ChainsPerSession - x.chains
           limit == IF room < ChainsPerPage THEN room ELSE ChainsPerPage
           page == ChainPage(s, x.after, limit)
           one == ChainPage(s, x.after, 1)
           fr == Frame("inventory", page)
           y == [x EXCEPT !.place = "await", !.owes = owes, !.chains = @ + Len(page),
                          !.wire = x.wire \o <<fr>>]
<1>1. sess # NoSession /\ x.place \in {"start", "offer"} /\ UNCHANGED db
  BY DEF Offer
<1>2. \/ sess' = [x EXCEPT !.place = "error"]
      \/ sess' = EndStream(x, owes) /\ page = <<>> /\ (room = 0 => one = <<>>)
      \/ sess' = y /\ page # <<>>
  BY Zenon DEF Offer, Put
<1>3. /\ Told(x, s, t) /\ DOMAIN x = SessionFields /\ x.owes \in BOOLEAN
      /\ x.wire \in Seq(Frames) /\ x.from \in Node
      /\ x.chains \in Nat /\ x.chains <= ChainsPerSession
      /\ WireOK(x.wire, x.offered, x.place)
  BY <1>1, ToldBefore DEF SessionOK
<1>4. Quiet(x, s, t) /\ StoreKept(s)
  BY <1>1, QuietBefore
<1>5. x.page = <<>> /\ ~Ended(x) /\ \A i \in DOMAIN x.wire : x.wire[i].type # "inventory"
  BY <1>1, <1>3, <1>4 DEF Told, Quiet, WireOK
<1>6. owes \in BOOLEAN
  BY <1>3 DEF StreamPending
<1>7. x.owes => owes
  BY <1>4 DEF Quiet
<1>8. limit \in Nat /\ (limit = 0 => room = 0)
  BY <1>3, SessionAssumption
<1> HIDE DEF owes, limit, room
<1>9. /\ page # <<>> => Inventory(page, s, x.after)
      /\ page = <<>> /\ (room = 0 => one = <<>>) =>
            \A d \in Device : Chain(s, d) # {} => ~(d > x.after)
  <2> HIDE DEF s
  <2>1. one = <<>> => \A d \in Device : Chain(s, d) # {} => ~(d > x.after)
    BY <1>4, PageComplete
  <2>2. /\ page # <<>> => Inventory(page, s, x.after)
        /\ page = <<>> /\ limit # 0 => \A d \in Device : Chain(s, d) # {} => ~(d > x.after)
    BY <1>4, <1>8, PageComplete
  <2> QED BY <1>8, <2>1, <2>2
<1> HIDE DEF page, one
<1>10. CASE sess' = [x EXCEPT !.place = "error"]
  <2>1. Quiet(sess', s, t)
    BY <1>3, <1>4, <1>10, QuietError
  <2>2. sess'.from = x.from /\ sess'.to = x.to
    BY <1>3, <1>10, FieldNames
  <2> QED BY <1>1, <2>1, <2>2 DEF QInv
<1>11. CASE sess' = EndStream(x, owes) /\ page = <<>> /\ (room = 0 => one = <<>>)
  <2>1. ASSUME ~x.disturbed, ~x.moved, NEW d \in Device, Chain(s, d) # {}
        PROVE  owes \/ d \in x.skipped \/ Beyond(s, t, d)
    <3>1. Current(x, s, t)
      BY <1>4, <2>1 DEF Quiet
    <3>2. ~InPage(x.page, d)
      <4>1. DOMAIN <<>> = {}
        OBVIOUS
      <4> QED BY <1>5, <4>1 DEF InPage
    <3>3. ~(d > x.after)
      BY <1>9, <1>11, <2>1
    <3> QED BY <1>7, <2>1, <3>1, <3>2, <3>3 DEF Current, Settled
  <2>2. /\ x.start # NoStart => x.moved
        /\ ~x.disturbed /\ ~x.moved /\ x.from # x.dialer =>
              \A d \in Device :
                 Chain(t, d) # {} => x.pending \/ d \in x.skipped \/ Beyond(t, s, d)
    BY <1>4 DEF Quiet, Current
  <2>3. Quiet(sess', s, t)
    BY <1>3, <1>5, <1>6, <1>11, <2>1, <2>2, QuietEnd
  <2>4. sess'.from = x.from /\ sess'.to = x.to
    BY <1>3, <1>11, FieldNames DEF EndStream
  <2> QED BY <1>1, <2>3, <2>4 DEF QInv
<1>12. CASE sess' = y /\ page # <<>>
  <2>1. /\ y.from = x.from /\ y.to = x.to /\ y.dialer = x.dialer /\ y.owes = owes
        /\ y.wire = x.wire \o <<fr>> /\ y.place = "await" /\ y.expect = x.expect
        /\ y.disturbed = x.disturbed /\ y.moved = x.moved /\ y.pending = x.pending
        /\ y.after = x.after /\ y.page = x.page /\ y.start = x.start /\ y.skipped = x.skipped
    BY <1>3, FieldNames
  <2> HIDE DEF y
  <2>2. fr.type = "inventory" /\ fr.body = page
    BY DEF Frame
  <2> HIDE DEF fr
  <2>3. \A i \in DOMAIN y.wire : (i \in DOMAIN x.wire /\ y.wire[i] = x.wire[i]) \/ y.wire[i] = fr
    <3> DEFINE w == x.wire
               n == Len(w)
               v == w \o <<fr>>
    <3>1. /\ n \in Nat /\ DOMAIN w = 1..n /\ DOMAIN v = 1..(n + 1)
          /\ v[n + 1] = fr /\ \A i \in 1..n : v[i] = w[i]
      BY <1>3
    <3>2. \A i \in 1..(n + 1) : i \in 1..n \/ i = n + 1
      BY <3>1
    <3> HIDE DEF v, n
    <3>3. \A i \in DOMAIN v : (i \in DOMAIN w /\ v[i] = w[i]) \/ v[i] = fr
      BY <3>1, <3>2
    <3> QED BY <2>1, <3>3 DEF v
  <2>4. ~Ended(y)
    BY <1>5, <2>1, <2>2, <2>3 DEF Ended
  <2>5. ASSUME ~y.disturbed, ~y.moved PROVE Current(y, s, t)
    <3>1. Current(x, s, t)
      BY <1>4, <2>1, <2>5 DEF Quiet
    <3>2. \A d \in Device : Settled(x, s, t, d) => Settled(y, s, t, d)
      BY <1>7, <2>1 DEF Settled
    <3>3. \A i \in DOMAIN y.wire :
             y.wire[i].type = "inventory" => Inventory(y.wire[i].body, s, y.after)
      BY <1>5, <1>9, <1>12, <2>1, <2>2, <2>3
    <3>4. \A d \in Device :
             Chain(s, d) # {} => d > y.after \/ InPage(y.page, d) \/ Settled(y, s, t, d)
      BY <2>1, <3>1, <3>2 DEF Current
    <3>5. y.from # y.dialer =>
             \A d \in Device :
                Chain(t, d) # {} => y.pending \/ d \in y.skipped \/ Beyond(t, s, d)
      BY <2>1, <3>1 DEF Current
    <3>6. DOMAIN <<>> = {} /\ y.page = <<>>
      BY <1>5, <2>1
    <3> QED BY <2>4, <3>3, <3>4, <3>5, <3>6 DEF Current
  <2>6. Quiet(y, s, t)
    BY <1>4, <1>5, <2>1, <2>5 DEF Quiet
  <2> QED BY <1>1, <1>12, <2>1, <2>6 DEF QInv
<1> QED BY <1>2, <1>10, <1>11, <1>12

LEMMA AnswerQuiet ==
    ASSUME SInv, OInv, QInv, Answer
    PROVE  QInv'
<1> DEFINE x == sess
           y == sess'
           s == db[x.from]
           t == db[x.to]
           w == x.wire
           heads == Head(w).body
           page == [i \in DOMAIN heads |->
                      [head |-> heads[i], frontier |-> ChainFrontier(t, heads[i].dev)]]
<1>1. /\ sess # NoSession /\ w # <<>> /\ x.expect = "stream" /\ Head(w).type = "inventory"
      /\ UNCHANGED db
  BY DEF Answer
<1>2. /\ DOMAIN x = SessionFields /\ WireOK(w, x.offered, x.place)
      /\ w \in Seq(Frames) /\ Quiet(x, s, t)
  BY <1>1, ToldBefore, QuietBefore DEF SessionOK
<1>3. Tail(w) = <<>> /\ heads \in Seq(HeadType)
  BY <1>1, <1>2, WireAnswer
<1>4. /\ y.from = x.from /\ y.to = x.to /\ y.dialer = x.dialer /\ y.owes = x.owes
      /\ y.wire = Tail(w) /\ y.place = "serve" /\ y.expect = "page"
      /\ y.disturbed = x.disturbed /\ y.moved = x.moved /\ y.pending = x.pending
      /\ y.after = Last(heads).dev /\ y.page = page /\ y.start = NoStart
      /\ y.skipped = x.skipped
  <2>1. sess' = [sess EXCEPT
                  !.wire = Tail(w), !.expect = "page", !.offered = heads,
                  !.place = "serve", !.start = NoStart, !.after = Last(heads).dev,
                  !.page = page]
    BY <1>2, FieldNames DEF Answer
  <2> HIDE DEF page, heads, w
  <2> QED BY <1>2, <2>1, FieldNames
<1> HIDE DEF y
<1>5. DOMAIN <<>> = {}
  OBVIOUS
<1>6. ~Ended(y)
  BY <1>3, <1>4, <1>5 DEF Ended
<1>7. 1 \in DOMAIN w /\ w[1] = Head(w)
  BY <1>1, <1>2
<1>8. x.page = <<>>
  BY <1>1, <1>2, <1>7 DEF Quiet
<1>9. ASSUME ~y.disturbed, ~y.moved PROVE Current(y, s, t)
  <2>1. Current(x, s, t)
    BY <1>2, <1>4, <1>9 DEF Quiet
  <2>2. Inventory(heads, s, x.after)
    BY <1>1, <1>7, <2>1 DEF Current
  <2> HIDE DEF heads
  <2>3. \A i \in DOMAIN page :
           page[i] = [head     |-> ChainHead(s, page[i].head.dev),
                      frontier |-> ChainFrontier(t, page[i].head.dev)]
    BY <2>2 DEF Inventory
  <2>4. \A d : Offers(heads, d) => InPage(page, d)
    BY DEF Offers, InPage
  <2> HIDE DEF page
  <2>5. \A d \in Device : Settled(x, s, t, d) => Settled(y, s, t, d)
    BY <1>4 DEF Settled
  <2>6. Last(heads).dev \in Nat
    <3>1. heads # <<>>
      BY <2>2 DEF Inventory
    <3>2. Len(heads) \in DOMAIN heads
      BY <1>3, <3>1
    <3>3. Last(heads) \in HeadType
      BY <1>3, <3>2 DEF Last
    <3> QED BY <3>3, SessionAssumption DEF HeadType
  <2>7. ASSUME NEW d \in Device, Chain(s, d) # {}
        PROVE  d > y.after \/ InPage(y.page, d) \/ Settled(y, s, t, d)
    <3>1. d > x.after \/ InPage(x.page, d) \/ Settled(x, s, t, d)
      BY <2>1, <2>7 DEF Current
    <3>2. ~InPage(x.page, d)
      BY <1>5, <1>8 DEF InPage
    <3>3. d \in Nat
      BY SessionAssumption
    <3>4. CASE d > x.after
      <4>1. d > Last(heads).dev \/ d <= Last(heads).dev
        BY <2>6, <3>3
      <4>2. d <= Last(heads).dev => InPage(page, d)
        BY <2>2, <2>4, <2>7, <3>4 DEF Inventory
      <4> QED BY <1>4, <4>1, <4>2
    <3> QED BY <2>5, <3>1, <3>2, <3>4
  <2>8. y.from # y.dialer =>
           \A d \in Device :
              Chain(t, d) # {} => y.pending \/ d \in y.skipped \/ Beyond(t, s, d)
    BY <1>4, <2>1 DEF Current
  <2> QED BY <1>3, <1>4, <1>5, <1>6, <2>3, <2>7, <2>8 DEF Current
<1>10. Quiet(y, s, t)
  BY <1>3, <1>4, <1>5, <1>9 DEF Quiet
<1> QED BY <1>1, <1>4, <1>10 DEF QInv, y

\* While nothing moved, a chain is served from its plan, and the plan is of
\* the stores as they are.
LEMMA PlanIsCurrent ==
    ASSUME SInv, OInv, QInv, MayServe, ~sess.disturbed, ~sess.moved
    PROVE  LET s == db[sess.from]
               d == Serving.head.dev
           IN  /\ Plan.plan \in {"send", "complete", "diverged", "pending"}
               /\ Plan.plan = "complete" => sess.owes \/ Beyond(s, db[sess.to], d)
               /\ Plan.plan = "send" => ~Delivered(Cursor0, Serving.head.tip)
               /\ Sends => Plan.plan = "send"
<1> DEFINE x == sess
           s == db[x.from]
           t == db[x.to]
           p == x.page
           d == Serving.head.dev
<1>1. sess # NoSession /\ x.place = "serve" /\ p # <<>>
  BY DEF MayServe
<1>2. Told(x, s, t) /\ SessionOK(x) /\ Quiet(x, s, t) /\ StoreKept(s) /\ StoreKept(t)
  BY <1>1, ToldBefore, QuietBefore
<1>3. Current(x, s, t) /\ x.start = NoStart
  BY <1>2 DEF Quiet
<1>4. p \in Seq(PageType)
  BY <1>2 DEF SessionOK
<1>5. Serving = p[1] /\ 1 \in DOMAIN p /\ p[1] \in PageType
  BY <1>1, <1>4 DEF Serving
<1>6. p[1] = [head     |-> ChainHead(s, p[1].head.dev),
              frontier |-> ChainFrontier(t, p[1].head.dev)]
  BY <1>3, <1>5 DEF Current
<1> HIDE DEF s, t, p
<1>7. Serving.head = ChainHead(s, d) /\ Serving.frontier = ChainFrontier(t, d)
  BY <1>5, <1>6
<1>8. Serving.head \in HeadType /\ d \in Device
  BY <1>5 DEF PageType, HeadType
<1> DEFINE plan == ChainPlan(ChainHead(s, d), ChainFrontier(t, d))
<1>9. Plan = plan
  BY <1>7 DEF Plan
<1> HIDE DEF d
<1>10. /\ plan.plan \in {"send", "complete", "diverged", "pending"}
       /\ plan.plan = "complete" /\ s.cover[d] = NoObligation => Beyond(s, t, d)
       /\ plan.plan = "send" => ~Delivered(plan.start, ChainHead(s, d).tip)
  BY <1>2, <1>7, <1>8, PlanSays
<1> HIDE DEF plan
<1>11. s.cover[d] # NoObligation => x.owes
  <2>1. Started(x)
    BY <1>1 DEF Started
  <2> QED BY <1>2, <1>8, <2>1 DEF Told, StreamPending
<1>12. Cursor0 = plan.start /\ (Sends => plan.plan = "send")
  BY <1>3, <1>9 DEF Cursor0, Sends
<1> QED BY <1>7, <1>9, <1>10, <1>11, <1>12 DEF s, t, d

LEMMA PassOverQuiet ==
    ASSUME SInv, OInv, QInv, PassOver
    PROVE  QInv'
<1> DEFINE x == sess
           y == sess'
           s == db[x.from]
           t == db[x.to]
           d == Serving.head.dev
           owes == x.owes \/ Plan.plan = "pending"
           skipped == IF Plan.plan = "diverged" THEN x.skipped \cup {d} ELSE x.skipped
<1>1. sess # NoSession /\ x.place = "serve" /\ x.page # <<>> /\ MayServe /\ ~Sends /\ UNCHANGED db
  BY DEF PassOver, MayServe
<1>2. /\ Told(x, s, t) /\ SessionOK(x) /\ Quiet(x, s, t)
      /\ DOMAIN x = SessionFields /\ x.owes \in BOOLEAN
  BY <1>1, ToldBefore, QuietBefore
<1>3. y = [x EXCEPT !.page = Tail(x.page), !.owes = owes, !.skipped = skipped]
  BY <1>2, FieldNames DEF PassOver
<1>4. (x.owes => owes) /\ (Plan.plan = "pending" => owes) /\ x.skipped \subseteq skipped
  OBVIOUS
<1>5. Plan.plan = "diverged" => d \in skipped
  OBVIOUS
<1> HIDE DEF y, owes, skipped, d
<1>6. /\ y.from = x.from /\ y.to = x.to /\ y.dialer = x.dialer /\ y.owes = owes
      /\ y.wire = x.wire /\ y.place = x.place /\ y.expect = x.expect
      /\ y.disturbed = x.disturbed /\ y.moved = x.moved /\ y.pending = x.pending
      /\ y.after = x.after /\ y.page = Tail(x.page) /\ y.start = x.start
      /\ y.skipped = skipped
  BY <1>2, <1>3, FieldNames
<1>7. x.owes => y.owes
  BY <1>4, <1>6
<1>8. ASSUME ~y.disturbed, ~y.moved PROVE Settled(y, s, t, d)
  <2>1. /\ Plan.plan \in {"send", "complete", "diverged", "pending"}
        /\ Plan.plan = "complete" => x.owes \/ Beyond(s, t, d)
        /\ Plan.plan # "send"
    <3>1. ~x.disturbed /\ ~x.moved
      BY <1>6, <1>8
    <3> QED BY <1>1, <3>1, PlanIsCurrent DEF Sends, d
  <2> QED BY <1>4, <1>5, <1>6, <1>7, <2>1 DEF Settled
<1>9. ~Ended(x)
  BY <1>1, <1>2 DEF Told
<1>10. d = Head(x.page).head.dev
  BY DEF d, Serving
<1>11. Quiet(y, s, t)
  BY <1>1, <1>2, <1>4, <1>6, <1>7, <1>8, <1>9, <1>10, QuietServed
<1> QED BY <1>1, <1>6, <1>11 DEF QInv, y

LEMMA EndChainQuiet ==
    ASSUME SInv, OInv, QInv, EndChain
    PROVE  QInv'
<1> DEFINE x == sess
           s == db[x.from]
           t == db[x.to]
           d == Serving.head.dev
           owes == x.owes \/ ~Delivered(Cursor0, Serving.head.tip)
           skipped == x.skipped \cup {d}
           error == [x EXCEPT !.place = "error"]
           skip == [x EXCEPT !.page = Tail(x.page), !.start = NoStart, !.skipped = skipped]
           done == [x EXCEPT !.page = Tail(x.page), !.start = NoStart, !.owes = owes]
<1>1. sess # NoSession /\ x.place = "serve" /\ x.page # <<>> /\ MayServe /\ Sends /\ UNCHANGED db
  BY DEF EndChain, MayServe
<1>2. /\ Told(x, s, t) /\ SessionOK(x) /\ Quiet(x, s, t)
      /\ DOMAIN x = SessionFields /\ x.owes \in BOOLEAN
  BY <1>1, ToldBefore, QuietBefore
<1>3. Read.kind \in {"page", "skip", "error"}
  BY ReadKinds DEF Read
<1>4. sess' \in {error, skip, done}
  <2> DEFINE y == sess'
  <2> HIDE DEF y
  <2>1. y = CASE Read.kind = "error" -> error
              [] Read.kind = "skip" -> skip
              [] Read.kind = "page" -> done
    BY <1>2, FieldNames DEF EndChain, y
  <2> HIDE DEF error, skip, done
  <2>2. y \in {error, skip, done}
    BY <1>3, <2>1
  <2> QED BY <2>2 DEF y
<1>5. (x.owes => owes) /\ (~Delivered(Cursor0, Serving.head.tip) => owes)
  OBVIOUS
<1>6. x.skipped \subseteq skipped /\ d \in skipped
  OBVIOUS
<1> HIDE DEF owes, skipped, d
<1>7. d = Head(x.page).head.dev
  BY DEF d, Serving
<1>8. ~Ended(x)
  BY <1>1, <1>2 DEF Told
<1>9. Quiet(error, s, t) /\ error.from = x.from /\ error.to = x.to
  BY <1>2, QuietError, FieldNames
<1>10. Quiet(skip, s, t) /\ skip.from = x.from /\ skip.to = x.to
  <2>1. /\ skip.from = x.from /\ skip.to = x.to /\ skip.dialer = x.dialer
        /\ skip.owes = x.owes /\ skip.wire = x.wire /\ skip.place = x.place
        /\ skip.expect = x.expect /\ skip.disturbed = x.disturbed /\ skip.moved = x.moved
        /\ skip.pending = x.pending /\ skip.after = x.after /\ skip.page = Tail(x.page)
        /\ skip.start = NoStart /\ skip.skipped = skipped
    BY <1>2, FieldNames
  <2> HIDE DEF skip
  <2>2. Settled(skip, s, t, d)
    BY <1>6, <2>1 DEF Settled
  <2>3. x.owes => skip.owes
    BY <2>1
  <2> QED BY <1>1, <1>2, <1>6, <1>7, <1>8, <2>1, <2>2, <2>3, QuietServed
<1>11. Quiet(done, s, t) /\ done.from = x.from /\ done.to = x.to
  <2>1. /\ done.from = x.from /\ done.to = x.to /\ done.dialer = x.dialer
        /\ done.owes = owes /\ done.wire = x.wire /\ done.place = x.place
        /\ done.expect = x.expect /\ done.disturbed = x.disturbed /\ done.moved = x.moved
        /\ done.pending = x.pending /\ done.after = x.after /\ done.page = Tail(x.page)
        /\ done.start = NoStart /\ done.skipped = x.skipped
    BY <1>2, FieldNames
  <2> HIDE DEF done
  <2>2. x.owes => done.owes
    BY <1>5, <2>1
  <2>3. ASSUME ~done.disturbed, ~done.moved PROVE Settled(done, s, t, d)
    <3>1. ~x.disturbed /\ ~x.moved
      BY <2>1, <2>3
    <3>2. ~Delivered(Cursor0, Serving.head.tip)
      BY <1>1, <3>1, PlanIsCurrent
    <3>3. done.owes
      BY <1>5, <2>1, <3>2
    <3> QED BY <3>3 DEF Settled
  <2>4. x.skipped \subseteq done.skipped
    BY <2>1
  <2> QED BY <1>1, <1>2, <1>7, <1>8, <2>1, <2>2, <2>3, <2>4, QuietServed
<1> HIDE DEF error, skip, done
<1>12. Quiet(sess', s, t) /\ sess'.from = x.from /\ sess'.to = x.to
  BY <1>4, <1>9, <1>10, <1>11
<1> QED BY <1>1, <1>12 DEF QInv

\* Whatever is sent moves the session: it is not quiet.
LEMMA SendPageQuiet ==
    ASSUME SInv, OInv, QInv, SendPage
    PROVE  QInv'
<1> DEFINE x == sess
           y == sess'
           es == Read.entries
           start == [kind |-> "after", at |-> CursorOf(Last(es))]
           fr == Frame("entries", es)
<1>1. sess # NoSession /\ x.place = "serve" /\ UNCHANGED db
  BY DEF SendPage, MayServe
<1>2. /\ DOMAIN x = SessionFields /\ WireOK(x.wire, x.offered, x.place) /\ x.wire \in Seq(Frames)
  BY <1>1, ToldBefore DEF SessionOK
<1>3. y = [x EXCEPT !.start = start, !.sent = x.sent + Len(es), !.moved = TRUE,
                    !.wire = x.wire \o <<fr>>]
  BY <1>2, FieldNames DEF SendPage, Put
<1>4. fr.type = "entries"
  BY DEF Frame
<1> HIDE DEF es, start, y, fr
<1>5. /\ y.from = x.from /\ y.to = x.to /\ y.moved = TRUE
      /\ y.wire = x.wire \o <<fr>> /\ y.place = "serve"
  BY <1>1, <1>2, <1>3, FieldNames
<1>6. \A i \in DOMAIN y.wire : y.wire[i].type # "inventory"
  <2> DEFINE w == x.wire
             n == Len(w)
             v == w \o <<fr>>
  <2>1. /\ n \in Nat /\ DOMAIN w = 1..n /\ DOMAIN v = 1..(n + 1)
        /\ v[n + 1] = fr /\ \A i \in 1..n : v[i] = w[i]
    BY <1>2
  <2>2. \A i \in 1..(n + 1) : i \in 1..n \/ i = n + 1
    BY <2>1
  <2>3. \A i \in 1..n : w[i].type # "inventory"
    BY <1>1, <1>2, <2>1 DEF WireOK
  <2> HIDE DEF v, n
  <2>4. \A i \in DOMAIN v : v[i].type # "inventory"
    BY <1>4, <2>1, <2>2, <2>3
  <2> QED BY <1>5, <2>4 DEF v
<1>7. y.moved
  BY <1>5
<1>8. Quiet(y, db[x.from], db[x.to])
  BY <1>5, <1>6, <1>7 DEF Quiet
<1> QED BY <1>1, <1>5, <1>8 DEF QInv, y

LEMMA EndInventoryQuiet ==
    ASSUME SInv, OInv, QInv, EndInventory
    PROVE  QInv'
<1> DEFINE x == sess
           s == db[x.from]
           t == db[x.to]
           fr == Frame("invdone", 0)
           z == [x EXCEPT !.wire = x.wire \o <<fr>>, !.page = <<>>, !.start = NoStart]
           y == [z EXCEPT !.place = "offer"]
<1>1. sess # NoSession /\ x.place = "serve" /\ UNCHANGED db
  BY DEF EndInventory
<1>2. /\ Told(x, s, t) /\ DOMAIN x = SessionFields /\ x.wire \in Seq(Frames)
      /\ WireOK(x.wire, x.offered, x.place) /\ Quiet(x, s, t)
  BY <1>1, ToldBefore, QuietBefore DEF SessionOK
<1>3. sess' = EndStream(z, TRUE) \/ (sess' = y /\ x.page = <<>>)
  BY <1>2, FieldNames DEF EndInventory, Put
<1>4. fr \in Frames /\ fr.type = "invdone"
  BY DEF Frame, Frames
<1> HIDE DEF fr
<1>5. /\ DOMAIN z = SessionFields /\ z.from = x.from /\ z.to = x.to /\ z.dialer = x.dialer
      /\ z.owes = x.owes /\ z.wire = x.wire \o <<fr>> /\ z.place = x.place
      /\ z.expect = x.expect /\ z.disturbed = x.disturbed /\ z.moved = x.moved
      /\ z.pending = x.pending /\ z.after = x.after /\ z.page = <<>> /\ z.start = NoStart
      /\ z.skipped = x.skipped
  BY <1>2, FieldNames
<1> HIDE DEF z
<1>6. /\ y.from = x.from /\ y.to = x.to /\ y.dialer = x.dialer
      /\ y.owes = x.owes /\ y.wire = x.wire \o <<fr>> /\ y.place = "offer"
      /\ y.expect = x.expect /\ y.disturbed = x.disturbed /\ y.moved = x.moved
      /\ y.pending = x.pending /\ y.after = x.after /\ y.page = <<>> /\ y.start = NoStart
      /\ y.skipped = x.skipped
  BY <1>5, FieldNames
<1> HIDE DEF y
<1>7. ~Ended(x) /\ \A i \in DOMAIN x.wire : x.wire[i].type # "inventory"
  BY <1>1, <1>2 DEF Told, WireOK
<1>8. \A i \in DOMAIN (x.wire \o <<fr>>) :
         \/ i \in DOMAIN x.wire /\ (x.wire \o <<fr>>)[i] = x.wire[i]
         \/ (x.wire \o <<fr>>)[i] = fr
  <2> DEFINE w == x.wire
             n == Len(w)
             v == w \o <<fr>>
  <2>1. /\ n \in Nat /\ DOMAIN w = 1..n /\ DOMAIN v = 1..(n + 1)
        /\ v[n + 1] = fr /\ \A i \in 1..n : v[i] = w[i]
    BY <1>2
  <2>2. \A i \in 1..(n + 1) : i \in 1..n \/ i = n + 1
    BY <2>1
  <2> HIDE DEF v, n
  <2>3. \A i \in DOMAIN v : (i \in DOMAIN w /\ v[i] = w[i]) \/ v[i] = fr
    BY <2>1, <2>2
  <2> QED BY <2>3 DEF v
<1>9. /\ \A i \in DOMAIN z.wire : z.wire[i].type # "inventory"
      /\ \A i \in DOMAIN y.wire : y.wire[i].type # "inventory"
  BY <1>4, <1>5, <1>6, <1>7, <1>8
<1>10. CASE sess' = EndStream(z, TRUE)
  <2>1. z.wire \in Seq(Frames)
    BY <1>2, <1>4, <1>5
  <2>2. /\ z.start # NoStart => z.moved
        /\ ~z.disturbed /\ ~z.moved /\ z.from # z.dialer =>
              \A d \in Device :
                 Chain(t, d) # {} => z.pending \/ d \in z.skipped \/ Beyond(t, s, d)
    BY <1>2, <1>5 DEF Quiet, Current
  <2>3. Quiet(sess', s, t)
    BY <1>5, <1>9, <1>10, <2>1, <2>2, QuietEnd
  <2>4. sess'.from = x.from /\ sess'.to = x.to
    BY <1>5, <1>10, FieldNames DEF EndStream
  <2> QED BY <1>1, <2>3, <2>4 DEF QInv
<1>11. CASE sess' = y /\ x.page = <<>>
  <2>1. ~Ended(y)
    BY <1>4, <1>6, <1>7, <1>8 DEF Ended
  <2>2. ASSUME ~y.disturbed, ~y.moved PROVE Current(y, s, t)
    <3>1. Current(x, s, t)
      BY <1>2, <1>6, <2>2 DEF Quiet
    <3>2. \A d \in Device : Settled(x, s, t, d) => Settled(y, s, t, d)
      BY <1>6 DEF Settled
    <3>3. \A d \in Device :
             Chain(s, d) # {} => d > y.after \/ InPage(y.page, d) \/ Settled(y, s, t, d)
      BY <1>6, <1>11, <3>1, <3>2 DEF Current
    <3>4. y.from # y.dialer =>
             \A d \in Device :
                Chain(t, d) # {} => y.pending \/ d \in y.skipped \/ Beyond(t, s, d)
      BY <1>6, <3>1 DEF Current
    <3>5. DOMAIN <<>> = {} /\ y.page = <<>>
      BY <1>6
    <3> QED BY <1>9, <2>1, <3>3, <3>4, <3>5 DEF Current
  <2>3. Quiet(y, s, t)
    BY <1>6, <1>9, <2>2 DEF Quiet
  <2> QED BY <1>1, <1>6, <1>11, <2>3 DEF QInv
<1> QED BY <1>3, <1>10, <1>11

\* What is delivered was sent: the session has moved.
LEMMA DeliverQuiet ==
    ASSUME SInv, OInv, QInv, Deliver
    PROVE  QInv'
<1> DEFINE x == sess
           s == db[x.from]
           t == db[x.to]
           w == x.wire
           body == Head(w).body
           fr == Frame("entries", Tail(body))
           rest == IF Len(body) = 1 THEN Tail(w) ELSE <<fr>> \o Tail(w)
           y == [x EXCEPT !.got = x.got + 1, !.wire = rest]
<1>1. sess # NoSession /\ w # <<>> /\ Head(w).type = "entries" /\ x.expect = "page"
  BY DEF Deliver
<1>2. /\ Told(x, s, t) /\ DOMAIN x = SessionFields /\ w \in Seq(Frames) /\ Quiet(x, s, t)
  BY <1>1, ToldBefore, QuietBefore
<1>3. (sess' = [x EXCEPT !.place = "error"] /\ UNCHANGED db) \/ sess' = y
  BY <1>2, FieldNames DEF Deliver
<1>4. CASE sess' = [x EXCEPT !.place = "error"] /\ UNCHANGED db
  <2>1. Quiet(sess', s, t)
    BY <1>2, <1>4, QuietError
  <2>2. sess'.from = x.from /\ sess'.to = x.to
    BY <1>2, <1>4, FieldNames
  <2> QED BY <1>4, <2>1, <2>2 DEF QInv
<1>5. CASE sess' = y
  <2>1. \A j \in DOMAIN rest :
           rest[j].type = "entries" \/ \E i \in DOMAIN w : rest[j] = w[i]
    <3>1. /\ Len(w) \in Nat /\ Len(w) >= 1 /\ DOMAIN w = 1..Len(w)
          /\ Tail(w) \in Seq(Frames) /\ DOMAIN Tail(w) = 1..(Len(w) - 1)
          /\ \A j \in 1..(Len(w) - 1) : Tail(w)[j] = w[j + 1] /\ j + 1 \in 1..Len(w)
      BY <1>1, <1>2
    <3>2. CASE Len(body) = 1
      BY <3>1, <3>2
    <3>3. CASE Len(body) # 1
      <4> DEFINE v == <<fr>> \o Tail(w)
      <4>1. fr.type = "entries"
        BY DEF Frame
      <4> HIDE DEF fr
      <4>2. /\ DOMAIN v = 1..Len(w) /\ v[1] = fr
            /\ \A j \in 2..Len(w) : v[j] = w[j]
        <5>1. DOMAIN v = 1..Len(w) /\ v[1] = fr
          BY <3>1
        <5>2. \A j \in 2..Len(w) : v[j] = Tail(w)[j - 1] /\ j - 1 \in 1..(Len(w) - 1)
          BY <3>1
        <5>3. \A j \in 2..Len(w) : (j - 1) + 1 = j
          OBVIOUS
        <5> HIDE DEF v
        <5> QED BY <3>1, <5>1, <5>2, <5>3
      <4>3. \A j \in 1..Len(w) : j = 1 \/ j \in 2..Len(w)
        BY <3>1
      <4>4. rest = v
        BY <3>3
      <4>5. \A j \in 2..Len(w) : j \in DOMAIN w
        BY <3>1
      <4> HIDE DEF v, rest, w
      <4> QED BY <4>1, <4>2, <4>3, <4>4, <4>5
    <3> QED BY <3>2, <3>3
  <2> HIDE DEF rest
  <2>2. /\ y.from = x.from /\ y.to = x.to /\ y.dialer = x.dialer /\ y.owes = x.owes
        /\ y.wire = rest /\ y.place = x.place /\ y.expect = x.expect
        /\ y.disturbed = x.disturbed /\ y.moved = x.moved /\ y.pending = x.pending
        /\ y.after = x.after /\ y.page = x.page /\ y.start = x.start /\ y.skipped = x.skipped
    BY <1>2, FieldNames
  <2> HIDE DEF y
  <2>3. y.moved
    <3>1. 1 \in DOMAIN w /\ w[1].type = "entries"
      BY <1>1, <1>2
    <3> QED BY <1>2, <2>2, <3>1 DEF Told
  <2>4. Ended(y) => Ended(x)
    BY <2>1, <2>2 DEF Ended
  <2>5. \A j \in DOMAIN y.wire :
           y.wire[j].type = "inventory" => \E i \in DOMAIN x.wire : y.wire[j] = x.wire[i]
    BY <2>1, <2>2
  <2> HIDE DEF s, t, w
  <2>6. ASSUME NEW s1, NEW t1 PROVE Quiet(y, s1, t1)
    <3>1. y.place \in {x.place, "error"}
      BY <2>2
    <3> HIDE DEF x
    <3> QED BY <1>2, <2>2, <2>3, <2>4, <2>5, <3>1, QuietKept
  <2> QED BY <1>5, <2>2, <2>6 DEF QInv
<1> QED BY <1>3, <1>4, <1>5

LEMMA AdvanceQuiet ==
    ASSUME SInv, OInv, QInv, Advance
    PROVE  QInv'
<1> DEFINE x == sess
           s == db[x.from]
           t == db[x.to]
           w == x.wire
           type == Head(w).type
           y == [x EXCEPT !.wire = Tail(w), !.expect = Follow[type]]
<1>1. sess # NoSession /\ w # <<>> /\ UNCHANGED db
  BY DEF Advance
<1>2. Told(x, s, t) /\ DOMAIN x = SessionFields /\ w \in Seq(Frames) /\ Quiet(x, s, t)
  BY <1>1, ToldBefore, QuietBefore
<1>3. sess' = [x EXCEPT !.place = "error"] \/ (type \in DOMAIN Follow /\ sess' = y)
  BY <1>2, FieldNames DEF Advance
<1>4. CASE sess' = [x EXCEPT !.place = "error"]
  <2>1. Quiet(sess', s, t)
    BY <1>2, <1>4, QuietError
  <2>2. sess'.from = x.from /\ sess'.to = x.to
    BY <1>2, <1>4, FieldNames
  <2> QED BY <1>1, <2>1, <2>2 DEF QInv
<1>5. CASE type \in DOMAIN Follow /\ sess' = y
  <2>1. /\ Head(w) = w[1] /\ 1 \in DOMAIN w
        /\ \A j \in DOMAIN Tail(w) : j + 1 \in DOMAIN w /\ Tail(w)[j] = w[j + 1]
    BY <1>1, <1>2
  <2>2. /\ y.from = x.from /\ y.to = x.to /\ y.dialer = x.dialer /\ y.owes = x.owes
        /\ y.wire = Tail(w) /\ y.place = x.place /\ y.expect = Follow[type]
        /\ y.disturbed = x.disturbed /\ y.moved = x.moved /\ y.pending = x.pending
        /\ y.after = x.after /\ y.page = x.page /\ y.start = x.start /\ y.skipped = x.skipped
    BY <1>2, FieldNames
  <2> HIDE DEF y
  <2>3. Follow[type] \in {"done", "end"} => type \in {"streamdone", "done"}
    BY <1>5 DEF Follow
  <2>4. Ended(y) => Ended(x)
    BY <2>1, <2>2, <2>3 DEF Ended
  <2>5. \A j \in DOMAIN y.wire : \E i \in DOMAIN x.wire : y.wire[j] = x.wire[i]
    BY <2>1, <2>2
  <2> HIDE DEF s, t, w
  <2>6. Quiet(y, s, t)
    BY <1>2, <2>2, <2>4, <2>5, QuietKept
  <2> QED BY <1>1, <1>5, <2>2, <2>6 DEF QInv, s, t
<1> QED BY <1>3, <1>4, <1>5

LEMMA TurnsQuiet ==
    ASSUME SInv, OInv, QInv, \/ \E x, y \in Node : Dial(x, y)
                             \/ TurnAround \/ Finish \/ Abort
    PROVE  QInv'
<1>1. ASSUME NEW x \in Node, NEW y \in Node, Dial(x, y) PROVE QInv'
  BY <1>1, QuietBegins DEF Dial, QInv
<1>2. CASE TurnAround
  <2> DEFINE x == sess
  <2>1. /\ sess # NoSession /\ x.expect = "end" /\ sess' = Turned(x) /\ UNCHANGED db
    BY <1>2 DEF TurnAround
  <2>2. Told(x, db[x.from], db[x.to]) /\ Quiet(x, db[x.from], db[x.to])
    BY <2>1, ToldBefore, QuietBefore
  <2>3. Quiet(sess', db[x.to], db[x.from])
    BY <2>1, <2>2, QuietTurned
  <2>4. sess'.from = x.to /\ sess'.to = x.from
    BY <2>1 DEF Turned, Session
  <2> QED BY <2>1, <2>3, <2>4 DEF QInv
<1>3. CASE Finish
  <2>1. sess' = NoSession \/ sess' = Session(sess.dialer, sess.from, sess.round + 1)
    BY <1>3 DEF Finish
  <2> QED BY <2>1, QuietBegins DEF QInv
<1>4. CASE Abort
  BY <1>4 DEF Abort, QInv
<1> QED BY <1>1, <1>2, <1>3, <1>4

\* A disturbed session claims nothing of the stores.
LEMMA OthersQuiet ==
    ASSUME SInv, OInv, QInv, NEW n \in Node, NEW r,
           db' = [db EXCEPT ![n] = r], sess' = Touched(n)
    PROVE  QInv'
<1> DEFINE x == sess
<1>1. CASE sess = NoSession
  BY <1>1 DEF Touched, QInv
<1>2. CASE sess # NoSession /\ n \in {x.from, x.to}
  <2> DEFINE y == [x EXCEPT !.disturbed = TRUE]
  <2>1. Quiet(x, db[x.from], db[x.to]) /\ DOMAIN x = SessionFields
    BY <1>2, ToldBefore, QuietBefore
  <2>2. /\ y.from = x.from /\ y.to = x.to /\ y.owes = x.owes
        /\ y.wire = x.wire /\ y.place = x.place
        /\ y.disturbed = TRUE /\ y.moved = x.moved /\ y.page = x.page /\ y.start = x.start
    BY <2>1, FieldNames
  <2>3. sess' = y
    BY <1>2 DEF Touched
  <2> HIDE DEF y
  <2>4. y.disturbed
    BY <2>2
  <2>5. Quiet(y, db'[x.from], db'[x.to])
    BY <2>1, <2>2, <2>4 DEF Quiet
  <2> QED BY <2>2, <2>3, <2>5 DEF QInv
<1>3. CASE sess # NoSession /\ n \notin {x.from, x.to}
  <2>1. Quiet(x, db[x.from], db[x.to]) /\ sess' = x
    BY <1>3, QuietBefore DEF Touched
  <2>2. db'[x.from] = db[x.from] /\ db'[x.to] = db[x.to]
    BY <1>3, ToldBefore DEF SInv
  <2> QED BY <2>1, <2>2 DEF QInv
<1> QED BY <1>1, <1>2, <1>3

LEMMA NextQInv == SInv /\ OInv /\ QInv /\ [Next]_vars => QInv'
<1> SUFFICES ASSUME SInv, OInv, QInv, [Next]_vars PROVE QInv'
  OBVIOUS
<1>1. CASE UNCHANGED vars
  BY <1>1 DEF QInv, vars
<1>2. CASE SessionStep
  BY <1>2, OfferQuiet, AnswerQuiet, PassOverQuiet, SendPageQuiet, EndChainQuiet,
     EndInventoryQuiet, DeliverQuiet, AdvanceQuiet, TurnsQuiet DEF SessionStep
<1>3. CASE (\E x, y \in Node : Dial(x, y)) \/ Abort
  BY <1>3, TurnsQuiet
<1>4. CASE \E n \in Node : \/ \E e \in Entry : Author(n, e) \/ Compact(n, e)
                           \/ Purge(n)
                           \/ \E m \in Node, d \in Device : SideSession(m, n, d)
  <2>1. PICK n \in Node : \/ \E e \in Entry : Author(n, e) \/ Compact(n, e)
                          \/ Purge(n)
                          \/ \E m \in Node, d \in Device : SideSession(m, n, d)
    BY <1>4
  <2>2. \E r : db' = [db EXCEPT ![n] = r] /\ sess' = Touched(n)
    BY <2>1, Zenon DEF Author, Compact, Purge, SideSession
  <2> QED BY <2>2, OthersQuiet
<1> QED BY <1>1, <1>2, <1>3, <1>4 DEF Next

\* Two chains, each the other's or further, end at the same entry.
LEMMA BeyondIsSame ==
    ASSUME NEW s, StoreKept(s), NEW t, StoreKept(t), NEW d \in Device,
           Chain(s, d) # {} => Beyond(s, t, d), Chain(t, d) # {} => Beyond(t, s, d)
    PROVE  ChainTail(s, d) = ChainTail(t, d)
<1>1. ASSUME NEW u, StoreKept(u)
      PROVE  /\ ChainTail(u, d).lam \in Nat
             /\ Chain(u, d) = {} => ChainTail(u, d) = NoCursor
             /\ Chain(u, d) # {} => ChainTail(u, d) # NoCursor
  <2>1. StoreInv(u) /\ u.tip[d] \in Cursor
    BY <1>1 DEF StoreKept, StoreInv, Store
  <2>2. Chain(u, d) # {} => ChainTail(u, d) = u.tip[d] /\ u.tip[d] # NoCursor
    BY <2>1, TailIsTip
  <2>3. Chain(u, d) = {} => ChainTail(u, d) = NoCursor
    BY DEF ChainTail
  <2> QED BY <2>1, <2>2, <2>3, CursorFields
<1>2. NoCursor.lam = 0
  BY CursorFields
<1> QED BY <1>1, <1>2 DEF Beyond

\* "converged is true when the loop stopped on a fully quiet round"
\* (endpoint/dial.rs): after a round of connect_and_table_reconcile that moved
\* nothing, reports nothing pending and met no other process, both stores end
\* every chain at the same entry, but for those the round itself skipped.
THEOREM QuietConverges == Spec => []QuietIsConverged
<1>1. Init => OInv /\ QInv
  BY DEF Init, OInv, QInv
<1>2. SInv /\ OInv /\ [Next]_vars => OInv'
  BY NextOInv
<1>3. SInv /\ OInv /\ QInv /\ [Next]_vars => QInv'
  BY NextQInv
<1>4. SInv /\ OInv /\ QInv => QuietIsConverged
  <2> DEFINE x == sess
             s == db[x.from]
             t == db[x.to]
  <2> SUFFICES ASSUME SInv, OInv, QInv, Finished, ~Moved, ~x.disturbed,
                      NEW d \in Device \ x.skipped
               PROVE  ChainTail(s, d) = ChainTail(t, d)
    BY DEF QuietIsConverged
  <2>1. /\ sess # NoSession /\ x.expect = "end" /\ x.from # x.dialer /\ ~x.moved /\ ~x.pending
    BY DEF Finished, Moved
  <2>2. Told(x, s, t) /\ Quiet(x, s, t) /\ StoreKept(s) /\ StoreKept(t)
    BY <2>1, ToldBefore, QuietBefore
  <2>3. Ended(x)
    BY <2>1 DEF Ended
  <2>4. ~x.owes /\ Current(x, s, t)
    BY <2>1, <2>2, <2>3 DEF Told, Quiet
  <2>5. Chain(s, d) # {} => Beyond(s, t, d)
    BY <2>3, <2>4 DEF Current, Settled
  <2>6. Chain(t, d) # {} => Beyond(t, s, d)
    BY <2>1, <2>4 DEF Current
  <2> QED BY <2>2, <2>5, <2>6, BeyondIsSame
<1> QED BY <1>1, <1>2, <1>3, <1>4, SessionInvariance, PTL DEF Spec

-----------------------------------------------------------------------------
(* Sessions do not fail *)

\* What a session needs of the entries that exist and of its limits: where a
\* device signed two entries at one time, its chain begins at that time; the
\* times are below the ceiling and within one advance of a clock that starts
\* at 0; and the chains fit into one session.
SessionsFit ==
    /\ \A e, f \in Entry : e.dev = f.dev /\ e.lam = f.lam /\ e # f =>
          \A x \in Entry : x.dev = e.dev => e.lam <= x.lam
    /\ \A e \in Entry : e.lam < MaxEntryLamport /\ e.lam <= MaxLamportAdvance
    /\ IsFiniteSet(Device) /\ Cardinality(Device) <= ChainsPerSession

\* The entry of a floor is accepted, and a suffix is owed above it only: its
\* tip is not where its chain begins, also after a purge has dropped the floor.
FloorHeld(s, d) == s.floor[d] # NoCursor => \E x \in Chain(s, d) : CursorOf(x) = s.floor[d]
OwedAbove(s, d) ==
    s.cover[d] # NoObligation =>
        /\ s.floor[d] # NoCursor => s.floor[d].lam < s.cover[d].tip.lam
        /\ \E x \in Entry : x.dev = d /\ x.lam < s.cover[d].tip.lam
Rooted(s) == \A d \in Device : FloorHeld(s, d) /\ OwedAbove(s, d)

\* The floor a head offers is an entry's, below its tip or the tip itself.
HeadRooted(h) ==
    h.floor # NoCursor =>
        /\ Signed(h.dev, h.floor)
        /\ h.floor.lam <= h.tip.lam
        /\ h.floor.lam = h.tip.lam => h.floor = h.tip

\* The receiver's cursor is an entry's.
FrontierSigned(p) == p.frontier.kind # "empty" => Signed(p.head.dev, p.frontier.at)

\* What the receiver expects after a frame, and after all the sender has sent.
After == [inventory |-> "page", entries |-> "page", invdone |-> "stream",
          streamdone |-> "done", done |-> "end"]
Reaches == [start |-> "stream", offer |-> "stream", await |-> "page", serve |-> "page",
            sent |-> "end"]

\* Every frame in flight is the one the receiver will expect by then.
InStep(w, expect, place) ==
    /\ place \in DOMAIN Reaches
    /\ \A i \in 1..Len(w) :
          Expected[w[i].type] = IF i = 1 THEN expect ELSE After[w[i - 1].type]
    /\ Reaches[place] = IF w = <<>> THEN expect ELSE After[w[Len(w)].type]

\* No more chains were offered than there are up to the last one.
DevicesUpto(d) == {c \in Device : c <= d}
Sound(x) ==
    /\ InStep(x.wire, x.expect, x.place)
    /\ \A i \in DOMAIN x.wire : x.wire[i].type = "inventory" =>
          LET heads == x.wire[i].body IN
          /\ heads # <<>>
          /\ \A j \in DOMAIN heads : HeadRooted(heads[j])
          /\ x.chains <= Cardinality(DevicesUpto(Last(heads).dev))
    /\ x.after \in Nat
    /\ x.place # "await" => x.chains <= Cardinality(DevicesUpto(x.after))
    /\ \A i \in DOMAIN x.offered : HeadRooted(x.offered[i])
    /\ \A i \in DOMAIN x.page : HeadRooted(x.page[i].head) /\ FrontierSigned(x.page[i])
    /\ x.start # NoStart =>
          /\ x.start.kind = "after" /\ x.page # <<>>
          /\ Signed(Head(x.page).head.dev, x.start.at)

NInv ==
    /\ \A n \in Node : Rooted(db[n])
    /\ sess # NoSession => Sound(sess)

\* What an ingest does to floors, obligations and accepted entries.
LEMMA IngestTable ==
    ASSUME NEW s, StoreKept(s), NEW e \in Entry, NEW head \in HeadType, head.dev = e.dev,
           ~IngestFails(s, head, e)
    PROVE  LET v == Ingested(s, head, e) IN
           /\ s.accepted \subseteq v.accepted
           /\ \A d \in Device \ {e.dev} : v.floor[d] = s.floor[d] /\ v.cover[d] = s.cover[d]
           /\ \/ /\ v.floor[e.dev] = s.floor[e.dev]
                 /\ v.cover[e.dev] \in {s.cover[e.dev], NoObligation}
              \/ /\ head.floor = CursorOf(e) /\ v.floor[e.dev] = CursorOf(e) /\ e \in v.accepted
                 /\ v.cover[e.dev] # NoObligation =>
                       v.cover[e.dev].tip = head.tip /\ head.tip # CursorOf(e)
<1> USE EntryFields, CursorFields
<1> DEFINE t == AcceptRowEntry(s, e, head.floor, FALSE)
           stores == AcceptOutcome(s, e, head.floor) \in StoringOutcomes
           u == IF stores THEN Promote(t, e) ELSE t
           v == SettleCoverage(u, e.dev, s.floor[e.dev], head.tip)
           c == IF u.floor[e.dev] # s.floor[e.dev]
                THEN [floor |-> u.floor[e.dev].lam, tip |-> head.tip] ELSE u.cover[e.dev]
<1>0. /\ s \in Store /\ StoreInv(s) /\ e.dev \in Device
      /\ head.floor \in Cursor /\ head.tip \in Cursor
      /\ IsFiniteSet(s.accepted) /\ IsFiniteSet(s.gapped)
      /\ s.floor \in [Device -> Cursor]
  BY StoreFields DEF StoreKept, StoreInv, HeadType
<1>1. Ingested(s, head, e) = v
  BY DEF Ingested
<1>2. /\ u \in Store /\ s.accepted \subseteq u.accepted /\ u.cover = s.cover
      /\ \A d \in Device \ {e.dev} : u.floor[d] = s.floor[d]
      /\ u.floor[e.dev] # s.floor[e.dev] =>
            u.floor[e.dev] = CursorOf(e) /\ head.floor = CursorOf(e) /\ e \in u.accepted
  <2>1. CASE stores
    <3>1. Stores(s, t, e, head.floor) /\ StoreInv(t)
      BY <1>0, <2>1, AcceptStores, AcceptInv
    <3> HIDE DEF t
    <3>2. /\ t \in Store /\ t.accepted = s.accepted \cup {e} /\ t.gapped \subseteq s.gapped
          /\ t.cover = s.cover /\ t.tip[e.dev] = CursorOf(e)
          /\ \A d \in Device \ {e.dev} : t.floor[d] = s.floor[d]
          /\ t.floor[e.dev] # s.floor[e.dev] =>
                t.floor[e.dev] = CursorOf(e) /\ head.floor = CursorOf(e)
      BY <1>0, <3>1 DEF Stores
    <3>3. IsFiniteSet(t.accepted) /\ IsFiniteSet(t.gapped)
      BY <1>0, <3>2, FS_AddElement, FS_Subset
    <3>4. PICK last \in Entry : Promotes(t, Promote(t, e), e, last)
      BY <3>2, <3>3, PromoteTable
    <3>5. u = Promote(t, e)
      BY <2>1
    <3> HIDE DEF u
    <3>6. u \in Store /\ t.accepted \subseteq u.accepted /\ u.floor = t.floor /\ u.cover = t.cover
      BY <3>4, <3>5 DEF Promotes
    <3> QED BY <3>2, <3>6
  <2>2. CASE ~stores
    <3>1. Parks(s, t, e) /\ u = t
      BY <1>0, <2>2, AcceptKeeps
    <3> HIDE DEF t, u
    <3> QED BY <3>1 DEF Parks, SameButHeld
  <2> QED BY <2>1, <2>2
<1> HIDE DEF u, stores
<1>3. /\ SameChains(u, v) /\ v.floor = u.floor
      /\ v.cover[e.dev] = IF \E y \in Chain(u, e.dev) : CursorOf(y) = c.tip
                          THEN NoObligation ELSE c
      /\ \A x \in Device \ {e.dev} : v.cover[x] = u.cover[x]
  BY <1>0, <1>2, CoverageTable
<1> HIDE DEF v
<1>4. v.accepted = u.accepted
  BY <1>3 DEF SameChains
<1>5. CASE u.floor[e.dev] = s.floor[e.dev]
  BY <1>1, <1>2, <1>3, <1>4, <1>5
<1>6. CASE u.floor[e.dev] # s.floor[e.dev]
  <2>1. c.tip = head.tip /\ e \in Chain(u, e.dev)
    BY <1>2, <1>6 DEF Chain
  <2> HIDE DEF c
  <2> QED BY <1>1, <1>2, <1>3, <1>4, <1>6, <2>1
<1> QED BY <1>5, <1>6

\* A root is recorded with a promise above it, or with none.
LEMMA IngestRoots ==
    ASSUME NEW s, StoreKept(s), Rooted(s), NEW e \in Entry, NEW head \in HeadType,
           head.dev = e.dev, ~IngestFails(s, head, e)
    PROVE  Rooted(Ingested(s, head, e))
<1> USE EntryFields
<1> DEFINE v == Ingested(s, head, e)
<1>1. /\ s.accepted \subseteq v.accepted
      /\ \A d \in Device \ {e.dev} : v.floor[d] = s.floor[d] /\ v.cover[d] = s.cover[d]
      /\ \/ /\ v.floor[e.dev] = s.floor[e.dev]
            /\ v.cover[e.dev] \in {s.cover[e.dev], NoObligation}
         \/ /\ head.floor = CursorOf(e) /\ v.floor[e.dev] = CursorOf(e) /\ e \in v.accepted
            /\ v.cover[e.dev] # NoObligation =>
                  v.cover[e.dev].tip = head.tip /\ head.tip # CursorOf(e)
  BY IngestTable
<1> HIDE DEF v
<1>2. \A d : Chain(s, d) \subseteq Chain(v, d)
  BY <1>1 DEF Chain
<1>3. ASSUME NEW d \in Device, v.floor[d] = s.floor[d],
             v.cover[d] \in {s.cover[d], NoObligation}
      PROVE  FloorHeld(v, d) /\ OwedAbove(v, d)
  BY <1>2, <1>3 DEF Rooted, FloorHeld, OwedAbove
<1>4. ASSUME head.floor = CursorOf(e), v.floor[e.dev] = CursorOf(e), e \in v.accepted,
             v.cover[e.dev] # NoObligation =>
                v.cover[e.dev].tip = head.tip /\ head.tip # CursorOf(e)
      PROVE  FloorHeld(v, e.dev) /\ OwedAbove(v, e.dev)
  <2>1. FloorHeld(v, e.dev)
    BY <1>4 DEF FloorHeld, Chain
  <2>2. v.cover[e.dev] # NoObligation => e.lam < head.tip.lam
    <3>1. AdvertisementIsValid(head) /\ head.tip.lam \in Nat
      BY DEF IngestFails, HeadType, Cursor
    <3> QED BY <1>4, <3>1 DEF AdvertisementIsValid
  <2> QED BY <1>4, <2>1, <2>2 DEF OwedAbove
<1> QED BY <1>1, <1>3, <1>4 DEF Rooted, v

\* Other writers: signing adds, compaction keeps the entry of the new floor
\* and runs only where nothing is owed, a purge drops the floors.
LEMMA OthersRoot ==
    ASSUME NEW s, StoreKept(s), Rooted(s)
    PROVE  /\ \A e \in Entry : Rooted(InsertEntry(s, e, FALSE))
           /\ \A x \in s.accepted : ~StreamPending(s) => Rooted(CompactPrefixes(s, {x}))
           /\ Rooted([s EXCEPT !.accepted = {}, !.pending = {}, !.gapped = {},
                               !.floor = [d \in Device |-> NoCursor]])
<1>0. s \in Store /\ s.accepted \subseteq Entry /\ s.floor \in [Device -> Cursor]
  BY StoreFields DEF StoreKept, StoreInv
<1>1. ASSUME NEW e \in Entry PROVE Rooted(InsertEntry(s, e, FALSE))
  <2> DEFINE t == InsertEntry(s, e, FALSE)
  <2>1. t.accepted = s.accepted \cup {e} /\ t.floor = s.floor /\ t.cover = s.cover
    BY <1>0, InsertEntryFields
  <2> HIDE DEF t
  <2>2. \A d : Chain(s, d) \subseteq Chain(t, d)
    BY <2>1 DEF Chain
  <2>3. Rooted(t)
    BY <2>1, <2>2 DEF Rooted, FloorHeld, OwedAbove
  <2> QED BY <2>3 DEF t
<1>2. ASSUME NEW x \in s.accepted, ~StreamPending(s) PROVE Rooted(CompactPrefixes(s, {x}))
  <2> DEFINE A == {e \in s.accepted : (e.dev = x.dev /\ e.lam < x.lam) => e \in s.pending}
             G == {g \in s.gapped : ~(g.dev = x.dev /\ g.lam < x.lam)}
             F == [d \in Device |-> IF x.dev = d THEN CursorOf(x) ELSE s.floor[d]]
             t == CompactPrefixes(s, {x})
  <2>1. t = [s EXCEPT !.accepted = A, !.gapped = G, !.floor = F]
    BY DEF CompactPrefixes
  <2>2. x \in A /\ \A e \in s.accepted : e.dev # x.dev => e \in A
    BY <1>0, EntryFields
  <2>3. \A d \in Device : F[d] = IF x.dev = d THEN CursorOf(x) ELSE s.floor[d]
    OBVIOUS
  <2> HIDE DEF A, G, F
  <2>4. t.accepted = A /\ t.floor = F /\ t.cover = s.cover
    BY <1>0, <2>1 DEF Store
  <2> HIDE DEF t
  <2>5. ASSUME NEW d \in Device PROVE FloorHeld(t, d) /\ OwedAbove(t, d)
    <3>1. t.cover[d] = NoObligation
      BY <1>2, <2>4 DEF StreamPending
    <3>2. CASE d = x.dev
      BY <2>2, <2>3, <2>4, <3>1, <3>2 DEF FloorHeld, OwedAbove, Chain
    <3>3. CASE d # x.dev
      <4>1. t.floor[d] = s.floor[d] /\ Chain(s, d) \subseteq Chain(t, d)
        BY <2>2, <2>3, <2>4, <3>3 DEF Chain
      <4> QED BY <3>1, <4>1 DEF Rooted, FloorHeld, OwedAbove
    <3> QED BY <3>2, <3>3
  <2> QED BY <2>5 DEF Rooted, t
<1>3. Rooted([s EXCEPT !.accepted = {}, !.pending = {}, !.gapped = {},
                       !.floor = [d \in Device |-> NoCursor]])
  <2> DEFINE F == [d \in Device |-> NoCursor]
             t == [s EXCEPT !.accepted = {}, !.pending = {}, !.gapped = {}, !.floor = F]
  <2>1. t.floor = F /\ t.cover = s.cover
    BY <1>0 DEF Store
  <2>2. \A d \in Device : t.floor[d] = NoCursor
    BY <2>1
  <2> HIDE DEF F, t
  <2>3. Rooted(t)
    BY <2>1, <2>2 DEF Rooted, FloorHeld, OwedAbove
  <2> QED BY <2>3 DEF t, F
<1> QED BY <1>1, <1>2, <1>3

\* What a store says of a chain: its floor is an entry's, not past the tip.
LEMMA HeadIsRooted ==
    ASSUME NEW s, StoreKept(s), Rooted(s), NEW d \in Device, Chain(s, d) # {}
    PROVE  HeadRooted(ChainHead(s, d))
<1> USE EntryFields, CursorFields
<1>0. s \in Store /\ StoreInv(s) /\ Chain(s, d) \subseteq Entry /\ s.cover[d] \in Obligation
  BY StoreFields DEF StoreKept, StoreInv, Chain
<1>1. ChainTail(s, d) = s.tip[d]
  BY <1>0, TailIsTip
<1>2. PICK m \in Chain(s, d) : s.tip[d] = CursorOf(m) /\ \A x \in Chain(s, d) : x.lam <= m.lam
  BY <1>0 DEF StoreInv, TailWitnessed
<1>3. ChainHead(s, d).dev = d /\ ChainHead(s, d).floor = s.floor[d]
      /\ ChainHead(s, d).tip = IF s.cover[d] # NoObligation THEN s.cover[d].tip ELSE CursorOf(m)
  BY <1>1, <1>2 DEF ChainHead
<1> SUFFICES ASSUME s.floor[d] # NoCursor PROVE HeadRooted(ChainHead(s, d))
  BY <1>3 DEF HeadRooted
<1>4. PICK x \in Chain(s, d) : CursorOf(x) = s.floor[d]
  BY DEF Rooted, FloorHeld
<1>5. x \in Entry /\ x.dev = d /\ x.lam <= m.lam /\ m \in Entry
      /\ (x.lam = m.lam => x = m) /\ s.floor[d].lam = x.lam
  BY <1>0, <1>2, <1>4 DEF Chain, StoreInv, OnePerLamport
<1>6. Signed(d, s.floor[d])
  BY <1>4, <1>5 DEF Signed
<1>7. CASE s.cover[d] = NoObligation
  BY <1>3, <1>4, <1>5, <1>6, <1>7 DEF HeadRooted
<1>8. CASE s.cover[d] # NoObligation
  <2>1. s.floor[d].lam < s.cover[d].tip.lam /\ s.cover[d].tip.lam \in Nat
    BY <1>0, <1>8 DEF Rooted, OwedAbove, Obligation, Cursor
  <2> QED BY <1>3, <1>5, <1>6, <1>8, <2>1 DEF HeadRooted
<1> QED BY <1>7, <1>8

\* A peer's cursor is an entry's.
LEMMA FrontierIsSigned ==
    ASSUME NEW s, StoreKept(s), NEW d \in Device, ChainFrontier(s, d).kind # "empty"
    PROVE  Signed(d, ChainFrontier(s, d).at)
<1>0. s \in Store /\ StoreInv(s)
  BY DEF StoreKept, StoreInv
<1>1. Chain(s, d) = {} => ChainTail(s, d) = NoCursor
  BY DEF ChainTail
<1>2. Chain(s, d) # {} => ChainTail(s, d) = s.tip[d] /\ s.tip[d] # NoCursor
  BY <1>0, TailIsTip
<1>3. s.tip[d] # NoCursor => Signed(d, s.tip[d])
  BY DEF StoreKept
<1>4. ChainFrontier(s, d).at = s.tip[d] /\ s.tip[d] # NoCursor
  BY <1>1, <1>2 DEF ChainFrontier
<1> QED BY <1>3, <1>4

\* A store that owes a suffix and a peer's cursor do not contradict each other.
LEMMA ReadSucceeds ==
    ASSUME SessionsFit, NEW s, StoreKept(s), Rooted(s), NEW d \in Device,
           NEW start, start.kind # "beginning" => Signed(d, start.at), NEW limit
    PROVE  ChainEntries(s, d, start, limit).kind # "error"
<1> USE EntryFields
<1>1. ASSUME start.kind # "beginning", s.cover[d] # NoObligation,
             start.at.lam = s.cover[d].tip.lam
      PROVE  start.at = s.cover[d].tip
  <2>1. PICK e \in Entry : e.dev = d /\ CursorOf(e) = start.at
    BY <1>1 DEF Signed
  <2>2. PICK f \in Entry : f.dev = d /\ CursorOf(f) = s.cover[d].tip
    BY <1>1 DEF StoreKept, Signed
  <2>3. PICK x \in Entry : x.dev = d /\ x.lam < s.cover[d].tip.lam
    BY <1>1 DEF Rooted, OwedAbove
  <2>4. e.lam = f.lam /\ x.lam < e.lam /\ ~(e.lam <= x.lam)
    BY <1>1, <2>1, <2>2, <2>3
  <2>5. e = f
    BY <2>1, <2>2, <2>3, <2>4 DEF SessionsFit
  <2> QED BY <2>1, <2>2, <2>5
<1>2. PeerIsAhead(s, d, start.at) => s.cover[d] # NoObligation
  BY DEF PeerIsAhead
<1> QED BY <1>1, <1>2 DEF ChainEntries

\* A frame the receiver will expect by then is sent.
LEMMA StepSend ==
    ASSUME NEW w \in Seq(Frames), NEW expect, NEW place, InStep(w, expect, place),
           NEW fr \in Frames, Expected[fr.type] = Reaches[place],
           NEW next \in DOMAIN Reaches, After[fr.type] = Reaches[next]
    PROVE  InStep(w \o <<fr>>, expect, next)
<1> DEFINE n == Len(w)
           v == w \o <<fr>>
<1>1. /\ n \in Nat /\ v \in Seq(Frames) /\ Len(v) = n + 1 /\ v[n + 1] = fr
      /\ \A i \in 1..n : v[i] = w[i]
  OBVIOUS
<1>2. v # <<>> /\ (w = <<>> <=> n = 0)
  <2>1. Len(v) # 0
    BY <1>1
  <2>2. w = <<>> <=> n = 0
    BY EmptySeq
  <2> HIDE DEF v
  <2> QED BY <2>1, <2>2
<1>3. /\ \A i \in 1..n : Expected[w[i].type] = IF i = 1 THEN expect ELSE After[w[i - 1].type]
      /\ Reaches[place] = IF n = 0 THEN expect ELSE After[w[n].type]
  BY <1>2 DEF InStep
<1> HIDE DEF n, v
<1>4. ASSUME NEW i \in 1..(n + 1)
      PROVE  Expected[v[i].type] = IF i = 1 THEN expect ELSE After[v[i - 1].type]
  <2>1. CASE i \in 1..n
    <3>1. i # 1 => i - 1 \in 1..n
      BY <1>1, <2>1
    <3> QED BY <1>1, <1>3, <2>1, <3>1
  <2>2. CASE i = n + 1
    <3>1. i # 1 => i - 1 = n /\ n \in 1..n /\ n # 0
      BY <1>1, <2>2
    <3>2. i = 1 => n = 0
      BY <1>1, <2>2
    <3> QED BY <1>1, <1>3, <2>2, <3>1, <3>2
  <2> QED BY <1>1, <2>1, <2>2
<1>5. v[Len(v)] = fr
  BY <1>1
<1>6. InStep(v, expect, next)
  BY <1>1, <1>2, <1>4, <1>5 DEF InStep
<1> QED BY <1>6 DEF v

\* The first frame is the expected one, and the rest is expected after it.
LEMMA StepReceive ==
    ASSUME NEW w \in Seq(Frames), NEW expect, NEW place, InStep(w, expect, place), w # <<>>
    PROVE  /\ Expected[Head(w).type] = expect
           /\ InStep(Tail(w), After[Head(w).type], place)
<1> DEFINE n == Len(w)
           v == Tail(w)
<1>1. /\ n \in Nat /\ n >= 1 /\ v \in Seq(Frames) /\ Len(v) = n - 1 /\ Head(w) = w[1]
      /\ \A i \in 1..(n - 1) : v[i] = w[i + 1]
  OBVIOUS
<1>2. /\ \A i \in 1..n : Expected[w[i].type] = IF i = 1 THEN expect ELSE After[w[i - 1].type]
      /\ Reaches[place] = After[w[n].type] /\ place \in DOMAIN Reaches
  BY DEF InStep
<1>3. v = <<>> <=> n - 1 = 0
  BY <1>1, EmptySeq
<1> HIDE DEF n, v
<1>4. Expected[Head(w).type] = expect
  BY <1>1, <1>2
<1>5. ASSUME NEW i \in 1..(n - 1)
      PROVE  Expected[v[i].type] = IF i = 1 THEN After[w[1].type] ELSE After[v[i - 1].type]
  <2>1. v[i] = w[i + 1] /\ i + 1 \in 1..n /\ i + 1 # 1 /\ (i + 1) - 1 = i
    BY <1>1
  <2>2. Expected[v[i].type] = After[w[i].type]
    BY <1>2, <2>1
  <2>3. i # 1 => v[i - 1] = w[i]
    BY <1>1
  <2> QED BY <2>2, <2>3
<1>6. Reaches[place] = IF v = <<>> THEN After[w[1].type] ELSE After[v[Len(v)].type]
  <2>1. CASE n = 1
    BY <1>2, <1>3, <2>1
  <2>2. CASE n # 1
    <3>1. v # <<>> /\ n - 1 \in 1..(n - 1) /\ (n - 1) + 1 = n /\ Len(v) = n - 1
      BY <1>1, <1>3, <2>2
    <3>2. v[n - 1] = w[n]
      BY <1>1, <3>1
    <3> QED BY <1>2, <3>1, <3>2
  <2> QED BY <2>1, <2>2
<1>7. InStep(v, After[w[1].type], place)
  BY <1>1, <1>2, <1>5, <1>6 DEF InStep
<1> QED BY <1>1, <1>4, <1>7 DEF v

\* The rest of a frame takes its place.
LEMMA StepDeliver ==
    ASSUME NEW w \in Seq(Frames), NEW expect, NEW place, InStep(w, expect, place), w # <<>>,
           NEW rest \in Frames, rest.type = Head(w).type
    PROVE  InStep(<<rest>> \o Tail(w), expect, place)
<1> DEFINE n == Len(w)
           v == <<rest>> \o Tail(w)
<1>1. /\ n \in Nat /\ n >= 1 /\ v \in Seq(Frames) /\ Len(v) = n
      /\ Head(w) = w[1] /\ v[1] = rest /\ \A i \in 2..n : v[i] = w[i]
  OBVIOUS
<1>2. \A i \in 1..n : v[i].type = w[i].type
  <2>1. \A i \in 1..n : i = 1 \/ i \in 2..n
    BY <1>1
  <2> QED BY <1>1, <2>1
<1> HIDE DEF v
<1>3. v # <<>>
  BY <1>1
<1>4. \A i \in 1..n : i # 1 => i - 1 \in 1..n
  BY <1>1
<1>5. n \in 1..n
  BY <1>1
<1>6. InStep(v, expect, place)
  BY <1>1, <1>2, <1>3, <1>4, <1>5 DEF InStep
<1> QED BY <1>6 DEF v

\* Two marks end the stream.
LEMMA StepEnd ==
    ASSUME NEW w \in Seq(Frames), NEW expect, NEW place, InStep(w, expect, place),
           Reaches[place] = "stream", NEW owes \in BOOLEAN
    PROVE  /\ InStep(w \o <<Frame("streamdone", owes), Frame("done", owes)>>, expect, "sent")
           /\ \A i \in 1..(Len(w) + 2) :
                 LET v == w \o <<Frame("streamdone", owes), Frame("done", owes)>> IN
                 v[i].type = "inventory" => i \in DOMAIN w /\ v[i] = w[i]
<1> DEFINE a == Frame("streamdone", owes)
           b == Frame("done", owes)
           v == w \o <<a, b>>
           n == Len(w)
<1>1. /\ a \in Frames /\ b \in Frames /\ a.type = "streamdone" /\ b.type = "done"
  BY DEF Frame, Frames
<1> HIDE DEF a, b
<1>2. /\ n \in Nat /\ v \in Seq(Frames) /\ Len(v) = n + 2 /\ v[n + 1] = a /\ v[n + 2] = b
      /\ DOMAIN w = 1..n /\ \A i \in 1..n : v[i] = w[i]
  BY <1>1
<1>3. w = <<>> <=> n = 0
  BY EmptySeq
<1>4. /\ \A i \in 1..n : Expected[w[i].type] = IF i = 1 THEN expect ELSE After[w[i - 1].type]
      /\ "stream" = IF n = 0 THEN expect ELSE After[w[n].type]
  BY <1>3 DEF InStep
<1>5. /\ Expected[a.type] = "stream" /\ Expected[b.type] = "done"
      /\ After[a.type] = "done" /\ After[b.type] = "end"
      /\ Reaches["sent"] = "end" /\ "sent" \in DOMAIN Reaches
  BY <1>1 DEF Expected, After, Reaches
<1> HIDE DEF n, v
<1>6. ASSUME NEW i \in 1..(n + 2)
      PROVE  /\ Expected[v[i].type] = IF i = 1 THEN expect ELSE After[v[i - 1].type]
             /\ v[i].type = "inventory" => i \in DOMAIN w /\ v[i] = w[i]
  <2>1. CASE i \in 1..n
    <3>1. i # 1 => i - 1 \in 1..n
      BY <1>2, <2>1
    <3> QED BY <1>2, <1>4, <2>1, <3>1
  <2>2. CASE i = n + 1
    <3>1. i # 1 => i - 1 = n /\ n \in 1..n /\ n # 0
      BY <1>2, <2>2
    <3>2. i = 1 => n = 0
      BY <1>2, <2>2
    <3> QED BY <1>1, <1>2, <1>4, <1>5, <2>2, <3>1, <3>2
  <2>3. CASE i = n + 2
    <3>1. i # 1 /\ i - 1 = n + 1
      BY <1>2, <2>3
    <3> QED BY <1>1, <1>2, <1>5, <2>3, <3>1
  <2> QED BY <1>2, <2>1, <2>2, <2>3
<1>7. v # <<>> /\ v[Len(v)] = b
  BY <1>2
<1>8. InStep(v, expect, "sent")
  BY <1>2, <1>5, <1>6, <1>7 DEF InStep
<1> QED BY <1>6, <1>8 DEF v, a, b, n

\* A page of an inventory is in the order of the devices, past the last one
\* offered: with it, there are as many more devices as it has chains.
LEMMA PageCounts ==
    ASSUME SessionsFit, NEW s, StoreKept(s), Rooted(s), NEW after \in Nat, NEW limit \in Nat,
           ChainPage(s, after, limit) # <<>>
    PROVE  LET page == ChainPage(s, after, limit) IN
           /\ \A j \in DOMAIN page : HeadRooted(page[j])
           /\ Last(page).dev \in Nat
           /\ Cardinality(DevicesUpto(after)) + Len(page) <= Cardinality(DevicesUpto(Last(page).dev))
<1> DEFINE D == {d \in Device : d > after /\ Chain(s, d) # {}}
           key == [d \in Device |-> d]
           Rank(x) == Cardinality({y \in D : key[y] <= key[x]})
           N == Cardinality(D)
           n == IF N < limit THEN N ELSE limit
           p == FirstInOrder(D, key, limit)
           page == ChainPage(s, after, limit)
<1>1. IsFiniteSet(D)
  BY ChainsFinite
<1>2. Device \subseteq Nat
  BY SessionAssumption
<1>3. (\A d \in D : key[d] \in Nat) /\ \A x, y \in D : key[x] = key[y] => x = y
  BY <1>2
<1>4. N \in Nat /\ n \in Nat /\ n <= N
  BY <1>1, FS_CardinalityType
<1>5. p = [i \in 1..n |-> CHOOSE x \in D : Rank(x) = i]
  BY DEF FirstInOrder
<1>6. \A i \in 1..N : \E x \in D : Rank(x) = i
  <2> HIDE DEF D, key
  <2>1. \A d \in D : key[d] \in Nat
    BY <1>3
  <2>2. \A x, y \in D : key[x] = key[y] => x = y
    BY <1>3
  <2>3. ASSUME NEW i \in 1..Cardinality(D)
        PROVE  \E x \in D : Cardinality({y \in D : key[y] <= key[x]}) = i
    BY ONLY <1>1, <2>1, <2>2, <2>3, EveryRank
  <2> QED BY <2>3
<1>7. page = [i \in DOMAIN p |-> ChainHead(s, p[i])]
  BY DEF ChainPage
<1>8. \A x \in D : Rank(x) = Cardinality({y \in D : y <= x})
  OBVIOUS
<1>9. \A d \in D : d \in Device /\ d > after /\ HeadRooted(ChainHead(s, d)) /\ ChainHead(s, d).dev = d
  BY HeadIsRooted, HeadsSigned
<1>10. page # <<>>
  OBVIOUS
<1> HIDE DEF D, Rank, N, n, p, page
<1>11. DOMAIN p = 1..n /\ \A i \in 1..n : p[i] \in D /\ Rank(p[i]) = i
  <2>1. ASSUME NEW i \in 1..n PROVE p[i] \in D /\ Rank(p[i]) = i
    <3>1. i \in 1..N
      BY <1>4
    <3>2. \E x \in D : Rank(x) = i
      BY <1>6, <3>1
    <3> QED BY <1>5, <3>2
  <2> QED BY <1>5, <2>1
<1>12. DOMAIN page = 1..n /\ \A i \in 1..n : page[i] = ChainHead(s, p[i])
  BY <1>7, <1>11
<1>13. page \in Seq(HeadType)
  BY PageOfHeads DEF page
<1>14. Len(page) = n /\ n # 0
  <2>1. Len(page) = n
    BY <1>4, <1>12, <1>13
  <2> QED BY <1>10, <1>13, <2>1, EmptySeq
<1>15. Last(page) = page[n] /\ n \in 1..n
  BY <1>4, <1>14 DEF Last
<1> DEFINE last == p[n]
<1>16. Last(page).dev = last /\ last \in D /\ Rank(last) = n /\ last \in Nat /\ last > after
  BY <1>2, <1>9, <1>11, <1>12, <1>15
<1> HIDE DEF last
<1> DEFINE A == DevicesUpto(after)
           B == {y \in D : y <= last}
           C == DevicesUpto(last)
<1>17. IsFiniteSet(A) /\ IsFiniteSet(B) /\ IsFiniteSet(C)
  <2>1. A \in SUBSET Device /\ B \in SUBSET Device /\ C \in SUBSET Device
    BY <1>9 DEF DevicesUpto
  <2>2. IsFiniteSet(Device)
    BY DEF SessionsFit
  <2> HIDE DEF A, B, C
  <2> QED BY <2>1, <2>2, FS_Subset
<1>18. A \cap B = {} /\ A \cup B \in SUBSET C
  <2>1. \A y \in A : y \in Device /\ y <= after
    BY DEF DevicesUpto
  <2>2. \A y \in B : y \in Device /\ y > after /\ y <= last
    BY <1>9
  <2>3. \A y \in Device : y <= last => y \in C
    BY DEF DevicesUpto
  <2> HIDE DEF A, B, C
  <2>4. \A y \in A : y <= last /\ ~(y > after)
    <3>1. after \in Nat /\ last \in Nat /\ last > after
      BY <1>16
    <3>2. \A k \in Nat : k <= after => k <= last /\ ~(k > after)
      BY <3>1
    <3> QED BY <1>2, <2>1, <3>2
  <2>5. A \cap B = {}
    BY <2>2, <2>4
  <2>6. \A y \in A \cup B : y \in C
    BY <2>1, <2>2, <2>3, <2>4
  <2> QED BY <2>5, <2>6
<1>19. Cardinality(B) = n
  BY <1>8, <1>16
<1> HIDE DEF A, B, C
<1>20. /\ Cardinality(A \cup B) = Cardinality(A) + Cardinality(B) - Cardinality(A \cap B)
       /\ Cardinality(A \cup B) <= Cardinality(C)
       /\ Cardinality(A) \in Nat /\ Cardinality(C) \in Nat
  <2>1. Cardinality(A \cup B) = Cardinality(A) + Cardinality(B) - Cardinality(A \cap B)
    BY <1>17, FS_Union
  <2>2. Cardinality(A \cup B) <= Cardinality(C)
    BY <1>17, <1>18, FS_Subset
  <2>3. Cardinality(A) \in Nat /\ Cardinality(C) \in Nat
    BY <1>17, FS_CardinalityType
  <2> QED BY <2>1, <2>2, <2>3
<1>21. Cardinality(A \cap B) = 0
  BY <1>18, FS_EmptySet
<1>22. Cardinality(A) + n <= Cardinality(C)
  BY <1>4, <1>19, <1>20, <1>21
<1>23. \A j \in DOMAIN page : HeadRooted(page[j])
  BY <1>9, <1>11, <1>12
<1> QED BY <1>14, <1>16, <1>22, <1>23 DEF A, C, page

\* When as many chains were offered as a session may, none is left.
LEMMA NoneLeft ==
    ASSUME SessionsFit, NEW s, StoreKept(s), Rooted(s), NEW after \in Nat,
           ChainsPerSession <= Cardinality(DevicesUpto(after))
    PROVE  ChainPage(s, after, 1) = <<>>
<1> SUFFICES ASSUME ChainPage(s, after, 1) # <<>> PROVE FALSE
  OBVIOUS
<1> DEFINE page == ChainPage(s, after, 1)
           C == DevicesUpto(Last(page).dev)
<1>1. Cardinality(DevicesUpto(after)) + Len(page) <= Cardinality(C)
  BY PageCounts
<1>2. page \in Seq(HeadType)
  BY PageOfHeads
<1>3. Len(page) \in Nat /\ Len(page) # 0
  BY <1>2, EmptySeq
<1>4. C \in SUBSET Device /\ DevicesUpto(after) \in SUBSET Device
  BY DEF DevicesUpto
<1> HIDE DEF page, C
<1>5. IsFiniteSet(Device) /\ Cardinality(Device) <= ChainsPerSession /\ ChainsPerSession \in Nat
  BY SessionAssumption DEF SessionsFit
<1>6. /\ Cardinality(C) <= Cardinality(Device) /\ Cardinality(Device) \in Nat
      /\ Cardinality(C) \in Nat /\ Cardinality(DevicesUpto(after)) \in Nat
  <2>1. Cardinality(C) <= Cardinality(Device) /\ IsFiniteSet(C) /\ IsFiniteSet(DevicesUpto(after))
    BY <1>4, <1>5, FS_Subset
  <2> QED BY <1>5, <2>1, FS_CardinalityType
<1> QED BY <1>1, <1>3, <1>5, <1>6

LEMMA UptoCounted ==
    ASSUME SessionsFit, NEW d
    PROVE  Cardinality(DevicesUpto(d)) \in Nat
<1>1. DevicesUpto(d) \in SUBSET Device /\ IsFiniteSet(Device)
  BY DEF DevicesUpto, SessionsFit
<1>2. IsFiniteSet(DevicesUpto(d))
  BY <1>1, FS_Subset
<1> QED BY <1>2, FS_CardinalityType

\* What is known before a step of the session.
LEMMA SoundBefore ==
    ASSUME SInv, NInv, sess # NoSession
    PROVE  /\ Sound(sess) /\ SessionOK(sess) /\ DOMAIN sess = SessionFields
           /\ sess.wire \in Seq(Frames) /\ sess.owes \in BOOLEAN
           /\ WireOK(sess.wire, sess.offered, sess.place)
           /\ sess.from \in Node /\ sess.to \in Node /\ sess.dialer \in Node
           /\ StoreKept(db[sess.from]) /\ StoreKept(db[sess.to])
           /\ Rooted(db[sess.from]) /\ Rooted(db[sess.to])
<1>1. SessionOK(sess) /\ Sound(sess)
  BY DEF SInv, NInv
<1>2. sess.from \in Node /\ sess.to \in Node
  BY <1>1 DEF SessionOK
<1> QED BY <1>1, <1>2 DEF SInv, NInv, SessionOK, WireOK

LEMMA SoundSession ==
    ASSUME NInv, UNCHANGED db, sess' # NoSession => Sound(sess')
    PROVE  NInv'
BY DEF NInv

\* A step that offers no chains and answers none.
LEMMA SoundMoves ==
    ASSUME NEW x, Sound(x), NEW y,
           y.chains = x.chains, y.after = x.after, y.offered = x.offered,
           x.place # "await" \/ y.place = "await",
           InStep(y.wire, y.expect, y.place),
           \A i \in DOMAIN y.wire : y.wire[i].type = "inventory" =>
              \E j \in DOMAIN x.wire : y.wire[i] = x.wire[j],
           \A i \in DOMAIN y.page : \E j \in DOMAIN x.page : y.page[i] = x.page[j],
           \/ y.start = NoStart
           \/ y.page = x.page /\ y.start = x.start
           \/ /\ y.page = x.page /\ x.page # <<>>
              /\ y.start.kind = "after" /\ Signed(Head(x.page).head.dev, y.start.at)
    PROVE  Sound(y)
<1>1. \A i \in DOMAIN y.wire : y.wire[i].type = "inventory" =>
         LET heads == y.wire[i].body IN
         /\ heads # <<>>
         /\ \A j \in DOMAIN heads : HeadRooted(heads[j])
         /\ y.chains <= Cardinality(DevicesUpto(Last(heads).dev))
  BY DEF Sound
<1>2. y.after \in Nat /\ (y.place # "await" => y.chains <= Cardinality(DevicesUpto(y.after)))
  BY DEF Sound
<1>3. \A i \in DOMAIN y.offered : HeadRooted(y.offered[i])
  BY DEF Sound
<1>4. \A i \in DOMAIN y.page : HeadRooted(y.page[i].head) /\ FrontierSigned(y.page[i])
  BY DEF Sound
<1>5. y.start # NoStart =>
         y.start.kind = "after" /\ y.page # <<>> /\ Signed(Head(y.page).head.dev, y.start.at)
  BY DEF Sound
<1> QED BY <1>1, <1>2, <1>3, <1>4, <1>5 DEF Sound

\* What a frame appended, and a frame taken, leave of the others.
LEMMA SameFrames ==
    ASSUME NEW w \in Seq(Frames)
    PROVE  /\ \A fr \in Frames : \A i \in DOMAIN (w \o <<fr>>) :
                 (w \o <<fr>>)[i] = fr \/ \E j \in DOMAIN w : (w \o <<fr>>)[i] = w[j]
           /\ w # <<>> => \A i \in DOMAIN Tail(w) : \E j \in DOMAIN w : Tail(w)[i] = w[j]
           /\ w # <<>> => \A fr \in Frames : \A i \in DOMAIN (<<fr>> \o Tail(w)) :
                 (<<fr>> \o Tail(w))[i] = fr \/ \E j \in DOMAIN w : (<<fr>> \o Tail(w))[i] = w[j]
<1> DEFINE n == Len(w)
<1>0. n \in Nat /\ DOMAIN w = 1..n
  OBVIOUS
<1>1. ASSUME NEW fr \in Frames, NEW i \in DOMAIN (w \o <<fr>>)
      PROVE  (w \o <<fr>>)[i] = fr \/ \E j \in DOMAIN w : (w \o <<fr>>)[i] = w[j]
  <2>1. /\ DOMAIN (w \o <<fr>>) = 1..(n + 1) /\ (w \o <<fr>>)[n + 1] = fr
        /\ \A j \in 1..n : (w \o <<fr>>)[j] = w[j]
    OBVIOUS
  <2>2. i \in 1..n \/ i = n + 1
    BY <1>0, <1>1, <2>1
  <2> QED BY <1>0, <2>1, <2>2
<1>2. ASSUME w # <<>>, NEW i \in DOMAIN Tail(w) PROVE \E j \in DOMAIN w : Tail(w)[i] = w[j]
  <2>1. i \in 1..(n - 1)
    BY <1>2
  <2>2. Tail(w)[i] = w[i + 1]
    BY <1>2, <2>1
  <2>3. i + 1 \in 1..n
    BY <1>0, <2>1
  <2> QED BY <1>0, <2>2, <2>3
<1>3. ASSUME w # <<>>, NEW fr \in Frames, NEW i \in DOMAIN (<<fr>> \o Tail(w))
      PROVE  (<<fr>> \o Tail(w))[i] = fr \/ \E j \in DOMAIN w : (<<fr>> \o Tail(w))[i] = w[j]
  <2>1. /\ DOMAIN (<<fr>> \o Tail(w)) = 1..n /\ (<<fr>> \o Tail(w))[1] = fr
        /\ \A j \in 2..n : (<<fr>> \o Tail(w))[j] = w[j]
    BY <1>3
  <2>2. i = 1 \/ (i \in 2..n /\ i \in 1..n)
    BY <1>0, <1>3, <2>1
  <2> QED BY <1>0, <2>1, <2>2
<1> QED BY <1>1, <1>2, <1>3

\* The stream ends.
LEMMA SoundEnd ==
    ASSUME NEW x, Sound(x), x.wire \in Seq(Frames), Reaches[x.place] = "stream",
           NEW owes \in BOOLEAN, NEW y,
           y.wire = x.wire \o <<Frame("streamdone", owes), Frame("done", owes)>>,
           y.expect = x.expect, y.place = "sent", y.chains = x.chains, y.after = x.after,
           y.offered = x.offered, y.page = x.page, y.start = x.start
    PROVE  Sound(y)
<1> DEFINE w == x.wire
           v == w \o <<Frame("streamdone", owes), Frame("done", owes)>>
<1>1. InStep(x.wire, x.expect, x.place)
  BY DEF Sound
<1>2. /\ InStep(v, y.expect, "sent")
      /\ \A i \in 1..(Len(w) + 2) : v[i].type = "inventory" => i \in DOMAIN w /\ v[i] = w[i]
  BY <1>1, StepEnd
<1>3. DOMAIN v = 1..(Len(w) + 2)
  <2> DEFINE a == Frame("streamdone", owes)
             b == Frame("done", owes)
  <2>1. a \in Frames /\ b \in Frames
    BY DEF Frame, Frames
  <2> HIDE DEF a, b
  <2>2. DOMAIN (w \o <<a, b>>) = 1..(Len(w) + 2)
    BY <2>1
  <2> QED BY <2>2 DEF a, b
<1>4. x.place # "await"
  BY DEF Reaches
<1>5. y.wire = v
  OBVIOUS
<1> HIDE DEF v, w
<1>6. /\ InStep(y.wire, y.expect, y.place)
      /\ \A i \in DOMAIN y.wire : y.wire[i].type = "inventory" =>
            \E j \in DOMAIN x.wire : y.wire[i] = x.wire[j]
  BY <1>2, <1>3, <1>5 DEF w
<1>7. \A i \in DOMAIN y.page : \E j \in DOMAIN x.page : y.page[i] = x.page[j]
  OBVIOUS
<1> QED BY <1>4, <1>6, <1>7, SoundMoves

\* The next chains are offered while any are left, or the stream ends.
LEMMA OfferSound ==
    ASSUME SessionsFit, SInv, NInv, Offer
    PROVE  NInv'
<1> DEFINE x == sess
           s == db[sess.from]
           owes == IF x.place = "start" THEN StreamPending(s) ELSE x.owes
           room == ChainsPerSession - x.chains
           limit == IF room < ChainsPerPage THEN room ELSE ChainsPerPage
           page == ChainPage(s, x.after, limit)
           fr == Frame("inventory", page)
           y == [x EXCEPT !.place = "await", !.owes = owes, !.chains = x.chains + Len(page),
                          !.wire = x.wire \o <<fr>>]
           z == EndStream(x, owes)
<1>1. sess # NoSession /\ x.place \in {"start", "offer"} /\ UNCHANGED db
  BY DEF Offer
<1>2. /\ Sound(x) /\ SessionOK(x) /\ DOMAIN x = SessionFields /\ x.wire \in Seq(Frames)
      /\ StoreKept(s) /\ Rooted(s) /\ WireOK(x.wire, x.offered, x.place) /\ x.owes \in BOOLEAN
  BY <1>1, SoundBefore
<1>3. \/ room = 0 /\ ChainPage(s, x.after, 1) # <<>>
      \/ sess' = z
      \/ page # <<>> /\ sess' = y
  BY <1>2, FieldNames DEF Offer, Put
<1>4. /\ x.chains \in Nat /\ x.chains <= ChainsPerSession /\ ChainsPerSession \in Nat
      /\ ChainsPerPage \in Nat /\ x.after \in Nat
      /\ x.chains <= Cardinality(DevicesUpto(x.after)) /\ InStep(x.wire, x.expect, x.place)
  BY <1>1, <1>2, SessionAssumption DEF SessionOK, Sound
<1>5. limit \in Nat
  BY <1>4
<1>6. owes \in BOOLEAN
  BY <1>2 DEF StreamPending
<1>7. Reaches[x.place] = "stream" /\ x.place # "await"
  BY <1>1 DEF Reaches
<1>8. ~(room = 0 /\ ChainPage(s, x.after, 1) # <<>>)
  <2>1. room = 0 => ChainsPerSession <= Cardinality(DevicesUpto(x.after))
    BY <1>4
  <2> HIDE DEF room
  <2> QED BY <1>2, <1>4, <2>1, NoneLeft
<1> HIDE DEF s, owes, limit
<1>9. Sound(z)
  <2>1. /\ z.wire = x.wire \o <<Frame("streamdone", owes), Frame("done", owes)>>
        /\ z.expect = x.expect /\ z.place = "sent" /\ z.chains = x.chains /\ z.after = x.after
        /\ z.offered = x.offered /\ z.page = x.page /\ z.start = x.start
    BY <1>2, FieldNames DEF EndStream
  <2> HIDE DEF z
  <2> QED BY <1>2, <1>6, <1>7, <2>1, SoundEnd
<1>10. ASSUME page # <<>> PROVE Sound(y)
  <2>1. /\ \A j \in DOMAIN page : HeadRooted(page[j])
        /\ Cardinality(DevicesUpto(x.after)) + Len(page)
              <= Cardinality(DevicesUpto(Last(page).dev))
    BY <1>2, <1>4, <1>5, <1>10, PageCounts
  <2>2. page \in Seq(HeadType)
    BY <1>2, <1>5, PageOfHeads
  <2> HIDE DEF page
  <2>3. Len(page) \in Nat /\ Cardinality(DevicesUpto(x.after)) \in Nat
        /\ Cardinality(DevicesUpto(Last(page).dev)) \in Nat
    BY <2>2, UptoCounted
  <2>4. x.chains + Len(page) <= Cardinality(DevicesUpto(Last(page).dev))
    BY <1>4, <2>1, <2>3
  <2>5. fr \in Frames /\ fr.type = "inventory" /\ fr.body = page
    BY <2>2 DEF Frame, Frames
  <2> HIDE DEF fr
  <2>6. /\ y.wire = x.wire \o <<fr>> /\ y.expect = x.expect /\ y.place = "await"
        /\ y.chains = x.chains + Len(page) /\ y.after = x.after
        /\ y.offered = x.offered /\ y.page = x.page /\ y.start = x.start
    BY <1>2, FieldNames
  <2> HIDE DEF y
  <2>7. InStep(y.wire, y.expect, y.place)
    <3>1. /\ Expected[fr.type] = Reaches[x.place] /\ After[fr.type] = Reaches["await"]
          /\ "await" \in DOMAIN Reaches
      BY <1>7, <2>5 DEF Expected, After, Reaches
    <3> QED BY <1>2, <1>4, <2>5, <2>6, <3>1, StepSend
  <2>8. \A i \in DOMAIN x.wire : x.wire[i].type # "inventory"
    BY <1>1, <1>2 DEF WireOK
  <2>9. \A i \in DOMAIN y.wire : y.wire[i].type = "inventory" => y.wire[i] = fr
    BY <1>2, <2>5, <2>6, <2>8, SameFrames
  <2> QED BY <1>2, <1>10, <2>1, <2>4, <2>5, <2>6, <2>7, <2>9 DEF Sound
<1>11. Sound(sess')
  BY <1>3, <1>8, <1>9, <1>10
<1> QED BY <1>1, <1>11, SoundSession

\* Cursors of the answer are the receiver's, and the offer is counted.
LEMMA AnswerSound ==
    ASSUME SessionsFit, SInv, NInv, Answer
    PROVE  NInv'
<1> DEFINE x == sess
           w == x.wire
           heads == Head(w).body
           t == db[x.to]
           page == [i \in DOMAIN heads |->
                      [head |-> heads[i], frontier |-> ChainFrontier(t, heads[i].dev)]]
           y == sess'
<1>1. sess # NoSession /\ w # <<>> /\ Head(w).type = "inventory" /\ UNCHANGED db
  BY DEF Answer
<1>2. /\ Sound(x) /\ DOMAIN x = SessionFields /\ w \in Seq(Frames)
      /\ StoreKept(t) /\ WireOK(w, x.offered, x.place)
  BY <1>1, SoundBefore
<1>3. Tail(w) = <<>> /\ heads \in Seq(HeadType) /\ Head(w) = w[1] /\ 1 \in DOMAIN w
  <2>1. Tail(w) = <<>> /\ heads \in Seq(HeadType)
    BY <1>1, <1>2, WireAnswer
  <2>2. Head(w) = w[1] /\ 1 \in DOMAIN w
    BY <1>1, <1>2
  <2> QED BY <2>1, <2>2
<1>4. /\ heads # <<>> /\ \A j \in DOMAIN heads : HeadRooted(heads[j])
      /\ x.chains <= Cardinality(DevicesUpto(Last(heads).dev))
  BY <1>1, <1>2, <1>3 DEF Sound
<1>5. /\ y.wire = <<>> /\ y.expect = "page" /\ y.place = "serve"
      /\ y.chains = x.chains /\ y.after = Last(heads).dev
      /\ y.offered = heads /\ y.page = page /\ y.start = NoStart
  <2>1. sess' = [sess EXCEPT
                  !.wire = Tail(w), !.expect = "page", !.offered = heads,
                  !.place = "serve", !.start = NoStart, !.after = Last(heads).dev,
                  !.page = page]
    BY <1>2, FieldNames DEF Answer
  <2> HIDE DEF page, heads, w
  <2> QED BY <1>2, <1>3, <2>1, FieldNames
<1> HIDE DEF heads, t, y
<1>6. Last(heads).dev \in Nat
  <2>1. Len(heads) \in Nat /\ Len(heads) # 0
    BY <1>3, <1>4, EmptySeq
  <2>2. Last(heads) \in HeadType
    BY <1>3, <2>1 DEF Last
  <2> QED BY <2>2, SessionAssumption DEF HeadType
<1>7. DOMAIN page = DOMAIN heads
      /\ \A i \in DOMAIN page : HeadRooted(page[i].head) /\ FrontierSigned(page[i])
  <2>1. ASSUME NEW i \in DOMAIN heads PROVE HeadRooted(page[i].head) /\ FrontierSigned(page[i])
    <3>1. page[i].head = heads[i] /\ page[i].frontier = ChainFrontier(t, heads[i].dev)
      BY <2>1
    <3>2. heads[i].dev \in Device
      BY <1>3, <2>1 DEF HeadType
    <3> HIDE DEF page
    <3> QED BY <1>2, <1>4, <2>1, <3>1, <3>2, FrontierIsSigned DEF FrontierSigned
  <2> QED BY <2>1
<1> HIDE DEF page
<1>8. InStep(<<>>, "page", "serve") /\ DOMAIN <<>> = {} /\ "serve" # "await"
  BY DEF InStep, Reaches
<1>9. Sound(y)
  BY <1>4, <1>5, <1>6, <1>7, <1>8 DEF Sound
<1>10. Sound(sess')
  BY <1>9 DEF y
<1> QED BY <1>1, <1>10, SoundSession

\* A chain is served.
LEMMA SoundFewer ==
    ASSUME NEW x, Sound(x), SessionOK(x), x.page # <<>>, NEW y,
           y.wire = x.wire, y.expect = x.expect, y.place = x.place, y.chains = x.chains,
           y.after = x.after, y.offered = x.offered, y.page = Tail(x.page), y.start = NoStart
    PROVE  Sound(y)
<1> DEFINE p == x.page
           q == Tail(p)
<1>1. p \in Seq(PageType)
  BY DEF SessionOK
<1>2. p # <<>>
  OBVIOUS
<1> HIDE DEF p
<1>3. \A i \in DOMAIN q : \E j \in DOMAIN p : q[i] = p[j]
  <2>1. Len(p) \in Nat /\ DOMAIN q = 1..(Len(p) - 1) /\ DOMAIN p = 1..Len(p)
        /\ \A i \in 1..(Len(p) - 1) : q[i] = p[i + 1]
    BY <1>1, <1>2
  <2>2. \A i \in 1..(Len(p) - 1) : i + 1 \in 1..Len(p)
    BY <2>1
  <2> HIDE DEF q
  <2> QED BY <2>1, <2>2
<1> HIDE DEF q
<1>4. \A i \in DOMAIN y.page : \E j \in DOMAIN x.page : y.page[i] = x.page[j]
  BY <1>3 DEF p, q
<1>5. \A i \in DOMAIN y.page : HeadRooted(y.page[i].head) /\ FrontierSigned(y.page[i])
  BY <1>4 DEF Sound
<1> QED BY <1>5 DEF Sound

LEMMA PassOverSound ==
    ASSUME SessionsFit, SInv, NInv, PassOver
    PROVE  NInv'
<1> DEFINE x == sess
           y == sess'
           owes == x.owes \/ Plan.plan = "pending"
           skipped == IF Plan.plan = "diverged" THEN x.skipped \cup {Serving.head.dev} ELSE x.skipped
<1>1. sess # NoSession /\ x.page # <<>> /\ UNCHANGED db /\ x.start = NoStart
  BY DEF PassOver, MayServe, Sends
<1>2. DOMAIN x = SessionFields /\ Sound(x) /\ SessionOK(x)
  BY <1>1, SoundBefore
<1>3. y = [x EXCEPT !.page = Tail(x.page), !.owes = owes, !.skipped = skipped]
  BY <1>2, FieldNames DEF PassOver
<1> HIDE DEF owes, skipped
<1>4. /\ y.wire = x.wire /\ y.expect = x.expect /\ y.place = x.place /\ y.chains = x.chains
      /\ y.after = x.after /\ y.offered = x.offered /\ y.page = Tail(x.page) /\ y.start = NoStart
  BY <1>1, <1>2, <1>3, FieldNames
<1>5. Sound(y)
  BY <1>1, <1>2, <1>4, SoundFewer
<1> QED BY <1>1, <1>5, SoundSession

\* A plan sends from an entry's cursor or from the beginning.
LEMMA PlanSigned ==
    ASSUME NEW p, HeadRooted(p.head), FrontierSigned(p),
           ChainPlan(p.head, p.frontier).plan = "send",
           ChainPlan(p.head, p.frontier).start.kind # "beginning"
    PROVE  Signed(p.head.dev, ChainPlan(p.head, p.frontier).start.at)
<1> DEFINE plan == ChainPlan(p.head, p.frontier)
<1>1. p.frontier.kind # "empty" /\ plan.start = SendFrom(p.head, p.frontier)
  BY DEF ChainPlan
<1>2. plan.start.at = p.frontier.at \/ (p.head.floor # NoCursor /\ plan.start.at = p.head.floor)
  BY <1>1 DEF SendFrom
<1> HIDE DEF plan
<1>3. Signed(p.head.dev, plan.start.at)
  BY <1>1, <1>2 DEF HeadRooted, FrontierSigned
<1> QED BY <1>3 DEF plan

\* A read of a chain that is served does not fail.
LEMMA EndChainSound ==
    ASSUME SessionsFit, SInv, NInv, EndChain
    PROVE  NInv'
<1> DEFINE x == sess
           y == sess'
           owes == x.owes \/ ~Delivered(Cursor0, Serving.head.tip)
           skipped == x.skipped \cup {Serving.head.dev}
           error == [x EXCEPT !.place = "error"]
           skip == [x EXCEPT !.page = Tail(x.page), !.start = NoStart, !.skipped = skipped]
           done == [x EXCEPT !.page = Tail(x.page), !.start = NoStart, !.owes = owes]
           d == Serving.head.dev
           limit == IF EntriesPerPage < EntriesPerSession - x.sent
                    THEN EntriesPerPage ELSE EntriesPerSession - x.sent
<1>1. sess # NoSession /\ x.page # <<>> /\ UNCHANGED db /\ Sends
  BY DEF EndChain, MayServe
<1>2. /\ DOMAIN x = SessionFields /\ Sound(x) /\ SessionOK(x)
      /\ StoreKept(db[x.from]) /\ Rooted(db[x.from])
  BY <1>1, SoundBefore
<1>3. Serving = x.page[1] /\ 1 \in DOMAIN x.page /\ Serving \in PageType
  <2>1. x.page \in Seq(PageType)
    BY <1>2 DEF SessionOK
  <2> QED BY <1>1, <2>1 DEF Serving
<1>4. d \in Device /\ HeadRooted(Serving.head) /\ FrontierSigned(Serving)
  BY <1>2, <1>3 DEF Sound, PageType, HeadType
<1>5. Cursor0.kind # "beginning" => Signed(d, Cursor0.at)
  <2>1. CASE x.start # NoStart
    BY <1>2, <2>1 DEF Sound, Cursor0, Serving
  <2>2. CASE x.start = NoStart
    <3>1. Plan.plan = "send" /\ Cursor0 = Plan.start
      BY <1>1, <2>2 DEF Sends, Cursor0
    <3> QED BY <1>4, <3>1, PlanSigned DEF Plan
  <2> QED BY <2>1, <2>2
<1>6. Read = ChainEntries(db[x.from], d, Cursor0, limit)
  BY DEF Read
<1> HIDE DEF d, limit
<1>7. Read.kind # "error"
  BY <1>2, <1>4, <1>5, <1>6, ReadSucceeds
<1>8. Read.kind \in {"page", "skip", "error"}
  BY ReadKinds DEF Read
<1>9. y \in {skip, done}
  <2> HIDE DEF y
  <2>1. y = CASE Read.kind = "error" -> error
              [] Read.kind = "skip" -> skip
              [] Read.kind = "page" -> done
    BY <1>2, FieldNames DEF EndChain, y
  <2> HIDE DEF error, skip, done
  <2> QED BY <1>7, <1>8, <2>1
<1> HIDE DEF owes, skipped
<1>10. /\ y.wire = x.wire /\ y.expect = x.expect /\ y.place = x.place /\ y.chains = x.chains
       /\ y.after = x.after /\ y.offered = x.offered /\ y.page = Tail(x.page) /\ y.start = NoStart
  BY <1>2, <1>9, FieldNames
<1>11. Sound(y)
  BY <1>1, <1>2, <1>10, SoundFewer
<1> QED BY <1>1, <1>11, SoundSession

\* Entries follow entries; the cursor moves to the last one.
LEMMA SendPageSound ==
    ASSUME SessionsFit, SInv, NInv, SendPage
    PROVE  NInv'
<1> DEFINE x == sess
           y == sess'
           d == Serving.head.dev
           s == db[x.from]
           limit == IF EntriesPerPage < EntriesPerSession - x.sent
                    THEN EntriesPerPage ELSE EntriesPerSession - x.sent
           es == Read.entries
           start == [kind |-> "after", at |-> CursorOf(Last(es))]
           fr == Frame("entries", es)
<1>1. /\ sess # NoSession /\ x.page # <<>> /\ UNCHANGED db
      /\ x.place = "serve" /\ x.sent < EntriesPerSession /\ es # <<>>
  BY DEF SendPage, MayServe
<1>2. /\ DOMAIN x = SessionFields /\ Sound(x) /\ SessionOK(x) /\ x.wire \in Seq(Frames)
      /\ StoreKept(s) /\ x.sent \in Nat
  BY <1>1, SoundBefore DEF SessionOK
<1>3. y = [x EXCEPT !.start = start, !.sent = x.sent + Len(es), !.moved = TRUE,
                    !.wire = x.wire \o <<fr>>]
  BY <1>2, FieldNames DEF SendPage, Put
<1>4. Serving = Head(x.page) /\ Head(x.page) \in PageType
  BY <1>1, <1>2, RestOffered DEF Serving
<1>5. d \in Device
  BY <1>4 DEF PageType, HeadType
<1>6. limit \in Nat
  BY <1>1, <1>2, SessionAssumption
<1>7. es = ChainEntries(s, d, Cursor0, limit).entries
  BY DEF Read
<1> HIDE DEF es, limit, s, start, y
<1>8. es \in Seq(Chain(s, d))
  BY <1>2, <1>5, <1>6, <1>7, ReadsChain
<1>9. Chain(s, d) \subseteq Entry /\ \A e \in Chain(s, d) : e.dev = d
  BY <1>2 DEF StoreKept, StoreInv, Store, Chain
<1>10. Len(es) \in Nat /\ Len(es) # 0 /\ \A j \in 1..Len(es) : es[j] \in Chain(s, d)
  BY <1>1, <1>8, EmptySeq
<1>11. fr \in Frames /\ fr.type = "entries"
  <2>1. es \in Seq(Entry)
    <3>1. es \in [1..Len(es) -> Entry]
      BY <1>8, <1>9, <1>10
    <3> QED BY <1>10, <3>1
  <2> QED BY <1>1, <2>1 DEF Frame, Frames
<1>12. start.kind = "after" /\ Signed(Head(x.page).head.dev, start.at)
  <2>1. Last(es) \in Chain(s, d)
    BY <1>10 DEF Last
  <2> QED BY <1>4, <1>9, <2>1 DEF Signed, start
<1> HIDE DEF d, fr
<1>13. /\ y.wire = x.wire \o <<fr>> /\ y.expect = x.expect /\ y.place = x.place
       /\ y.chains = x.chains /\ y.after = x.after /\ y.offered = x.offered
       /\ y.page = x.page /\ y.start = start
  BY <1>2, <1>3, FieldNames
<1>14. InStep(y.wire, y.expect, y.place)
  <2>1. /\ Expected[fr.type] = Reaches[x.place] /\ After[fr.type] = Reaches[x.place]
        /\ x.place \in DOMAIN Reaches
    BY <1>1, <1>11 DEF Expected, After, Reaches
  <2>2. InStep(x.wire, x.expect, x.place)
    BY <1>2 DEF Sound
  <2> QED BY <1>2, <1>11, <1>13, <2>1, <2>2, StepSend
<1>15. \A i \in DOMAIN y.wire : y.wire[i].type = "inventory" =>
          \E j \in DOMAIN x.wire : y.wire[i] = x.wire[j]
  BY <1>2, <1>11, <1>13, SameFrames
<1>16. \A i \in DOMAIN y.page : \E j \in DOMAIN x.page : y.page[i] = x.page[j]
  BY <1>13
<1>17. x.place # "await"
  BY <1>1
<1>18. Sound(y)
  BY <1>1, <1>2, <1>12, <1>13, <1>14, <1>15, <1>16, <1>17, SoundMoves
<1>19. Sound(sess')
  BY <1>18 DEF y
<1> QED BY <1>1, <1>19, SoundSession

\* The inventory ends, and with the cap the stream.
LEMMA EndInventorySound ==
    ASSUME SessionsFit, SInv, NInv, EndInventory
    PROVE  NInv'
<1> DEFINE x == sess
           fr == Frame("invdone", 0)
           z == [x EXCEPT !.wire = x.wire \o <<fr>>, !.page = <<>>, !.start = NoStart]
           y == [z EXCEPT !.place = "offer"]
           u == EndStream(z, TRUE)
<1>1. sess # NoSession /\ x.place = "serve" /\ UNCHANGED db
  BY DEF EndInventory
<1>2. DOMAIN x = SessionFields /\ Sound(x) /\ x.wire \in Seq(Frames)
  BY <1>1, SoundBefore
<1>3. sess' \in {u, y}
  BY <1>2, FieldNames DEF EndInventory, Put
<1>4. fr \in Frames /\ fr.type = "invdone"
  BY DEF Frame, Frames
<1> HIDE DEF fr
<1>5. /\ DOMAIN z = SessionFields /\ z.wire = x.wire \o <<fr>> /\ z.expect = x.expect
      /\ z.chains = x.chains /\ z.after = x.after /\ z.offered = x.offered
      /\ z.page = <<>> /\ z.start = NoStart
  BY <1>2, FieldNames
<1> HIDE DEF z
<1>6. /\ y.wire = x.wire \o <<fr>> /\ y.expect = x.expect /\ y.place = "offer"
      /\ y.chains = x.chains /\ y.after = x.after /\ y.offered = x.offered
      /\ y.page = <<>> /\ y.start = NoStart
  BY <1>5, FieldNames
<1>7. /\ u.wire = z.wire \o <<Frame("streamdone", TRUE), Frame("done", TRUE)>>
      /\ u.expect = z.expect /\ u.place = "sent" /\ u.chains = z.chains /\ u.after = z.after
      /\ u.offered = z.offered /\ u.page = z.page /\ u.start = z.start
  BY <1>5, FieldNames DEF EndStream
<1> HIDE DEF y, u
<1>8. InStep(y.wire, y.expect, y.place)
  <2>1. /\ Expected[fr.type] = Reaches[x.place] /\ After[fr.type] = Reaches["offer"]
        /\ "offer" \in DOMAIN Reaches
    BY <1>1, <1>4 DEF Expected, After, Reaches
  <2>2. InStep(x.wire, x.expect, x.place)
    BY <1>2 DEF Sound
  <2> QED BY <1>2, <1>4, <1>6, <2>1, <2>2, StepSend
<1>9. \A i \in DOMAIN y.wire : y.wire[i].type = "inventory" =>
         \E j \in DOMAIN x.wire : y.wire[i] = x.wire[j]
  BY <1>2, <1>4, <1>6, SameFrames
<1>10. \A i \in DOMAIN y.page : \E j \in DOMAIN x.page : y.page[i] = x.page[j]
  BY <1>6
<1>11. x.place # "await"
  BY <1>1
<1>12. Sound(y)
  <2>1. y.chains = x.chains /\ y.after = x.after /\ y.offered = x.offered /\ y.start = NoStart
    BY <1>6
  <2> QED BY <1>2, <1>8, <1>9, <1>10, <1>11, <2>1, SoundMoves
<1>13. Sound(u)
  <2>1. y.wire \in Seq(Frames)
    BY <1>2, <1>4, <1>6
  <2>2. Reaches[y.place] = "stream"
    BY <1>6 DEF Reaches
  <2>3. u.wire = y.wire \o <<Frame("streamdone", TRUE), Frame("done", TRUE)>>
    BY <1>5, <1>6, <1>7
  <2>4. /\ u.expect = y.expect /\ u.chains = y.chains /\ u.after = y.after
        /\ u.offered = y.offered /\ u.page = y.page /\ u.start = y.start
    BY <1>5, <1>6, <1>7
  <2>5. TRUE \in BOOLEAN
    OBVIOUS
  <2> QED BY <1>7, <1>12, <2>1, <2>2, <2>3, <2>4, <2>5, SoundEnd
<1>14. Sound(sess')
  BY <1>3, <1>12, <1>13
<1> QED BY <1>1, <1>14, SoundSession

\* The receiver expects the frame that arrives.
LEMMA AdvanceSound ==
    ASSUME SessionsFit, SInv, NInv, Advance
    PROVE  NInv'
<1> DEFINE x == sess
           w == x.wire
           type == Head(w).type
           y == [x EXCEPT !.wire = Tail(w), !.expect = Follow[type]]
<1>1. sess # NoSession /\ w # <<>> /\ UNCHANGED db
  BY DEF Advance
<1>2. DOMAIN x = SessionFields /\ Sound(x) /\ w \in Seq(Frames)
  BY <1>1, SoundBefore
<1>3. InStep(w, x.expect, x.place)
  BY <1>2 DEF Sound
<1>4. Expected[type] = x.expect /\ InStep(Tail(w), After[type], x.place)
  BY <1>1, <1>2, <1>3, StepReceive
<1>5. type \in DOMAIN Follow /\ sess' = y
  BY <1>2, <1>4, FieldNames DEF Advance
<1>6. Follow[type] = After[type]
  BY <1>5 DEF Follow, After
<1>7. /\ y.wire = Tail(w) /\ y.expect = After[type] /\ y.place = x.place
      /\ y.chains = x.chains /\ y.after = x.after /\ y.offered = x.offered
      /\ y.page = x.page /\ y.start = x.start
  BY <1>2, <1>6, FieldNames
<1> HIDE DEF y
<1>8. \A i \in DOMAIN y.wire : \E j \in DOMAIN x.wire : y.wire[i] = x.wire[j]
  BY <1>1, <1>2, <1>7, SameFrames
<1>9. \A i \in DOMAIN y.page : \E j \in DOMAIN x.page : y.page[i] = x.page[j]
  BY <1>7
<1>10. x.place # "await" \/ y.place = "await"
  BY <1>7
<1>11. Sound(y)
  BY <1>2, <1>4, <1>7, <1>8, <1>9, <1>10, SoundMoves
<1> QED BY <1>1, <1>5, <1>11, SoundSession

LEMMA RootedStore ==
    ASSUME SInv, NInv, NEW n \in Node, NEW t, Rooted(t), db' = [db EXCEPT ![n] = t],
           sess' # NoSession => Sound(sess')
    PROVE  NInv'
<1>1. ASSUME NEW m \in Node PROVE Rooted(db'[m])
  BY DEF SInv, NInv
<1> QED BY <1>1 DEF NInv

\* An entry that arrives is within the caps and the bounds, and its head is
\* one a store can take.
LEMMA DeliverSound ==
    ASSUME SessionsFit, SInv, NInv, Deliver
    PROVE  NInv'
<1> DEFINE x == sess
           w == x.wire
           body == Head(w).body
           e == Head(body)
           head == x.offered[CHOOSE i \in DOMAIN x.offered : x.offered[i].dev = e.dev]
           fr == Frame("entries", Tail(body))
           rest == IF Len(body) = 1 THEN Tail(w) ELSE <<fr>> \o Tail(w)
           t == Ingested(db[x.to], head, e)
           y == [x EXCEPT !.got = x.got + 1, !.wire = rest]
<1>1. /\ sess # NoSession /\ w # <<>> /\ Head(w).type = "entries" /\ x.expect = "page"
  BY DEF Deliver
<1>2. /\ DOMAIN x = SessionFields /\ Sound(x) /\ SessionOK(x) /\ w \in Seq(Frames)
      /\ WireOK(w, x.offered, x.place) /\ x.to \in Node
      /\ StoreKept(db[x.to]) /\ Rooted(db[x.to])
  BY <1>1, SoundBefore
<1>3. \/ x.got + Len(body) > EntriesPerSession
      \/ IngestFails(db[x.to], head, e)
      \/ /\ ~IngestFails(db[x.to], head, e)
         /\ sess' = y /\ db' = [db EXCEPT ![x.to] = t]
  BY <1>2, FieldNames DEF Deliver, SInv
<1>4. /\ x.offered \in Seq(HeadType) /\ x.sent \in Nat /\ x.sent <= EntriesPerSession
      /\ InStep(w, x.expect, x.place) /\ \A i \in DOMAIN x.offered : HeadRooted(x.offered[i])
  BY <1>2 DEF SessionOK, Sound
<1>5. Head(w) \in Frames /\ Head(w) = w[1] /\ 1 \in DOMAIN w /\ Len(w) \in Nat /\ Len(w) >= 1
  BY <1>1, <1>2
<1>6. body \in Seq(Entry) /\ body # <<>> /\ Load(Head(w)) = Len(body)
  BY <1>1, <1>5, LoadType DEF Load
<1>7. \A j \in DOMAIN body : Offers(x.offered, body[j].dev)
  BY <1>1, <1>2, <1>5 DEF WireOK
<1> HIDE DEF body, w
<1>8. e \in Entry /\ e = body[1] /\ 1 \in DOMAIN body /\ Len(body) \in Nat
  BY <1>6
<1>9. head \in HeadType /\ head.dev = e.dev /\ HeadRooted(head)
  <2>1. \E i \in DOMAIN x.offered : x.offered[i].dev = e.dev
    BY <1>7, <1>8 DEF Offers
  <2> QED BY <1>4, <2>1
<1> HIDE DEF e, head
<1>10. x.got + Len(body) <= EntriesPerSession
  <2>1. PICK f : Counts(f, w, x.got, x.sent)
    BY <1>2 DEF SessionOK, w
  <2>2. 0 \in 0..Len(w) /\ 1 \in 0..Len(w) /\ Len(w) \in 0..Len(w) /\ 1 \in 1..Len(w) /\ 1 - 1 = 0
    BY <1>5
  <2>3. f[1] = f[0] + Load(w[1]) /\ f[1] <= f[Len(w)] /\ f[0] = x.got /\ f[Len(w)] = x.sent
    <3>1. f[1] = f[1 - 1] + Load(w[1])
      BY <2>1, <2>2 DEF Counts
    <3>2. f[1] <= f[Len(w)]
      BY <1>5, <2>1, <2>2 DEF Counts
    <3> QED BY <2>1, <2>2, <3>1, <3>2 DEF Counts
  <2>4. x.got \in Nat
    BY <1>2, <2>1, CountsBound DEF w
  <2>5. EntriesPerSession \in Nat
    BY SessionAssumption
  <2> QED BY <1>4, <1>5, <1>6, <1>8, <2>3, <2>4, <2>5
<1>11. ~IngestFails(db[x.to], head, e)
  <2>1. PICK m \in Entry : CursorOf(m) = head.tip
    BY <1>9 DEF HeadType, Signed
  <2>2. head.tip.lam < MaxEntryLamport
    <3>1. m.lam < MaxEntryLamport
      BY DEF SessionsFit
    <3>2. CursorOf(m).lam = m.lam
      BY DEF CursorOf
    <3> QED BY <2>1, <3>1, <3>2
  <2>3. AdvertisementIsValid(head)
    BY <1>9, <2>2 DEF AdvertisementIsValid, HeadRooted
  <2>4. WithinLamportBounds(db[x.to], e)
    BY <1>8 DEF WithinLamportBounds, SessionsFit
  <2> QED BY <2>3, <2>4 DEF IngestFails
<1>12. ~(x.got + Len(body) > EntriesPerSession)
  <2>1. x.got \in Nat
    BY <1>2, CountsBound DEF SessionOK, w
  <2>2. EntriesPerSession \in Nat
    BY SessionAssumption
  <2> QED BY <1>8, <1>10, <2>1, <2>2
<1>13. sess' = y /\ db' = [db EXCEPT ![x.to] = t]
  BY <1>3, <1>11, <1>12
<1>14. Rooted(t)
  BY <1>2, <1>8, <1>9, <1>11, IngestRoots
<1> HIDE DEF t
<1>15. /\ InStep(rest, x.expect, x.place)
       /\ \A i \in DOMAIN rest : rest[i].type = "inventory" => \E j \in DOMAIN w : rest[i] = w[j]
  <2>0. w # <<>> /\ w \in Seq(Frames) /\ Head(w).type = "entries"
    BY <1>1, <1>2 DEF w
  <2>1. CASE Len(body) = 1
    <3>1. rest = Tail(w)
      BY <2>1
    <3>2. InStep(Tail(w), After[Head(w).type], x.place)
      BY <1>4, <2>0, StepReceive
    <3>3. After[Head(w).type] = x.expect
      BY <1>1, <2>0 DEF After
    <3>4. \A i \in DOMAIN Tail(w) : \E j \in DOMAIN w : Tail(w)[i] = w[j]
      BY <2>0, SameFrames
    <3> HIDE DEF rest
    <3> QED BY <3>1, <3>2, <3>3, <3>4
  <2>2. CASE Len(body) # 1
    <3>1. rest = <<fr>> \o Tail(w)
      BY <2>2
    <3>2. fr \in Frames /\ fr.type = "entries"
      <4> DEFINE v == Tail(body)
      <4>1. v \in Seq(Entry) /\ Len(v) = Len(body) - 1
        BY <1>6, <1>8
      <4>2. Len(body) - 1 # 0
        BY <1>8, <2>2
      <4> HIDE DEF v
      <4>3. v # <<>>
        BY <4>1, <4>2
      <4>4. Frame("entries", v) \in Frames /\ Frame("entries", v).type = "entries"
        BY <4>1, <4>3 DEF Frame, Frames
      <4> QED BY <4>4 DEF v
    <3> HIDE DEF fr, rest
    <3>3. InStep(<<fr>> \o Tail(w), x.expect, x.place)
      BY <1>4, <2>0, <3>2, StepDeliver
    <3>4. \A i \in DOMAIN (<<fr>> \o Tail(w)) :
             (<<fr>> \o Tail(w))[i] = fr \/ \E j \in DOMAIN w : (<<fr>> \o Tail(w))[i] = w[j]
      BY <2>0, <3>2, SameFrames
    <3> QED BY <3>1, <3>2, <3>3, <3>4
  <2> QED BY <2>1, <2>2
<1> HIDE DEF rest
<1>16. /\ y.wire = rest /\ y.expect = x.expect /\ y.place = x.place
       /\ y.chains = x.chains /\ y.after = x.after /\ y.offered = x.offered
       /\ y.page = x.page /\ y.start = x.start
  BY <1>2, FieldNames
<1> HIDE DEF y
<1>17. \A i \in DOMAIN y.page : \E j \in DOMAIN x.page : y.page[i] = x.page[j]
  BY <1>16
<1>18. x.place # "await" \/ y.place = "await"
  BY <1>16
<1>19. InStep(y.wire, y.expect, y.place)
       /\ \A i \in DOMAIN y.wire : y.wire[i].type = "inventory" =>
             \E j \in DOMAIN x.wire : y.wire[i] = x.wire[j]
  BY <1>15, <1>16 DEF w
<1>20. Sound(y)
  BY <1>2, <1>16, <1>17, <1>18, <1>19, SoundMoves
<1> QED BY <1>2, <1>13, <1>14, <1>20, RootedStore

\* A direction begins with nothing offered.
LEMMA SoundBegins ==
    ASSUME SessionsFit, NEW z, z.wire = <<>>, z.expect = "stream", z.place = "start",
           z.chains = 0, z.after = 0, z.offered = <<>>, z.page = <<>>, z.start = NoStart
    PROVE  Sound(z)
<1>1. InStep(<<>>, "stream", "start") /\ DOMAIN <<>> = {}
  BY DEF InStep, Reaches
<1>2. Cardinality(DevicesUpto(0)) \in Nat
  BY UptoCounted
<1>3. 0 <= Cardinality(DevicesUpto(0))
  BY <1>2
<1> QED BY <1>1, <1>3 DEF Sound

LEMMA TurnsSound ==
    ASSUME SessionsFit, SInv, NInv,
           \/ \E x, y \in Node : Dial(x, y)
           \/ TurnAround \/ Finish \/ Abort
    PROVE  NInv'
<1>1. ASSUME NEW x, NEW y, NEW r PROVE Sound(Session(x, y, r)) /\ Sound(Turned(sess))
  <2> DEFINE z == Session(x, y, r)
             v == Turned(sess)
  <2>1. /\ z.wire = <<>> /\ z.expect = "stream" /\ z.place = "start"
        /\ z.chains = 0 /\ z.after = 0 /\ z.offered = <<>> /\ z.page = <<>> /\ z.start = NoStart
    BY DEF Session
  <2>2. /\ v.wire = <<>> /\ v.expect = "stream" /\ v.place = "start"
        /\ v.chains = 0 /\ v.after = 0 /\ v.offered = <<>> /\ v.page = <<>> /\ v.start = NoStart
    BY DEF Turned, Session
  <2> HIDE DEF z, v
  <2>3. Sound(z) /\ Sound(v)
    BY <2>1, <2>2, SoundBegins
  <2> QED BY <2>3 DEF z, v
<1>2. UNCHANGED db
  BY DEF Dial, TurnAround, Finish, Abort
<1>3. sess' # NoSession => Sound(sess')
  BY <1>1 DEF Dial, TurnAround, Finish, Abort
<1> QED BY <1>2, <1>3, SoundSession

LEMMA TouchedSound ==
    ASSUME SInv, NInv, NEW n, sess' = Touched(n)
    PROVE  sess' # NoSession => Sound(sess')
<1> DEFINE x == sess
           y == [x EXCEPT !.disturbed = TRUE]
<1>1. CASE sess = NoSession
  BY <1>1 DEF Touched
<1>2. CASE sess # NoSession
  <2>1. Sound(x) /\ DOMAIN x = SessionFields
    BY <1>2, SoundBefore
  <2>2. /\ y.wire = x.wire /\ y.expect = x.expect /\ y.place = x.place
        /\ y.chains = x.chains /\ y.after = x.after /\ y.offered = x.offered
        /\ y.page = x.page /\ y.start = x.start
    BY <2>1, FieldNames
  <2>3. sess' \in {x, y}
    BY DEF Touched
  <2> HIDE DEF y
  <2>4. Sound(y)
    BY <2>1, <2>2 DEF Sound
  <2> QED BY <2>1, <2>3, <2>4
<1> QED BY <1>1, <1>2

\* Other writers leave the session as it is and the stores rooted.
LEMMA OthersSound ==
    ASSUME SInv, NInv, NEW n \in Node,
           \/ \E e \in Entry : Author(n, e) \/ Compact(n, e)
           \/ Purge(n)
           \/ \E m \in Node, d \in Device : SideSession(m, n, d)
    PROVE  NInv'
<1> DEFINE s == db[n]
<1>1. StoreKept(s) /\ Rooted(s) /\ db \in [Node -> Store]
  BY DEF SInv, NInv
<1>2. ASSUME NEW e \in Entry, Author(n, e) PROVE NInv'
  <2>1. Rooted(InsertEntry(s, e, FALSE))
    BY <1>1, OthersRoot
  <2>2. db' = [db EXCEPT ![n] = InsertEntry(s, e, FALSE)] /\ sess' = Touched(n)
    BY <1>1, <1>2 DEF Author
  <2> QED BY <2>1, <2>2, TouchedSound, RootedStore
<1>3. ASSUME NEW e \in Entry, Compact(n, e) PROVE NInv'
  <2>1. e \in s.accepted /\ ~StreamPending(s)
    BY <1>3 DEF Compact, CompactionTargets, Chain
  <2>2. Rooted(CompactPrefixes(s, {e}))
    BY <1>1, <2>1, OthersRoot
  <2>3. db' = [db EXCEPT ![n] = CompactPrefixes(s, {e})] /\ sess' = Touched(n)
    BY <1>1, <1>3 DEF Compact
  <2> QED BY <2>2, <2>3, TouchedSound, RootedStore
<1>4. CASE Purge(n)
  <2> DEFINE t == [s EXCEPT !.accepted = {}, !.pending = {}, !.gapped = {},
                            !.floor = [d \in Device |-> NoCursor]]
  <2>1. Rooted(t)
    BY <1>1, OthersRoot
  <2>2. db' = [db EXCEPT ![n] = t] /\ sess' = Touched(n)
    BY <1>1, <1>4 DEF Purge
  <2> HIDE DEF t
  <2> QED BY <2>1, <2>2, TouchedSound, RootedStore
<1>5. ASSUME NEW m \in Node, NEW d \in Device, SideSession(m, n, d) PROVE NInv'
  <2> DEFINE head == ChainHead(db[m], d)
             plan == ChainPlan(head, ChainFrontier(db[n], d))
             es == ChainEntries(db[m], d, plan.start, 1).entries
             e == es[1]
  <2>1. /\ Chain(db[m], d) # {} /\ es # <<>> /\ ~IngestFails(s, head, e)
        /\ db' = [db EXCEPT ![n] = Ingested(s, head, e)] /\ sess' = Touched(n)
    BY <1>1, <1>5 DEF SideSession
  <2>2. StoreKept(db[m])
    BY DEF SInv
  <2>3. head \in HeadType /\ head.dev = d
    BY <2>1, <2>2, HeadsSigned
  <2>4. es \in Seq(Chain(db[m], d))
    BY <2>2, ReadsChain
  <2> HIDE DEF es, head
  <2>5. e \in Chain(db[m], d)
    BY <2>1, <2>4
  <2>6. e \in Entry /\ e.dev = d
    BY <2>2, <2>5 DEF StoreKept, StoreInv, Store, Chain
  <2>7. Rooted(Ingested(s, head, e))
    BY <1>1, <2>1, <2>3, <2>6, IngestRoots
  <2> QED BY <2>1, <2>7, TouchedSound, RootedStore
<1> QED BY <1>2, <1>3, <1>4, <1>5

LEMMA InitNInv == Init => NInv
<1> SUFFICES ASSUME Init PROVE NInv
  OBVIOUS
<1>1. ASSUME NEW n \in Node, NEW d \in Device
      PROVE  db[n].floor[d] = NoCursor /\ db[n].cover[d] = NoObligation
  BY DEF Init, EmptyStore
<1>2. \A n \in Node : Rooted(db[n])
  BY <1>1 DEF Rooted, FloorHeld, OwedAbove
<1> QED BY <1>2 DEF Init, NInv

LEMMA NextNInv == SessionsFit /\ SInv /\ NInv /\ [Next]_vars => NInv'
<1> SUFFICES ASSUME SessionsFit, SInv, NInv, [Next]_vars PROVE NInv'
  OBVIOUS
<1>1. CASE \/ \E x, y \in Node : Dial(x, y)
           \/ TurnAround \/ Finish \/ Abort
  BY <1>1, TurnsSound
<1>2. CASE Offer
  BY <1>2, OfferSound
<1>3. CASE Answer
  BY <1>3, AnswerSound
<1>4. CASE PassOver
  BY <1>4, PassOverSound
<1>5. CASE SendPage
  BY <1>5, SendPageSound
<1>6. CASE EndChain
  BY <1>6, EndChainSound
<1>7. CASE EndInventory
  BY <1>7, EndInventorySound
<1>8. CASE Deliver
  BY <1>8, DeliverSound
<1>9. CASE Advance
  BY <1>9, AdvanceSound
<1>10. ASSUME NEW n \in Node,
              \/ \E e \in Entry : Author(n, e) \/ Compact(n, e)
              \/ Purge(n)
              \/ \E m \in Node, d \in Device : SideSession(m, n, d)
       PROVE  NInv'
  BY <1>10, OthersSound
<1>11. CASE UNCHANGED vars
  BY <1>11 DEF vars, NInv
<1> QED BY <1>1, <1>2, <1>3, <1>4, <1>5, <1>6, <1>7, <1>8, <1>9, <1>10, <1>11
        DEF Next, SessionStep

\* Whatever is purged, compacted, authored or delivered by others between two
\* frames, no session fails: every frame is the one its receiver expects, no
\* read of a store that owes a suffix contradicts the peer's cursor, no head
\* is refused and no cap is passed (send_direction, receive_direction,
\* accepted_chain_entries and ingest_received_against), where SessionsFit holds
\* of the entries that exist and of the limits.
THEOREM SessionsSucceed == SessionsFit => (Spec => []NoSessionError)
<1> SUFFICES ASSUME SessionsFit PROVE Spec => []NoSessionError
  OBVIOUS
<1>1. Init => NInv
  BY InitNInv
<1>2. SInv /\ NInv /\ [Next]_vars => NInv'
  BY NextNInv
<1>3. NInv => NoSessionError
  <2> SUFFICES ASSUME NInv, sess # NoSession PROVE sess.place # "error"
    BY DEF NoSessionError
  <2>1. sess.place \in DOMAIN Reaches
    BY DEF NInv, Sound, InStep
  <2> QED BY <2>1 DEF Reaches
<1>4. Spec => []SInv
  BY SessionInvariance
<1> QED BY <1>1, <1>2, <1>3, <1>4, PTL DEF Spec
=============================================================================
