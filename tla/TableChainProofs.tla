-------------------------- MODULE TableChainProofs --------------------------
(***************************************************************************)
(* What the operators of TableChain do to a store and what they keep of    *)
(* it, for every set of devices, every universe of signed entries and      *)
(* every value of the bounds.                                              *)
(***************************************************************************)
EXTENDS TableChain, TLAPS

-----------------------------------------------------------------------------
(* What holds of a store *)

\* Where a chain has accepted entries, its witness is the cursor of the
\* highest one.
TailWitnessed(s) ==
    \A d \in Device :
        Chain(s, d) # {} =>
            \E e \in Chain(s, d) :
                /\ s.tip[d] = CursorOf(e)
                /\ \A x \in Chain(s, d) : x.lam <= e.lam

OnePerLamport(s) ==
    \A x, y \in s.accepted : x.dev = y.dev /\ x.lam = y.lam => x = y

StoreInv(s) ==
    /\ s \in Store
    /\ s.pending \subseteq s.accepted
    /\ TailWitnessed(s)
    /\ OnePerLamport(s)

\* The tips of t are those of s or later ones.
TipsAdvance(s, t) ==
    \A d \in Device :
        s.tip[d] # NoCursor => t.tip[d] = s.tip[d] \/ t.tip[d].lam > s.tip[d].lam

\* t is s but for the held entries, the floors, the obligations, the roster.
SameChains(s, t) ==
    /\ t \in Store
    /\ t.accepted = s.accepted /\ t.pending = s.pending /\ t.tip = s.tip

-----------------------------------------------------------------------------
(* Cursors *)

\* An entry's fields have their types, and its cursor is never the missing one.
LEMMA EntryFields ==
    ASSUME NEW e \in Entry
    PROVE  /\ e.hash \in Nat /\ e.hash # 0 /\ e.dev \in Device
           /\ e.lam \in Nat /\ e.prev \in Nat
           /\ CursorOf(e) \in Cursor /\ CursorOf(e) # NoCursor
           /\ CursorOf(e).lam = e.lam /\ CursorOf(e).hash = e.hash
BY EntryAssumption DEF CursorOf, Cursor, NoCursor, NoHash

\* Cursors and obligations have their types, the missing ones included.
LEMMA CursorFields ==
    /\ NoCursor \in Cursor /\ NoCursor.lam = 0 /\ NoCursor.hash = 0
    /\ NoObligation \in Obligation
    /\ \A c \in Cursor : c.lam \in Nat /\ c.hash \in Nat
BY DEF Cursor, NoCursor, NoHash, NoObligation, Obligation

\* The columns of a store's tables.
LEMMA StoreFields ==
    ASSUME NEW s \in Store
    PROVE  /\ s.accepted \subseteq Entry /\ s.pending \subseteq Entry
           /\ s.gapped \subseteq Entry
           /\ s.tip \in [Device -> Cursor] /\ s.floor \in [Device -> Cursor]
           /\ s.cover \in [Device -> Obligation] /\ s.writers \subseteq Device
BY DEF Store

-----------------------------------------------------------------------------
(* Steps that leave the accepted chains and their witnesses alone *)

\* Rewriting the held table leaves the chains alone.
LEMMA SetGapped ==
    ASSUME NEW s \in Store, NEW G \in SUBSET Entry
    PROVE  SameChains(s, [s EXCEPT !.gapped = G])
BY DEF SameChains, Store

\* What leaves the chains alone keeps the store's invariant and its tips.
LEMMA SameChainsInv ==
    ASSUME NEW s, NEW t, StoreInv(s), SameChains(s, t)
    PROVE  StoreInv(t) /\ TipsAdvance(s, t)
<1>1. \A d : Chain(t, d) = Chain(s, d)
  BY DEF SameChains, Chain
<1>2. TailWitnessed(t) /\ OnePerLamport(t)
  BY <1>1 DEF StoreInv, SameChains, TailWitnessed, OnePerLamport
<1>3. TipsAdvance(s, t)
  BY DEF SameChains, TipsAdvance
<1> QED BY <1>2, <1>3 DEF StoreInv, SameChains

\* Parking, unparking, discarding and sweeping only rewrite the held table.
LEMMA HeldOperators ==
    ASSUME NEW s \in Store, NEW e \in Entry
    PROVE  /\ SameChains(s, Unparked(s, e))
           /\ \A h : SameChains(s, DiscardDescendants(s, h))
           /\ \A d, h : SameChains(s, DiscardForeignCitations(s, d, h))
           /\ \A d, l : SameChains(s, SweepBelow(s, d, l))
           /\ SameChains(s, RetainGapped(s, e))
<1>0. s.gapped \subseteq Entry
  BY StoreFields
<1>1. SameChains(s, Unparked(s, e))
  BY <1>0, SetGapped DEF Unparked
<1>2. ASSUME NEW h PROVE SameChains(s, DiscardDescendants(s, h))
  BY <1>0, SetGapped DEF DiscardDescendants
<1>3. ASSUME NEW d, NEW h PROVE SameChains(s, DiscardForeignCitations(s, d, h))
  BY <1>0, SetGapped DEF DiscardForeignCitations
<1>4. ASSUME NEW d, NEW l PROVE SameChains(s, SweepBelow(s, d, l))
  BY <1>0, SetGapped DEF SweepBelow
<1>5. SameChains(s, s)
  BY DEF SameChains
<1>6. SameChains(s, RetainGapped(s, e))
  BY <1>0, <1>5, SetGapped DEF RetainGapped
<1> QED BY <1>1, <1>2, <1>3, <1>4, <1>6

-----------------------------------------------------------------------------
(* Accepting an entry *)

\* chain_tail finds the entry the witness names.
LEMMA TailIsTip ==
    ASSUME NEW s, StoreInv(s), NEW d \in Device, Chain(s, d) # {}
    PROVE  ChainTail(s, d) = s.tip[d] /\ s.tip[d] # NoCursor
<1> DEFINE IsMax(e) == \A x \in Chain(s, d) : x.lam <= e.lam
           c == CHOOSE e \in Chain(s, d) : IsMax(e)
<1>1. PICK m \in Chain(s, d) : s.tip[d] = CursorOf(m) /\ IsMax(m)
  BY DEF StoreInv, TailWitnessed
<1>2. c \in Chain(s, d) /\ IsMax(c)
  BY <1>1
<1>3. Chain(s, d) \subseteq Entry
  BY StoreFields DEF StoreInv, Chain
<1>4. c.lam = m.lam
  <2>1. c.lam <= m.lam /\ m.lam <= c.lam
    BY <1>1, <1>2
  <2> HIDE DEF c
  <2> QED BY <2>1, <1>1, <1>2, <1>3, EntryFields
<1>5. c = m
  <2> HIDE DEF c
  <2> QED BY <1>1, <1>2, <1>4 DEF StoreInv, OnePerLamport, Chain
<1>6. ChainTail(s, d) = CursorOf(c)
  BY DEF ChainTail
<1> HIDE DEF c
<1> QED BY <1>1, <1>3, <1>5, <1>6, EntryFields

\* The witness and the accepted chain let the entry in above them, or it is
\* the witnessed entry coming back to an empty chain.
CanInsert(s, e) ==
    \/ /\ Chain(s, e.dev) = {}
       /\ \/ s.tip[e.dev] = NoCursor
          \/ s.tip[e.dev] = CursorOf(e)
          \/ e.lam > s.tip[e.dev].lam
    \/ Chain(s, e.dev) # {} /\ e.lam > s.tip[e.dev].lam

\* What insert_entry does, table by table.
LEMMA InsertEntryFields ==
    ASSUME NEW s \in Store, NEW e \in Entry, NEW pending \in BOOLEAN
    PROVE  LET t == InsertEntry(s, e, pending) IN
           /\ t \in Store
           /\ t.accepted = s.accepted \cup {e}
           /\ t.pending \subseteq s.pending \cup {e}
           /\ t.tip = [s.tip EXCEPT ![e.dev] =
                          IF s.tip[e.dev] = NoCursor \/ e.lam > s.tip[e.dev].lam
                          THEN CursorOf(e) ELSE s.tip[e.dev]]
           /\ t.gapped = s.gapped /\ t.floor = s.floor
           /\ t.cover = s.cover /\ t.writers = s.writers
<1> USE EntryFields, StoreFields
<1> DEFINE tip == [s.tip EXCEPT ![e.dev] =
                      IF s.tip[e.dev] = NoCursor \/ e.lam > s.tip[e.dev].lam
                      THEN CursorOf(e) ELSE s.tip[e.dev]]
<1>1. tip \in [Device -> Cursor]
  OBVIOUS
<1>2. InsertEntry(s, e, pending) =
        [s EXCEPT !.accepted = s.accepted \cup {e},
                  !.pending = IF pending THEN s.pending \cup {e} ELSE s.pending,
                  !.tip = tip]
  BY DEF InsertEntry, Store
<1> HIDE DEF tip
<1>3. [s EXCEPT !.accepted = s.accepted \cup {e},
                  !.pending = IF pending THEN s.pending \cup {e} ELSE s.pending,
                  !.tip = tip] \in Store
  BY <1>1 DEF Store
<1> QED BY <1>1, <1>2, <1>3 DEF Store, tip

\* insert_entry keeps the invariant where the entry extends the chain.
LEMMA InsertEntryInv ==
    ASSUME NEW s, NEW e \in Entry, NEW pending \in BOOLEAN,
           StoreInv(s), CanInsert(s, e)
    PROVE  LET t == InsertEntry(s, e, pending) IN StoreInv(t) /\ TipsAdvance(s, t)
<1> DEFINE t == InsertEntry(s, e, pending)
<1>0. s \in Store
  BY DEF StoreInv
<1>1. /\ t \in Store
      /\ t.accepted = s.accepted \cup {e}
      /\ t.pending \subseteq s.pending \cup {e}
      /\ t.tip = [s.tip EXCEPT ![e.dev] =
                      IF s.tip[e.dev] = NoCursor \/ e.lam > s.tip[e.dev].lam
                      THEN CursorOf(e) ELSE s.tip[e.dev]]
  BY <1>0, InsertEntryFields
<1> HIDE DEF t
<1> USE EntryFields, StoreFields, CursorFields
<1>2. t.pending \subseteq t.accepted
  BY <1>1 DEF StoreInv
\* The new tip is the entry's cursor.
<1>3. t.tip[e.dev] = CursorOf(e)
  BY <1>0, <1>1, TailIsTip DEF CanInsert
<1>4. \A d \in Device : d # e.dev => t.tip[d] = s.tip[d] /\ Chain(t, d) = Chain(s, d)
  BY <1>0, <1>1 DEF Chain
<1>5. Chain(t, e.dev) = Chain(s, e.dev) \cup {e}
  BY <1>1 DEF Chain
<1>6. \A x \in Chain(s, e.dev) : x.lam < e.lam
  <2> SUFFICES ASSUME NEW x \in Chain(s, e.dev) PROVE x.lam < e.lam
    OBVIOUS
  <2>1. PICK m \in Chain(s, e.dev) : s.tip[e.dev] = CursorOf(m)
                                   /\ \A y \in Chain(s, e.dev) : y.lam <= m.lam
    BY DEF StoreInv, TailWitnessed
  <2>2. x \in Entry /\ m \in Entry
    BY <1>0 DEF Chain
  <2>3. s.tip[e.dev].lam = m.lam /\ e.lam > s.tip[e.dev].lam
    BY <2>1, <2>2 DEF CanInsert
  <2> QED BY <2>1, <2>2, <2>3
<1>7. TailWitnessed(t)
  <2> SUFFICES ASSUME NEW d \in Device, Chain(t, d) # {}
               PROVE  \E m \in Chain(t, d) : /\ t.tip[d] = CursorOf(m)
                                            /\ \A x \in Chain(t, d) : x.lam <= m.lam
    BY DEF TailWitnessed
  <2>1. CASE d = e.dev
    <3>1. \A x \in Chain(t, d) : x.lam <= e.lam
      BY <2>1, <1>0, <1>5, <1>6 DEF Chain
    <3> QED BY <2>1, <3>1, <1>3, <1>5
  <2>2. CASE d # e.dev
    BY <2>2, <1>4 DEF StoreInv, TailWitnessed
  <2> QED BY <2>1, <2>2
<1>8. OnePerLamport(t)
  <2> SUFFICES ASSUME NEW x \in t.accepted, NEW y \in t.accepted,
                      x.dev = y.dev, x.lam = y.lam
               PROVE  x = y
    BY DEF OnePerLamport
  <2>1. CASE x \in s.accepted /\ y \in s.accepted
    BY <2>1 DEF StoreInv, OnePerLamport
  <2>2. CASE x = e /\ y \in s.accepted
    BY <2>2, <1>6, <1>0 DEF Chain
  <2>3. CASE y = e /\ x \in s.accepted
    BY <2>3, <1>6, <1>0 DEF Chain
  <2> QED BY <1>1, <2>1, <2>2, <2>3
<1>9. TipsAdvance(s, t)
  BY <1>0, <1>3, <1>4 DEF TipsAdvance, CanInsert
<1> QED BY <1>1, <1>2, <1>7, <1>8, <1>9 DEF StoreInv, t

\* Whatever classify lets in fits above the tail and the witness.
LEMMA StoringFits ==
    ASSUME NEW s, NEW e \in Entry, NEW floor, StoreInv(s),
           Classify(s, e, floor) \in StoringOutcomes
    PROVE  CanInsert(s, e)
<1> USE EntryFields, StoreFields, CursorFields
<1>0. s \in Store
  BY DEF StoreInv
<1>1. CASE AdoptsRoot(s, e, floor)
  <2>1. floor.lam = e.lam /\ floor = CursorOf(e)
    BY <1>1 DEF AdoptsRoot
  <2>2. CASE Chain(s, e.dev) = {}
    BY <1>0, <1>1, <2>1, <2>2 DEF AdoptsRoot, CanInsert
  <2>3. CASE Chain(s, e.dev) # {}
    BY <1>1, <2>1, <2>3, TailIsTip DEF AdoptsRoot, CanInsert
  <2> QED BY <2>2, <2>3
<1>2. CASE ~AdoptsRoot(s, e, floor) /\ Chain(s, e.dev) = {} /\ s.tip[e.dev] # NoCursor
  BY <1>2 DEF Classify, FitToWitness, StoringOutcomes, CanInsert
<1>3. CASE ~AdoptsRoot(s, e, floor) /\ ~(Chain(s, e.dev) = {} /\ s.tip[e.dev] # NoCursor)
  <2>1. FitToTail(s, e) \in StoringOutcomes
    BY <1>3 DEF Classify
  <2>2. CASE Chain(s, e.dev) = {}
    BY <1>3, <2>2 DEF CanInsert
  <2>3. CASE Chain(s, e.dev) # {}
    BY <2>1, <2>3, TailIsTip DEF FitToTail, StoringOutcomes, CanInsert
  <2> QED BY <2>2, <2>3
<1> QED BY <1>1, <1>2, <1>3

\* record_adopted_floor leaves the chains alone.
LEMMA AdoptedFloorSame ==
    ASSUME NEW s \in Store, NEW d \in Device, NEW floor \in Cursor
    PROVE  SameChains(s, RecordAdoptedFloor(s, d, floor))
<1> DEFINE f == [s.floor EXCEPT ![d] =
                    IF s.floor[d] = NoCursor \/ floor.lam > s.floor[d].lam
                    THEN floor ELSE s.floor[d]]
           u == [s EXCEPT !.floor = f]
<1>1. f \in [Device -> Cursor]
  BY StoreFields
<1>2. RecordAdoptedFloor(s, d, floor) = SweepBelow(u, d, floor.lam)
  BY DEF RecordAdoptedFloor, Store
<1> HIDE DEF f
<1>3. SameChains(s, u)
  BY <1>1 DEF Store, SameChains
<1> HIDE DEF u
<1>4. SameChains(u, SweepBelow(u, d, floor.lam))
  <2>1. u \in Store /\ u.gapped \subseteq Entry
    BY <1>3, StoreFields DEF SameChains
  <2> QED BY <2>1, SetGapped DEF SweepBelow
<1> QED BY <1>2, <1>3, <1>4 DEF SameChains

\* coverage::record and clear_delivered leave the chains alone.
LEMMA SettleCoverageSame ==
    ASSUME NEW s \in Store, NEW d \in Device, NEW before, NEW tip \in Cursor
    PROVE  SameChains(s, SettleCoverage(s, d, before, tip))
<1> USE StoreFields, CursorFields
<1>1. ASSUME NEW t \in Store, NEW o \in Obligation
      PROVE  SameChains(t, [t EXCEPT !.cover[d] = o])
  <2>1. [t.cover EXCEPT ![d] = o] \in [Device -> Obligation]
    OBVIOUS
  <2> QED BY <2>1 DEF SameChains, Store
<1>2. \A t \in Store : SameChains(t, t)
  BY DEF SameChains
<1> DEFINE r == RecordCoverage(s, d, before, tip)
<1>3. SameChains(s, r)
  <2>1. [floor |-> s.floor[d].lam, tip |-> tip] \in Obligation
    BY DEF Obligation
  <2> QED BY <2>1, <1>1, <1>2 DEF RecordCoverage
<1>4. r \in Store
  BY <1>3 DEF SameChains
<1> HIDE DEF r
<1>5. SameChains(r, ClearDelivered(r, d))
  BY <1>1, <1>2, <1>4 DEF ClearDelivered
<1> QED BY <1>3, <1>5 DEF SettleCoverage, SameChains, r

\* accept_row_entry, whatever it decides, keeps the invariant.
LEMMA AcceptInv ==
    ASSUME NEW s, NEW e \in Entry, NEW floor \in Cursor, NEW pending \in BOOLEAN,
           StoreInv(s)
    PROVE  LET t == AcceptRowEntry(s, e, floor, pending) IN
           StoreInv(t) /\ TipsAdvance(s, t)
<1> DEFINE outcome == AcceptOutcome(s, e, floor)
           u == Unparked(s, e)
           t == AcceptRowEntry(s, e, floor, pending)
<1>0. s \in Store
  BY DEF StoreInv
<1>1. SameChains(s, u) /\ StoreInv(u) /\ u.tip = s.tip
  BY <1>0, HeldOperators, SameChainsInv DEF SameChains
<1>2. outcome \in StoringOutcomes => CanInsert(u, e)
  BY <1>1, StoringFits DEF AcceptOutcome, StoringOutcomes
<1>3. StoreInv(s) /\ TipsAdvance(s, s)
  BY DEF TipsAdvance
<1>4. CASE outcome \in {"ok", "restore"}
  <2>1. t = InsertEntry(u, e, pending)
    BY <1>4 DEF AcceptRowEntry
  <2>2. StoreInv(t) /\ TipsAdvance(u, t)
    BY <1>1, <1>2, <1>4, <2>1, InsertEntryInv DEF StoringOutcomes
  <2> QED BY <2>2, <1>1 DEF TipsAdvance
<1>5. CASE outcome = "root"
  <2> DEFINE r == RecordAdoptedFloor(u, e.dev, floor)
  <2>1. t = InsertEntry(r, e, pending)
    BY <1>5 DEF AcceptRowEntry
  <2>2. StoreInv(r) /\ r.tip = s.tip /\ r.accepted = u.accepted
    <3>1. SameChains(u, r)
      BY <1>1, EntryFields, AdoptedFloorSame DEF StoreInv
    <3> QED BY <1>1, <3>1, SameChainsInv DEF SameChains
  <2>3. CanInsert(r, e)
    BY <1>1, <1>2, <1>5, <2>2 DEF CanInsert, Chain, StoringOutcomes
  <2>4. StoreInv(t) /\ TipsAdvance(r, t)
    BY <2>1, <2>2, <2>3, InsertEntryInv
  <2> QED BY <2>2, <2>4 DEF TipsAdvance
<1>6. CASE outcome = "gap"
  <2>1. t = RetainGapped(u, e)
    BY <1>6 DEF AcceptRowEntry
  <2>2. SameChains(u, t)
    BY <1>1, <2>1, HeldOperators DEF StoreInv
  <2>3. StoreInv(t) /\ TipsAdvance(u, t)
    BY <1>1, <2>2, SameChainsInv
  <2> QED BY <1>1, <2>3 DEF TipsAdvance
<1>7. CASE outcome = "conflict"
  <2>1. t = u
    BY <1>7 DEF AcceptRowEntry
  <2> QED BY <1>1, <2>1, SameChainsInv
<1>8. CASE outcome \notin {"ok", "restore", "root", "gap", "conflict"}
  <2>1. t = s
    BY <1>8 DEF AcceptRowEntry
  <2> QED BY <2>1, <1>3
<1> QED BY <1>4, <1>5, <1>6, <1>7, <1>8

-----------------------------------------------------------------------------
(* The other operators *)

\* compact_chain_prefix drops from below, so the tail stays and with it the witness.
LEMMA CompactInv ==
    ASSUME NEW s, StoreInv(s), NEW floors \in SUBSET s.accepted
    PROVE  LET t == CompactPrefixes(s, floors) IN StoreInv(t) /\ t.tip = s.tip
<1> DEFINE Below(e) == \E x \in floors : e.dev = x.dev /\ e.lam < x.lam
           A == {e \in s.accepted : Below(e) => e \in s.pending}
           G == {g \in s.gapped : ~Below(g)}
           F == [d \in Device |->
                    IF \E x \in floors : x.dev = d
                    THEN CursorOf(CHOOSE x \in floors : x.dev = d) ELSE s.floor[d]]
           t == CompactPrefixes(s, floors)
<1>0. s \in Store /\ s.pending \subseteq s.accepted
  BY DEF StoreInv
<1>1. A \subseteq s.accepted /\ G \subseteq s.gapped /\ s.pending \subseteq A
  BY <1>0
<1>2. F \in [Device -> Cursor]
  <2> SUFFICES ASSUME NEW d \in Device PROVE F[d] \in Cursor
    OBVIOUS
  <2>1. CASE \E x \in floors : x.dev = d
    <3> DEFINE c == CHOOSE x \in floors : x.dev = d
    <3>1. c \in floors
      BY <2>1
    <3>2. c \in Entry
      BY <3>1, <1>0, StoreFields
    <3> QED BY <2>1, <3>2, EntryFields
  <2>2. CASE ~\E x \in floors : x.dev = d
    BY <2>2, <1>0, StoreFields
  <2> QED BY <2>1, <2>2
<1>3. t = [s EXCEPT !.accepted = A, !.gapped = G, !.floor = F]
  BY <1>0 DEF CompactPrefixes, Store
<1>4. \A e \in s.accepted : e \in A <=> (Below(e) => e \in s.pending)
  OBVIOUS
<1> HIDE DEF A, G, F
<1>5. /\ t \in Store
      /\ t.accepted = A /\ t.pending = s.pending /\ t.tip = s.tip
  BY <1>0, <1>1, <1>2, <1>3 DEF Store
<1> HIDE DEF t
<1>6. TailWitnessed(t)
  <2> SUFFICES ASSUME NEW d \in Device, Chain(t, d) # {}
               PROVE  \E m \in Chain(t, d) : /\ t.tip[d] = CursorOf(m)
                                            /\ \A x \in Chain(t, d) : x.lam <= m.lam
    BY DEF TailWitnessed
  <2>1. Chain(t, d) \subseteq Chain(s, d)
    BY <1>1, <1>5 DEF Chain
  <2>2. PICK m \in Chain(s, d) : /\ s.tip[d] = CursorOf(m)
                                /\ \A x \in Chain(s, d) : x.lam <= m.lam
    BY <2>1 DEF StoreInv, TailWitnessed
  \* The highest entry is not below any floor: a floor is an accepted entry.
  <2>3. ~Below(m)
    <3> SUFFICES ASSUME NEW x \in floors, m.dev = x.dev, m.lam < x.lam PROVE FALSE
      OBVIOUS
    <3>1. x \in Chain(s, d)
      BY DEF Chain
    <3>2. x \in Entry /\ m \in Entry
      BY <1>0, StoreFields DEF Chain
    <3> QED BY <3>1, <3>2, <2>2, EntryFields
  <2>4. m \in Chain(t, d)
    BY <2>3, <1>4, <1>5 DEF Chain
  <2> QED BY <2>1, <2>2, <2>4, <1>5
<1>7. OnePerLamport(t)
  BY <1>1, <1>5 DEF StoreInv, OnePerLamport
<1> QED BY <1>0, <1>1, <1>5, <1>6, <1>7 DEF StoreInv, t

\* purge_repo_rows keeps the witness of every chain it empties.
LEMMA PurgeInv ==
    ASSUME NEW s, StoreInv(s)
    PROVE  LET t == [s EXCEPT !.accepted = {}, !.pending = {}, !.gapped = {},
                              !.floor = [d \in Device |-> NoCursor]]
           IN  StoreInv(t) /\ t.tip = s.tip /\ t.accepted = {} /\ t.gapped = {}
<1> DEFINE F == [d \in Device |-> NoCursor]
           t == [s EXCEPT !.accepted = {}, !.pending = {}, !.gapped = {}, !.floor = F]
<1>1. F \in [Device -> Cursor]
  BY CursorFields
<1> HIDE DEF F
<1>2. /\ t \in Store /\ t.tip = s.tip
      /\ t.accepted = {} /\ t.pending = {} /\ t.gapped = {}
  BY <1>1 DEF StoreInv, Store
<1> HIDE DEF t
<1>3. TailWitnessed(t) /\ OnePerLamport(t)
  BY <1>2 DEF TailWitnessed, OnePerLamport, Chain
<1> QED BY <1>2, <1>3 DEF StoreInv, t, F

-----------------------------------------------------------------------------
(* The invariant is inductive *)

\* Advancing composes: many turns of the loop are one advance.
LEMMA TipsAdvanceTrans ==
    ASSUME NEW r \in Store, NEW s \in Store, NEW t \in Store,
           TipsAdvance(r, s), TipsAdvance(s, t)
    PROVE  TipsAdvance(r, t)
<1> SUFFICES ASSUME NEW d \in Device, r.tip[d] # NoCursor
             PROVE  t.tip[d] = r.tip[d] \/ t.tip[d].lam > r.tip[d].lam
  BY DEF TipsAdvance
<1>1. r.tip[d] \in Cursor /\ s.tip[d] \in Cursor /\ t.tip[d] \in Cursor
  BY StoreFields
<1>2. s.tip[d] # NoCursor
  BY <1>1, CursorFields DEF TipsAdvance
<1> QED BY <1>1, <1>2, CursorFields DEF TipsAdvance

\* Unmoved tips are an advance.
LEMMA TipsAdvanceSame ==
    ASSUME NEW s, NEW t, t.tip = s.tip
    PROVE  TipsAdvance(s, t)
BY DEF TipsAdvance

\* The Lamport time the store signs next is past every witness.
LEMMA NextLamportPastTips ==
    ASSUME NEW s \in Store, NEW d \in Device, NEW e \in Entry,
           s.tip[d] # NoCursor, IsNextLamport(s, e.lam)
    PROVE  e.lam > s.tip[d].lam
<1>1. s.tip[d].lam \in StreamLamports(s)
  BY DEF StreamLamports
<1>2. StreamLamports(s) \subseteq Nat
  BY StoreFields, EntryFields, CursorFields DEF StreamLamports
<1>3. PICK m \in StreamLamports(s) :
         e.lam = m + 1 /\ \A k \in StreamLamports(s) : k <= m
  BY <1>1 DEF IsNextLamport
<1> QED BY <1>1, <1>2, <1>3

-----------------------------------------------------------------------------
(* What the operators of TableChain do to each table *)

\* t is s but for the held entries.
SameButHeld(s, t) ==
    /\ t \in Store
    /\ t.accepted = s.accepted /\ t.pending = s.pending /\ t.tip = s.tip
    /\ t.floor = s.floor /\ t.cover = s.cover /\ t.writers = s.writers

\* Rewriting the held table rewrites nothing else.
LEMMA RewriteHeld ==
    ASSUME NEW s \in Store, NEW G \in SUBSET Entry
    PROVE  LET t == [s EXCEPT !.gapped = G] IN SameButHeld(s, t) /\ t.gapped = G
BY DEF SameButHeld, Store

\* Unparking, discarding, sweeping and parking, exactly.
LEMMA HeldTable ==
    ASSUME NEW s \in Store, NEW e \in Entry
    PROVE  /\ LET t == Unparked(s, e) IN SameButHeld(s, t) /\ t.gapped = s.gapped \ {e}
           /\ \A h : LET t == DiscardDescendants(s, h) IN
                     SameButHeld(s, t) /\ t.gapped \subseteq s.gapped
           /\ \A d, h : LET t == DiscardForeignCitations(s, d, h) IN
                     SameButHeld(s, t) /\ t.gapped \subseteq s.gapped
           /\ \A d, l : LET t == SweepBelow(s, d, l) IN
                     SameButHeld(s, t) /\ t.gapped = {g \in s.gapped : ~(g.dev = d /\ g.lam < l)}
           /\ LET t == RetainGapped(s, e) IN
                     SameButHeld(s, t) /\ t.gapped \subseteq s.gapped \cup {e}
<1>0. s.gapped \subseteq Entry
  BY StoreFields
<1>1. SameButHeld(s, Unparked(s, e)) /\ Unparked(s, e).gapped = s.gapped \ {e}
  BY <1>0, RewriteHeld DEF Unparked
<1>2. ASSUME NEW h
      PROVE  LET t == DiscardDescendants(s, h) IN
             SameButHeld(s, t) /\ t.gapped \subseteq s.gapped
  BY <1>0, RewriteHeld DEF DiscardDescendants
<1>3. ASSUME NEW d, NEW h
      PROVE  LET t == DiscardForeignCitations(s, d, h) IN
             SameButHeld(s, t) /\ t.gapped \subseteq s.gapped
  BY <1>0, RewriteHeld DEF DiscardForeignCitations
<1>4. ASSUME NEW d, NEW l
      PROVE  LET t == SweepBelow(s, d, l) IN
             SameButHeld(s, t) /\ t.gapped = {g \in s.gapped : ~(g.dev = d /\ g.lam < l)}
  BY <1>0, RewriteHeld DEF SweepBelow
<1>5. SameButHeld(s, s)
  BY DEF SameButHeld
<1>6. LET t == RetainGapped(s, e) IN
      SameButHeld(s, t) /\ t.gapped \subseteq s.gapped \cup {e}
  <2>1. ASSUME NEW G \in SUBSET (s.gapped \cup {e})
        PROVE  LET t == [s EXCEPT !.gapped = G] IN
               SameButHeld(s, t) /\ t.gapped \subseteq s.gapped \cup {e}
    BY <1>0, RewriteHeld
  <2> QED BY <1>5, <2>1 DEF RetainGapped
<1> QED BY <1>1, <1>2, <1>3, <1>4, <1>6

\* The same chains and floor.
LEMMA SameButHeldChains ==
    ASSUME NEW s, NEW t, SameButHeld(s, t)
    PROVE  /\ \A d : Chain(t, d) = Chain(s, d)
           /\ \A e : BelowFloor(t, e) <=> BelowFloor(s, e)
           /\ SameChains(s, t)
<1>1. \A d : Chain(t, d) = Chain(s, d)
  BY DEF SameButHeld, Chain
<1> QED BY <1>1 DEF SameButHeld, BelowFloor, SameChains

\* record_adopted_floor, exactly: the floor only rises, and nothing is held
\* below the adopted root.
LEMMA AdoptedFloorTable ==
    ASSUME NEW s \in Store, NEW d \in Device, NEW floor \in Cursor
    PROVE  LET t == RecordAdoptedFloor(s, d, floor) IN
           /\ t \in Store
           /\ t.accepted = s.accepted /\ t.pending = s.pending /\ t.tip = s.tip
           /\ t.cover = s.cover /\ t.writers = s.writers
           /\ t.gapped = {g \in s.gapped : ~(g.dev = d /\ g.lam < floor.lam)}
           /\ t.floor = [s.floor EXCEPT ![d] =
                            IF s.floor[d] = NoCursor \/ floor.lam > s.floor[d].lam
                            THEN floor ELSE s.floor[d]]
<1> DEFINE f == [s.floor EXCEPT ![d] =
                    IF s.floor[d] = NoCursor \/ floor.lam > s.floor[d].lam
                    THEN floor ELSE s.floor[d]]
           u == [s EXCEPT !.floor = f]
           G == {g \in s.gapped : ~(g.dev = d /\ g.lam < floor.lam)}
<1>1. f \in [Device -> Cursor]
  BY StoreFields
<1>2. RecordAdoptedFloor(s, d, floor) = SweepBelow(u, d, floor.lam)
  BY DEF RecordAdoptedFloor, Store
<1> HIDE DEF f
<1>3. /\ u \in Store /\ u.floor = f
      /\ u.accepted = s.accepted /\ u.pending = s.pending /\ u.tip = s.tip
      /\ u.cover = s.cover /\ u.writers = s.writers /\ u.gapped = s.gapped
  BY <1>1 DEF Store
<1> HIDE DEF u
<1>4. SweepBelow(u, d, floor.lam) = [u EXCEPT !.gapped = G]
  BY <1>3 DEF SweepBelow
<1>5. G \in SUBSET Entry
  BY StoreFields
<1> HIDE DEF G
<1>6. LET t == [u EXCEPT !.gapped = G] IN SameButHeld(u, t) /\ t.gapped = G
  BY <1>3, <1>5, RewriteHeld
<1> QED BY <1>2, <1>3, <1>4, <1>6 DEF SameButHeld, f, G

\* classify stores an entry only above the whole chain; unless it is adopted
\* as a root, it is alone on its chain or links to the tail.
LEMMA StoringLinks ==
    ASSUME NEW s, NEW e \in Entry, NEW floor \in Cursor, StoreInv(s),
           Classify(s, e, floor) \in StoringOutcomes
    PROVE  /\ \A x \in Chain(s, e.dev) : x.lam < e.lam
           /\ Classify(s, e, floor) = "root" => floor = CursorOf(e)
           /\ Classify(s, e, floor) # "root" /\ Chain(s, e.dev) # {} =>
                 \E p \in Chain(s, e.dev) :
                    /\ p.hash = e.prev /\ CursorOf(p) = s.tip[e.dev]
                    /\ \A x \in Chain(s, e.dev) : x.lam <= p.lam
<1> USE EntryFields, StoreFields, CursorFields
<1>0. s \in Store /\ e.dev \in Device
  BY DEF StoreInv
<1>1. CanInsert(s, e)
  BY StoringFits
<1>2. ASSUME NEW x \in Chain(s, e.dev) PROVE x.lam < e.lam
  <2>1. PICK m \in Chain(s, e.dev) : s.tip[e.dev] = CursorOf(m)
                                   /\ \A y \in Chain(s, e.dev) : y.lam <= m.lam
    BY <1>0 DEF StoreInv, TailWitnessed
  <2>2. x \in Entry /\ m \in Entry
    BY <1>0 DEF Chain
  <2>3. s.tip[e.dev].lam = m.lam /\ e.lam > s.tip[e.dev].lam
    BY <1>1, <2>1, <2>2 DEF CanInsert
  <2> QED BY <2>1, <2>2, <2>3
<1>3. Classify(s, e, floor) = "root" => floor = CursorOf(e)
  BY DEF Classify, AdoptsRoot, FitToWitness, FitToTail
<1>4. ASSUME Classify(s, e, floor) # "root", Chain(s, e.dev) # {}
      PROVE  \E p \in Chain(s, e.dev) :
                /\ p.hash = e.prev /\ CursorOf(p) = s.tip[e.dev]
                /\ \A x \in Chain(s, e.dev) : x.lam <= p.lam
  <2>1. FitToTail(s, e) \in StoringOutcomes
    BY <1>4 DEF Classify
  <2>2. e.prev = ChainTail(s, e.dev).hash
    BY <1>4, <2>1 DEF FitToTail, StoringOutcomes
  <2>3. PICK p \in Chain(s, e.dev) : s.tip[e.dev] = CursorOf(p)
                                   /\ \A y \in Chain(s, e.dev) : y.lam <= p.lam
    BY <1>0, <1>4 DEF StoreInv, TailWitnessed
  <2>4. p \in Entry
    BY <1>0 DEF Chain
  <2> QED BY <1>0, <1>4, <2>2, <2>3, <2>4, TailIsTip
<1> QED BY <1>2, <1>3, <1>4

\* t is s with e stored on top of its chain: linked to the tail, alone, or
\* adopted as a root, which raises the floor and clears what is held below.
Stores(s, t, e, floor) ==
    /\ t \in Store
    /\ e \notin s.accepted /\ t.accepted = s.accepted \cup {e}
    /\ t.gapped \subseteq s.gapped \ {e}
    /\ t.cover = s.cover
    /\ t.tip[e.dev] = CursorOf(e) /\ \A d \in Device \ {e.dev} : t.tip[d] = s.tip[d]
    /\ \A x \in Chain(s, e.dev) : x.lam < e.lam
    /\ \/ /\ t.floor = s.floor
          /\ Chain(s, e.dev) # {} =>
               \E p \in Chain(s, e.dev) :
                  /\ p.hash = e.prev /\ CursorOf(p) = s.tip[e.dev]
                  /\ \A x \in Chain(s, e.dev) : x.lam <= p.lam
       \/ /\ floor = CursorOf(e)
          /\ t.floor = [s.floor EXCEPT ![e.dev] =
                IF s.floor[e.dev] = NoCursor \/ e.lam > s.floor[e.dev].lam
                THEN CursorOf(e) ELSE s.floor[e.dev]]
          /\ \A g \in t.gapped : ~(g.dev = e.dev /\ g.lam < e.lam)

\* What accept_row_entry leaves when it stores the entry, table by table.
LEMMA AcceptStores ==
    ASSUME NEW s, NEW e \in Entry, NEW floor \in Cursor, NEW pending \in BOOLEAN,
           StoreInv(s), AcceptOutcome(s, e, floor) \in StoringOutcomes
    PROVE  Stores(s, AcceptRowEntry(s, e, floor, pending), e, floor)
<1> DEFINE outcome == AcceptOutcome(s, e, floor)
           u == Unparked(s, e)
           t == AcceptRowEntry(s, e, floor, pending)
<1> USE EntryFields, CursorFields
<1>0. s \in Store /\ e.dev \in Device
  BY DEF StoreInv
<1>1. SameButHeld(s, u) /\ u.gapped = s.gapped \ {e}
  BY <1>0, HeldTable
<1>2. /\ \A d : Chain(u, d) = Chain(s, d) /\ SameChains(s, u) /\ StoreInv(u)
      /\ u \in Store /\ u.tip = s.tip /\ u.floor = s.floor
  BY <1>1, SameButHeldChains, SameChainsInv DEF SameButHeld
<1>3. /\ e \notin s.accepted
      /\ outcome = Classify(u, e, floor) /\ Classify(u, e, floor) \in StoringOutcomes
  BY DEF AcceptOutcome, StoringOutcomes
<1> HIDE DEF u
<1>4. /\ \A x \in Chain(s, e.dev) : x.lam < e.lam
      /\ outcome = "root" => floor = CursorOf(e)
      /\ outcome # "root" /\ Chain(s, e.dev) # {} =>
            \E p \in Chain(s, e.dev) :
               /\ p.hash = e.prev /\ CursorOf(p) = s.tip[e.dev]
               /\ \A x \in Chain(s, e.dev) : x.lam <= p.lam
  BY <1>2, <1>3, StoringLinks
<1>5. CanInsert(u, e)
  BY <1>2, <1>3, StoringFits
\* Insertion into any store with u's chains.
<1>6. ASSUME NEW r \in Store, r.accepted = u.accepted, r.tip = u.tip
      PROVE  LET w == InsertEntry(r, e, pending) IN
             /\ w \in Store /\ w.accepted = s.accepted \cup {e}
             /\ w.gapped = r.gapped /\ w.floor = r.floor /\ w.cover = r.cover
             /\ w.tip[e.dev] = CursorOf(e) /\ \A d \in Device \ {e.dev} : w.tip[d] = s.tip[d]
  <2>1. u.accepted = s.accepted
    BY <1>1 DEF SameButHeld
  <2>2. u.tip \in [Device -> Cursor]
    BY <1>2, StoreFields
  <2>3. u.tip[e.dev] = NoCursor \/ e.lam > u.tip[e.dev].lam \/ u.tip[e.dev] = CursorOf(e)
    BY <1>5 DEF CanInsert
  <2> DEFINE w == InsertEntry(r, e, pending)
  <2>4. /\ w \in Store
        /\ w.accepted = r.accepted \cup {e}
        /\ w.tip = [r.tip EXCEPT ![e.dev] =
                       IF r.tip[e.dev] = NoCursor \/ e.lam > r.tip[e.dev].lam
                       THEN CursorOf(e) ELSE r.tip[e.dev]]
        /\ w.gapped = r.gapped /\ w.floor = r.floor /\ w.cover = r.cover
    BY <1>6, InsertEntryFields
  <2> HIDE DEF w
  <2>5. w.tip[e.dev] = CursorOf(e) /\ \A d \in Device \ {e.dev} : w.tip[d] = s.tip[d]
    BY <1>0, <1>2, <1>6, <2>2, <2>3, <2>4
  <2> QED BY <1>6, <2>1, <2>4, <2>5 DEF w
<1>7. CASE outcome # "root"
  <2>1. t = InsertEntry(u, e, pending)
    BY <1>3, <1>7 DEF AcceptRowEntry, StoringOutcomes, u
  <2>2. /\ t \in Store /\ t.accepted = s.accepted \cup {e}
        /\ t.gapped = u.gapped /\ t.floor = u.floor /\ t.cover = u.cover
        /\ t.tip[e.dev] = CursorOf(e) /\ \A d \in Device \ {e.dev} : t.tip[d] = s.tip[d]
    BY <1>2, <1>6, <2>1
  <2>3. u.cover = s.cover
    BY <1>1 DEF SameButHeld
  <2> HIDE DEF t
  <2>4. Stores(s, t, e, floor)
    BY <1>1, <1>2, <1>3, <1>4, <1>7, <2>2, <2>3 DEF Stores
  <2> QED BY <2>4 DEF t
<1>8. CASE outcome = "root"
  <2> DEFINE r == RecordAdoptedFloor(u, e.dev, floor)
  <2>1. t = InsertEntry(r, e, pending)
    BY <1>8 DEF AcceptRowEntry, u
  <2>2. floor = CursorOf(e) /\ floor.lam = e.lam
    BY <1>4, <1>8
  <2>3. /\ r \in Store /\ r.accepted = u.accepted /\ r.tip = u.tip /\ r.cover = u.cover
        /\ r.gapped = {g \in u.gapped : ~(g.dev = e.dev /\ g.lam < e.lam)}
        /\ r.floor = [s.floor EXCEPT ![e.dev] =
                         IF s.floor[e.dev] = NoCursor \/ e.lam > s.floor[e.dev].lam
                         THEN CursorOf(e) ELSE s.floor[e.dev]]
    BY <1>0, <1>2, <2>2, AdoptedFloorTable
  <2> HIDE DEF r
  <2>4. /\ t \in Store /\ t.accepted = s.accepted \cup {e}
        /\ t.gapped = r.gapped /\ t.floor = r.floor /\ t.cover = r.cover
        /\ t.tip[e.dev] = CursorOf(e) /\ \A d \in Device \ {e.dev} : t.tip[d] = s.tip[d]
    BY <2>1, <2>3, <1>6
  <2>5. u.cover = s.cover
    BY <1>1 DEF SameButHeld
  <2> HIDE DEF t
  <2>6. Stores(s, t, e, floor)
    BY <1>1, <1>3, <1>4, <2>2, <2>3, <2>4, <2>5 DEF Stores
  <2> QED BY <2>6 DEF t
<1> QED BY <1>7, <1>8

\* t is s but for held entries; one is parked only where its predecessor is
\* not on its chain.
Parks(s, t, e) ==
    /\ SameButHeld(s, t)
    /\ t.gapped \subseteq s.gapped \cup {e}
    /\ t.gapped \subseteq s.gapped
       \/ /\ e \notin s.accepted /\ ~BelowFloor(s, e)
          /\ \A x \in Chain(s, e.dev) : x.hash # e.prev

\* What accept_row_entry leaves when it does not store the entry.
LEMMA AcceptKeeps ==
    ASSUME NEW s, NEW e \in Entry, NEW floor \in Cursor, NEW pending \in BOOLEAN,
           StoreInv(s), AcceptOutcome(s, e, floor) \notin StoringOutcomes
    PROVE  Parks(s, AcceptRowEntry(s, e, floor, pending), e)
<1> DEFINE outcome == AcceptOutcome(s, e, floor)
           u == Unparked(s, e)
           t == AcceptRowEntry(s, e, floor, pending)
<1>0. s \in Store /\ e.dev \in Device /\ SameButHeld(s, s)
  BY EntryFields DEF StoreInv, SameButHeld
<1>1. SameButHeld(s, u) /\ u.gapped = s.gapped \ {e} /\ u \in Store
  BY <1>0, HeldTable DEF SameButHeld
<1>2. \A d : Chain(u, d) = Chain(s, d)
  BY <1>1, SameButHeldChains
<1>3. CASE outcome = "gap"
  <2>1. t = RetainGapped(u, e)
    BY <1>3 DEF AcceptRowEntry
  <2>2. SameButHeld(u, t) /\ t.gapped \subseteq u.gapped \cup {e}
    BY <1>1, <2>1, HeldTable
  <2>3. /\ e \notin s.accepted /\ ~BelowFloor(s, e)
        /\ Classify(u, e, floor) = "gap"
    BY <1>3 DEF AcceptOutcome
  <2>4. \A x \in Chain(u, e.dev) : x.hash # e.prev
    <3>1. CASE Chain(u, e.dev) = {}
      BY <3>1
    <3>2. CASE Chain(u, e.dev) # {}
      <4>1. FitToTail(u, e) = "gap"
        BY <2>3, <3>2 DEF Classify
      <4>2. ~EntryExists(u, e.prev)
        BY <3>2, <4>1 DEF FitToTail
      <4> QED BY <4>2 DEF EntryExists, Chain
    <3> QED BY <3>1, <3>2
  <2> HIDE DEF t
  <2>5. Parks(s, t, e)
    BY <1>1, <1>2, <2>2, <2>3, <2>4 DEF SameButHeld, Parks
  <2> QED BY <2>5 DEF t
<1>4. CASE outcome = "conflict"
  <2>1. t = u
    BY <1>4 DEF AcceptRowEntry
  <2> QED BY <1>1, <2>1 DEF Parks
<1>5. CASE outcome \notin {"gap", "conflict"}
  <2>1. t = s
    BY <1>5 DEF AcceptRowEntry, StoringOutcomes
  <2> QED BY <1>0, <2>1 DEF Parks
<1> QED BY <1>3, <1>4, <1>5
=============================================================================
