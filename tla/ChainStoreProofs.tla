-------------------------- MODULE ChainStoreProofs --------------------------
(***************************************************************************)
(* What holds of ChainStore for every set of devices, every universe of    *)
(* signed entries and every value of the bounds: the witness is the tail,  *)
(* no device forks itself, chains stay contiguous above their floor, held  *)
(* entries stay promotable and are never stranded, and an obligation lives *)
(* exactly as long as it is owed.                                          *)
(***************************************************************************)
EXTENDS ChainStore, TableChainProofs

-----------------------------------------------------------------------------
(* The inductive invariant *)

\* The committed store and the one the open transaction sees are in order,
\* and the second has the witnesses of the first or later ones.
IInv ==
    /\ StoreInv(db)
    /\ tx \in TxType \cup {NoTx}
    /\ authored \subseteq Entry
    /\ tx # NoTx => StoreInv(tx.s) /\ TipsAdvance(db, tx.s)

\* The loop starts with a typed transaction on the same chains.
LEMMA StartDrainFields ==
    ASSUME NEW s \in Store, NEW e \in Entry, NEW before \in Cursor, NEW tip \in Cursor
    PROVE  LET t == StartDrain(s, e, before, tip) IN
           t \in TxType /\ SameChains(s, t.s)
<1>1. SameChains(s, DiscardForeignCitations(s, e.dev, e.hash)) /\ SameChains(s, s)
  BY HeldOperators DEF SameChains
<1> DEFINE F == DiscardForeignCitations(s, e.dev, e.hash)
<1>2. F \in Store
  BY <1>1 DEF SameChains
<1> HIDE DEF F
<1>3. e.dev \in Device
  BY EntryFields
<1> QED BY <1>1, <1>2, <1>3 DEF StartDrain, TxType, F

\* An empty store satisfies the invariant.
LEMMA InitIInv ==
    ASSUME Init
    PROVE  IInv
<1> DEFINE T == [d \in Device |-> NoCursor]
           O == [d \in Device |-> NoObligation]
<1>1. T \in [Device -> Cursor] /\ O \in [Device -> Obligation]
  BY CursorFields
<1>2. db = [accepted |-> {}, pending |-> {}, gapped |-> {}, tip |-> T,
            floor |-> T, cover |-> O, writers |-> InitialWriters]
  BY DEF Init, EmptyStore
<1> HIDE DEF T, O
<1>3. db \in Store /\ db.accepted = {} /\ db.pending = {}
  BY <1>1, <1>2, LocalAssumption DEF Store
<1>4. TailWitnessed(db) /\ OnePerLamport(db)
  BY <1>3 DEF TailWitnessed, OnePerLamport, Chain
<1> QED BY <1>3, <1>4 DEF Init, IInv, StoreInv

\* Dropping obligations disturbs nothing else.
LEMMA DropFields ==
    ASSUME NEW s \in Store, NEW D
    PROVE  LET t == DropObligations(s, D) IN
           /\ t \in Store
           /\ t.accepted = s.accepted /\ t.pending = s.pending /\ t.tip = s.tip
           /\ t.floor = s.floor /\ t.gapped = s.gapped /\ t.writers = s.writers
           /\ \A d \in Device : t.cover[d] = IF d \in D THEN NoObligation ELSE s.cover[d]
           /\ SameChains(s, t)
<1> DEFINE C == [d \in Device |-> IF d \in D THEN NoObligation ELSE s.cover[d]]
<1>1. C \in [Device -> Obligation]
  BY StoreFields, CursorFields
<1>2. DropObligations(s, D) = [s EXCEPT !.cover = C]
  BY DEF DropObligations
<1>3. \A d \in Device : C[d] = IF d \in D THEN NoObligation ELSE s.cover[d]
  OBVIOUS
<1> HIDE DEF C
<1> QED BY <1>1, <1>2, <1>3 DEF Store, SameChains

\* Receiving an entry, up to its acceptance.
LEMMA ReceiveIInv ==
    ASSUME IInv, NEW e \in Entry, NEW floor \in Cursor, NEW tip \in Cursor,
           NEW pending \in BOOLEAN, Receive(e, floor, tip, pending)
    PROVE  IInv' /\ TipsAdvance(db, db')
<1> DEFINE r == Recorded(db)
           s == AcceptRowEntry(r, e, floor, pending)
<1>0. StoreInv(r) /\ r.tip = db.tip
  BY DropFields, SameChainsInv DEF IInv, StoreInv, Recorded
<1> HIDE DEF r
<1>1. StoreInv(s) /\ TipsAdvance(db, s) /\ s \in Store
  <2>1. StoreInv(s) /\ TipsAdvance(r, s)
    BY <1>0, AcceptInv
  <2> QED BY <1>0, <2>1 DEF TipsAdvance, StoreInv
<1>2. db \in Store /\ e.dev \in Device /\ db.floor[e.dev] \in Cursor
  BY EntryFields, StoreFields DEF IInv, StoreInv
<1>3. authored' \subseteq Entry
  BY DEF IInv, Receive
<1>4. CASE AcceptOutcome(r, e, floor) \in StoringOutcomes
  <2>1. tx' = StartDrain(s, e, db.floor[e.dev], tip) /\ db' = db
    BY <1>4 DEF Receive, r
  <2> HIDE DEF s
  <2>2. tx' \in TxType /\ SameChains(s, tx'.s)
    BY <1>1, <1>2, <2>1, StartDrainFields
  <2>3. StoreInv(tx'.s) /\ tx'.s.tip = s.tip
    BY <1>1, <2>2, SameChainsInv DEF SameChains
  <2>4. TipsAdvance(db', tx'.s) /\ TipsAdvance(db, db')
    BY <1>1, <2>1, <2>3 DEF TipsAdvance
  <2> QED BY <1>3, <2>1, <2>2, <2>3, <2>4 DEF IInv
<1>5. CASE AcceptOutcome(r, e, floor) \notin StoringOutcomes
  <2>1. db' = SettleCoverage(s, e.dev, db.floor[e.dev], tip) /\ tx' = NoTx
    BY <1>5 DEF Receive, r
  <2> HIDE DEF s
  <2>2. SameChains(s, db')
    BY <1>1, <1>2, <2>1, SettleCoverageSame
  <2>3. StoreInv(db') /\ db'.tip = s.tip
    BY <1>1, <2>2, SameChainsInv DEF SameChains
  <2> QED BY <1>1, <1>3, <2>1, <2>3 DEF IInv, TipsAdvance
<1> QED BY <1>4, <1>5

\* Each turn of the promotion loop, and the commit.
LEMMA DrainStepIInv ==
    ASSUME IInv, DrainStep
    PROVE  IInv' /\ TipsAdvance(db, db')
<1>0. /\ tx # NoTx /\ tx \in TxType /\ StoreInv(tx.s) /\ TipsAdvance(db, tx.s)
      /\ tx.s \in Store /\ StoreInv(db) /\ db \in Store /\ authored \subseteq Entry
  BY DEF IInv, StoreInv, DrainStep, DrainChild, DrainSiblingsDone, DrainAdvance, Commit
<1>1. TipsAdvance(db, db)
  BY DEF TipsAdvance
\* A step that only replaces the transaction's store.
<1>2. ASSUME tx' \in TxType, StoreInv(tx'.s), TipsAdvance(tx.s, tx'.s),
             UNCHANGED <<db, authored>>
      PROVE  IInv' /\ TipsAdvance(db, db')
  <2>1. TipsAdvance(db, tx'.s)
    BY <1>0, <1>2, TipsAdvanceTrans DEF StoreInv
  <2> QED BY <1>0, <1>1, <1>2, <2>1 DEF IInv
<1>3. ASSUME NEW c \in Entry, NEW pending \in BOOLEAN, DrainChild(c, pending)
      PROVE  IInv' /\ TipsAdvance(db, db')
  <2> DEFINE taken == Unparked(tx.s, c)
             s == AcceptRowEntry(taken, c, NoCursor, pending)
             f == DiscardDescendants(s, c.hash)
  <2>1. StoreInv(taken) /\ TipsAdvance(tx.s, taken)
    BY <1>0, HeldOperators, SameChainsInv
  <2>2. StoreInv(s) /\ TipsAdvance(taken, s)
    BY <2>1, CursorFields, AcceptInv
  <2>3. StoreInv(f) /\ TipsAdvance(s, f)
    BY <2>2, HeldOperators, SameChainsInv DEF StoreInv
  <2>4. taken \in Store /\ s \in Store /\ f \in Store
    BY <2>1, <2>2, <2>3 DEF StoreInv
  <2>5. TipsAdvance(tx.s, s) /\ TipsAdvance(tx.s, f)
    BY <1>0, <2>1, <2>2, <2>3, <2>4, TipsAdvanceTrans
  <2>6. \/ tx' = NoTx
        \/ tx' = [tx EXCEPT !.s = s, !.slot = {c}]
        \/ tx' = [tx EXCEPT !.s = f]
    BY <1>3 DEF DrainChild
  <2>7. UNCHANGED <<db, authored>>
    BY <1>3 DEF DrainChild
  <2> HIDE DEF taken, s, f
  <2>8. CASE tx' = NoTx
    BY <1>0, <1>1, <2>7, <2>8 DEF IInv
  <2>9. CASE tx' = [tx EXCEPT !.s = s, !.slot = {c}]
    <3>1. tx' \in TxType /\ tx'.s = s
      BY <1>0, <2>4, <2>9 DEF TxType
    <3> QED BY <1>2, <2>2, <2>5, <2>7, <3>1
  <2>10. CASE tx' = [tx EXCEPT !.s = f]
    <3>1. tx' \in TxType /\ tx'.s = f
      BY <1>0, <2>4, <2>10 DEF TxType
    <3> QED BY <1>2, <2>3, <2>5, <2>7, <3>1
  <2> QED BY <2>6, <2>8, <2>9, <2>10
<1>4. ASSUME DrainSiblingsDone
      PROVE  IInv' /\ TipsAdvance(db, db')
  <2> DEFINE f == DiscardForeignCitations(tx.s, tx.signer, tx.accepted.hash)
  <2>1. SameChains(tx.s, f)
    BY <1>0, HeldOperators DEF TxType
  <2>2. StoreInv(f) /\ TipsAdvance(tx.s, f)
    BY <1>0, <2>1, SameChainsInv
  <2>3. tx' = [tx EXCEPT !.phase = "children", !.s = f, !.slot = {}]
        /\ UNCHANGED <<db, authored>>
    BY <1>4 DEF DrainSiblingsDone
  <2> HIDE DEF f
  <2>4. tx' \in TxType /\ tx'.s = f
    BY <1>0, <2>2, <2>3 DEF TxType, StoreInv
  <2> QED BY <1>2, <2>2, <2>3, <2>4
<1>5. ASSUME NEW c \in Entry, DrainAdvance(c)
      PROVE  IInv' /\ TipsAdvance(db, db')
  <2>1. tx' \in TxType /\ tx'.s = tx.s /\ UNCHANGED <<db, authored>>
    BY <1>0, <1>5 DEF DrainAdvance, TxType
  <2>2. TipsAdvance(tx.s, tx'.s)
    BY <2>1, TipsAdvanceSame
  <2> QED BY <1>0, <1>2, <2>1, <2>2
<1>6. ASSUME Commit
      PROVE  IInv' /\ TipsAdvance(db, db')
  <2>1. db' = SettleCoverage(tx.s, tx.signer, tx.floorBefore, tx.tip)
        /\ tx' = NoTx /\ UNCHANGED authored
    BY <1>6 DEF Commit
  <2>2. SameChains(tx.s, db')
    BY <1>0, <2>1, SettleCoverageSame DEF TxType
  <2>3. StoreInv(db') /\ db'.tip = tx.s.tip
    BY <1>0, <2>2, SameChainsInv DEF SameChains
  <2> QED BY <1>0, <2>1, <2>3 DEF IInv, TipsAdvance
<1> QED BY <1>3, <1>4, <1>5, <1>6 DEF DrainStep

\* What author_row_entry signs extends the chain at its witness.
LEMMA AuthorFits ==
    ASSUME IInv, NEW e \in Entry, Author(e)
    PROVE  CanInsert(db, e)
<1>1. db \in Store /\ e.dev = Local /\ Local \in Device /\ StoreInv(db)
  BY LocalAssumption DEF Author, IInv, StoreInv
<1>2. CASE db.tip[Local] = NoCursor
  BY <1>1, <1>2, TailIsTip DEF CanInsert
<1>3. CASE db.tip[Local] # NoCursor
  <2>1. e.lam > db.tip[Local].lam
    BY <1>1, <1>3, NextLamportPastTips DEF Author
  <2> QED BY <1>1, <2>1 DEF CanInsert
<1> QED BY <1>2, <1>3

\* What an account fold does to the store.
LEMMA RosterStep ==
    ASSUME db \in Store, NEW roster \in Rosters, NEW others, ChangeRoster(roster, others)
    PROVE  /\ db' \in Store
           /\ db'.accepted = db.accepted /\ db'.pending = db.pending /\ db'.tip = db.tip
           /\ db'.floor = db.floor /\ db'.gapped = db.gapped /\ db'.writers = roster.writers
           /\ \A d \in Device :
                 \/ db'.cover[d] = db.cover[d]
                 \/ d \in RemovedBy(roster.removedAt) /\ db'.cover[d] = NoObligation
<1> DEFINE D == IF dir.known THEN RemovedBy(roster.removedAt) ELSE {}
           u == DropObligations(db, D)
<1>1. /\ u \in Store
      /\ u.accepted = db.accepted /\ u.pending = db.pending /\ u.tip = db.tip
      /\ u.floor = db.floor /\ u.gapped = db.gapped
      /\ \A d \in Device : u.cover[d] = IF d \in D THEN NoObligation ELSE db.cover[d]
  BY DropFields
<1>2. db' = [u EXCEPT !.writers = roster.writers]
  BY DEF ChangeRoster
<1>3. roster.writers \subseteq Device
  BY RosterAssumption DEF Roster
<1> HIDE DEF u
<1>4. /\ db' \in Store
      /\ db'.accepted = u.accepted /\ db'.pending = u.pending /\ db'.tip = u.tip
      /\ db'.floor = u.floor /\ db'.gapped = u.gapped /\ db'.writers = roster.writers
      /\ db'.cover = u.cover
  BY <1>1, <1>2, <1>3 DEF Store
<1>5. \A d \in D : d \in RemovedBy(roster.removedAt)
  OBVIOUS
<1> HIDE DEF D
<1>6. ASSUME NEW d \in Device
      PROVE  \/ db'.cover[d] = db.cover[d]
             \/ d \in RemovedBy(roster.removedAt) /\ db'.cover[d] = NoObligation
  <2>1. db'.cover[d] = IF d \in D THEN NoObligation ELSE db.cover[d]
    BY <1>1, <1>4
  <2> QED BY <1>5, <2>1
<1>7. /\ db'.accepted = db.accepted /\ db'.pending = db.pending /\ db'.tip = db.tip
      /\ db'.floor = db.floor /\ db'.gapped = db.gapped
  BY <1>1, <1>4
<1> QED BY <1>4, <1>6, <1>7

\* Every step keeps the invariant and moves no committed tip back.
LEMMA NextIInv ==
    ASSUME IInv, [Next]_vars
    PROVE  IInv' /\ TipsAdvance(db, db')
<1> USE DEF IInv
<1>0. StoreInv(db) /\ db \in Store /\ TipsAdvance(db, db)
  BY DEF StoreInv, TipsAdvance
\* A step of a writer that is not the ingest.
<1>1. ASSUME tx' = tx, tx = NoTx, StoreInv(db'), TipsAdvance(db, db'),
             authored' \subseteq Entry
      PROVE  IInv' /\ TipsAdvance(db, db')
  BY <1>1
<1>2. ASSUME NEW e \in Deliverable, NEW pending \in BOOLEAN,
             Receive(e, NoCursor, NoCursor, pending)
      PROVE  IInv' /\ TipsAdvance(db, db')
  BY <1>2, CursorFields, ReceiveIInv DEF Deliverable
<1>3. ASSUME NEW e \in Deliverable, NEW t \in Deliverable, NEW pending \in BOOLEAN,
             Receive(e, CursorOf(e), CursorOf(t), pending)
      PROVE  IInv' /\ TipsAdvance(db, db')
  BY <1>3, EntryFields, ReceiveIInv DEF Deliverable
<1>4. ASSUME DrainStep PROVE IInv' /\ TipsAdvance(db, db')
  BY <1>4, DrainStepIInv
<1>5. ASSUME Rollback PROVE IInv' /\ TipsAdvance(db, db')
  BY <1>0, <1>5 DEF Rollback
<1>6. ASSUME NEW e \in Entry, Author(e) PROVE IInv' /\ TipsAdvance(db, db')
  <2>1. db' = InsertEntry(db, e, FALSE) /\ tx' = tx /\ tx = NoTx
        /\ authored' = authored \cup {e}
    BY <1>6 DEF Author
  <2>2. StoreInv(db') /\ TipsAdvance(db, db')
    BY <1>0, <1>6, <2>1, AuthorFits, InsertEntryInv
  <2> QED BY <1>1, <2>1, <2>2
<1>7. ASSUME NEW e \in Entry, Replay(e) PROVE IInv' /\ TipsAdvance(db, db')
  <2>1. db' = [db EXCEPT !.pending = db.pending \ {e}] /\ tx' = tx /\ tx = NoTx
        /\ authored' = authored
    BY <1>7 DEF Replay
  <2>2. /\ db' \in Store /\ db'.accepted = db.accepted /\ db'.tip = db.tip
        /\ db'.pending \subseteq db.pending
    BY <1>0, <2>1 DEF Store
  <2>3. \A d : Chain(db', d) = Chain(db, d)
    BY <2>2 DEF Chain
  <2>4. StoreInv(db')
    BY <1>0, <2>2, <2>3 DEF StoreInv, TailWitnessed, OnePerLamport
  <2> QED BY <1>1, <2>1, <2>2, <2>4, TipsAdvanceSame
<1>8. ASSUME NEW floors \in SUBSET db.accepted, Compact(floors)
      PROVE  IInv' /\ TipsAdvance(db, db')
  <2>1. db' = CompactPrefixes(db, floors) /\ tx' = tx /\ tx = NoTx
        /\ authored' = authored
    BY <1>8 DEF Compact
  <2>2. StoreInv(db') /\ db'.tip = db.tip
    BY <1>0, <2>1, CompactInv
  <2> QED BY <1>1, <2>1, <2>2, TipsAdvanceSame
<1>9. ASSUME NEW expired \in SUBSET db.gapped, SweepExpiredGapped(expired)
      PROVE  IInv' /\ TipsAdvance(db, db')
  <2> DEFINE G == db.gapped \ (expired \cup UNION {HeldDescendants(db, g.hash) : g \in expired})
  <2>1. db' = [db EXCEPT !.gapped = G] /\ tx' = tx /\ tx = NoTx
        /\ authored' = authored
    BY <1>9 DEF SweepExpiredGapped
  <2>2. G \in SUBSET Entry
    BY <1>0, StoreFields
  <2> HIDE DEF G
  <2>3. StoreInv(db') /\ TipsAdvance(db, db')
    BY <1>0, <2>1, <2>2, SetGapped, SameChainsInv
  <2> QED BY <1>1, <2>1, <2>3
<1>10. ASSUME PurgeRepo PROVE IInv' /\ TipsAdvance(db, db')
  <2>1. db' = [db EXCEPT !.accepted = {}, !.pending = {}, !.gapped = {},
                         !.floor = [d \in Device |-> NoCursor]]
        /\ tx' = tx /\ tx = NoTx /\ authored' = authored
    BY <1>10 DEF PurgeRepo
  <2>2. StoreInv(db') /\ db'.tip = db.tip
    BY <1>0, <2>1, PurgeInv
  <2> QED BY <1>1, <2>1, <2>2, TipsAdvanceSame
<1>11. ASSUME NEW roster \in Rosters, NEW others, ChangeRoster(roster, others)
       PROVE  IInv' /\ TipsAdvance(db, db')
  <2>1. tx' = tx /\ tx = NoTx /\ authored' = authored
    BY <1>11 DEF ChangeRoster
  <2>2. SameChains(db, db')
    BY <1>0, <1>11, RosterStep DEF SameChains
  <2> QED BY <1>0, <1>1, <2>1, <2>2, SameChainsInv
<1>12. ASSUME RecordContext \/ OtherContact PROVE IInv' /\ TipsAdvance(db, db')
  BY <1>0, <1>12 DEF RecordContext, OtherContact
<1>13. ASSUME UNCHANGED vars PROVE IInv' /\ TipsAdvance(db, db')
  BY <1>0, <1>13 DEF vars
<1> QED
  BY <1>2, <1>3, <1>4, <1>5, <1>6, <1>7, <1>8, <1>9, <1>10, <1>11, <1>12, <1>13 DEF Next

-----------------------------------------------------------------------------
(* The theorems *)

\* Every step of the store, the steps inside an ingest transaction included,
\* keeps the tables typed, the witness at the tail and the transaction's own
\* copy ahead of the committed one.
THEOREM Invariance == Spec => []IInv
<1>1. Init => IInv
  BY InitIInv
<1>2. IInv /\ [Next]_vars => IInv'
  BY NextIInv
<1> QED BY <1>1, <1>2, PTL DEF Spec

\* Folds, contacts and purges keep the directory typed.
LEMMA NextDirectory ==
    ASSUME dir \in Directory, [Next]_vars
    PROVE  dir' \in Directory
<1>1. ASSUME dir' \in {dir, Contacted, [dir EXCEPT !.known = FALSE], [dir EXCEPT !.waiting = {}]}
      PROVE  dir' \in Directory
  BY <1>1 DEF Directory, Contacted
<1>2. ASSUME NEW roster \in Rosters, NEW others, ChangeRoster(roster, others)
      PROVE  dir' \in Directory
  <2> DEFINE folded == [dir EXCEPT !.removedAt = roster.removedAt]
             newer == {x \in Device : roster.removedAt[x] > folded.parkedAt[x]}
             P == [x \in Device |-> IF x \in newer THEN roster.removedAt[x] ELSE folded.parkedAt[x]]
  <2>1. roster.removedAt \in [Device -> Nat]
    BY RosterAssumption DEF Roster
  <2>2. folded \in Directory
    BY <2>1 DEF Directory
  <2>3. folded.parkedAt \in [Device -> Nat] /\ folded.waiting \subseteq Device
    BY <2>2 DEF Directory
  <2> HIDE DEF folded
  <2>4. P \in [Device -> Nat] /\ newer \subseteq Device
    BY <2>1, <2>3
  <2>5. Parked(folded, roster.removedAt) = [folded EXCEPT !.parkedAt = P, !.waiting = folded.waiting \cup newer]
    BY DEF Parked
  <2> HIDE DEF P, newer
  <2>6. Parked(folded, roster.removedAt) \in Directory
    BY <2>2, <2>3, <2>4, <2>5 DEF Directory
  <2> QED BY <1>2, <2>2, <2>6 DEF ChangeRoster, folded
<1>3. ASSUME DrainStep PROVE dir' \in Directory
  BY <1>1, <1>3 DEF DrainStep, DrainChild, DrainSiblingsDone, DrainAdvance, Commit
<1> QED
  BY <1>1, <1>2, <1>3 DEF Next, vars, Receive, Rollback, Author, Replay, Compact,
     SweepExpiredGapped, PurgeRepo, RecordContext, OtherContact

\* Every reachable store has the type of its tables, and only accepted
\* entries are owed a replay (schema of table_sync_entries; compaction never
\* drops a pending one).
THEOREM TypeCorrect == Spec => []TypeOK
<1>1. IInv /\ dir \in Directory => TypeOK
  BY DEF IInv, StoreInv, TypeOK
<1>2. Init => dir \in Directory
  BY DEF Init, Directory
<1>3. dir \in Directory /\ [Next]_vars => (dir \in Directory)'
  BY NextDirectory
<1> QED BY <1>1, <1>2, <1>3, Invariance, PTL DEF Spec

\* transport.rs chain_frontier: the witness always names the accepted tail.
THEOREM WitnessCorrect == Spec => []WitnessIsTail
<1>1. IInv => WitnessIsTail
  BY TailIsTip DEF IInv, WitnessIsTail
<1> QED BY <1>1, Invariance, PTL

\* insert_entry, purge_repo_rows: the witness of a chain never moves back.
THEOREM WitnessMonotone == Spec => WitnessNeverRegresses
<1> DEFINE Kept == \A d \in Device :
              db.tip[d] # NoCursor =>
                 db'.tip[d] = db.tip[d] \/ db'.tip[d].lam > db.tip[d].lam
<1>1. IInv /\ [Next]_vars => [Kept]_vars
  BY NextIInv DEF TipsAdvance
<1> QED BY <1>1, Invariance, PTL DEF Spec, WitnessNeverRegresses

-----------------------------------------------------------------------------
(* The local device never forks its own chain (NoSelfFork).                *)
(* The argument: everything of the local device in any table was signed    *)
(* here; the witness, which survives a purge, is always the last entry     *)
(* signed here; and signing waits until the accepted tail is that witness, *)
(* so each new entry follows the last one.                                 *)

\* The local device's part of a store, given the entries it has signed.
OwnInv(s, signed) ==
    /\ \A x \in s.accepted \cup s.gapped : x.dev = Local => x \in signed
    /\ signed = {} => s.tip[Local] = NoCursor
    /\ signed # {} => \E m \in signed : /\ s.tip[Local] = CursorOf(m)
                                        /\ \A x \in signed : x.lam <= m.lam

\* Each signed entry follows an earlier one, or begins the chain.
FollowsEarlier(signed) ==
    \A x \in signed :
        x.prev # NoHash => \E y \in signed : y.hash = x.prev /\ y.lam < x.lam

AInv ==
    /\ \A x \in authored : x \in Entry /\ x.dev = Local
    /\ OwnInv(db, authored)
    /\ tx # NoTx => OwnInv(tx.s, authored)
    /\ FollowsEarlier(authored)
    /\ NoSelfFork

-----------------------------------------------------------------------------
(* Where the entries of a store come from *)

\* Reading the held table after writing it.
LEMMA GappedField ==
    ASSUME NEW s \in Store, NEW G
    PROVE  [s EXCEPT !.gapped = G].gapped = G
BY DEF Store

\* The held table only gains the entry that is parked.
LEMMA HeldSources ==
    ASSUME NEW s \in Store, NEW e \in Entry
    PROVE  /\ Unparked(s, e).gapped \subseteq s.gapped
           /\ \A h : DiscardDescendants(s, h).gapped \subseteq s.gapped
           /\ \A d, h : DiscardForeignCitations(s, d, h).gapped \subseteq s.gapped
           /\ \A d, l : SweepBelow(s, d, l).gapped \subseteq s.gapped
           /\ RetainGapped(s, e).gapped \subseteq s.gapped \cup {e}
<1>1. Unparked(s, e).gapped \subseteq s.gapped
  BY GappedField DEF Unparked
<1>2. ASSUME NEW h PROVE DiscardDescendants(s, h).gapped \subseteq s.gapped
  BY GappedField DEF DiscardDescendants
<1>3. ASSUME NEW d, NEW h
      PROVE  DiscardForeignCitations(s, d, h).gapped \subseteq s.gapped
  BY GappedField DEF DiscardForeignCitations
<1>4. ASSUME NEW d, NEW l PROVE SweepBelow(s, d, l).gapped \subseteq s.gapped
  BY GappedField DEF SweepBelow
<1>5. RetainGapped(s, e).gapped \subseteq s.gapped \cup {e}
  BY GappedField DEF RetainGapped
<1> QED BY <1>1, <1>2, <1>3, <1>4, <1>5

\* record_adopted_floor holds nothing new.
LEMMA AdoptedFloorSources ==
    ASSUME NEW s \in Store, NEW d \in Device, NEW floor \in Cursor
    PROVE  RecordAdoptedFloor(s, d, floor).gapped \subseteq s.gapped
<1> DEFINE f == [s.floor EXCEPT ![d] =
                    IF s.floor[d] = NoCursor \/ floor.lam > s.floor[d].lam
                    THEN floor ELSE s.floor[d]]
           u == [s EXCEPT !.floor = f]
<1>1. f \in [Device -> Cursor]
  BY StoreFields
<1>2. RecordAdoptedFloor(s, d, floor) = SweepBelow(u, d, floor.lam)
  BY DEF RecordAdoptedFloor, Store
<1> HIDE DEF f
<1>3. u \in Store /\ u.gapped = s.gapped
  BY <1>1 DEF Store
<1> HIDE DEF u
<1> QED BY <1>2, <1>3, GappedField DEF SweepBelow

\* Settling coverage does not touch the held table.
LEMMA SettleSources ==
    ASSUME NEW s \in Store, NEW d \in Device, NEW before, NEW tip \in Cursor
    PROVE  SettleCoverage(s, d, before, tip).gapped = s.gapped
<1>1. ASSUME NEW t \in Store, NEW o \in Obligation
      PROVE  [t EXCEPT !.cover[d] = o].gapped = t.gapped
             /\ [t EXCEPT !.cover[d] = o] \in Store
  <2>1. [t.cover EXCEPT ![d] = o] \in [Device -> Obligation]
    BY StoreFields
  <2> QED BY <2>1 DEF Store
<1> DEFINE r == RecordCoverage(s, d, before, tip)
<1>2. [floor |-> s.floor[d].lam, tip |-> tip] \in Obligation
  BY StoreFields, CursorFields DEF Obligation
<1>3. r \in Store /\ r.gapped = s.gapped
  BY <1>1, <1>2 DEF RecordCoverage
<1> HIDE DEF r
<1>4. ClearDelivered(r, d).gapped = r.gapped
  BY <1>1, <1>3, CursorFields DEF ClearDelivered
<1> QED BY <1>3, <1>4 DEF SettleCoverage, r

\* t holds nothing s did not, and has its accepted entries and witnesses.
Shrunk(s, t) ==
    t.accepted \subseteq s.accepted /\ t.gapped \subseteq s.gapped /\ t.tip = s.tip

\* A store that lost entries and kept its witness keeps the local part.
LEMMA ShrunkOwn ==
    ASSUME NEW s, NEW t, NEW signed, OwnInv(s, signed), Shrunk(s, t)
    PROVE  OwnInv(t, signed)
BY DEF OwnInv, Shrunk

\* insert_entry of an entry that, if local, was signed here before: it is
\* not past the witness.
LEMMA InsertOwn ==
    ASSUME NEW s \in Store, NEW e \in Entry, NEW pending \in BOOLEAN,
           NEW signed \in SUBSET Entry, OwnInv(s, signed),
           e.dev = Local => e \in signed
    PROVE  OwnInv(InsertEntry(s, e, pending), signed)
<1> DEFINE t == InsertEntry(s, e, pending)
<1>1. /\ t.accepted = s.accepted \cup {e}
      /\ t.tip = [s.tip EXCEPT ![e.dev] =
                      IF s.tip[e.dev] = NoCursor \/ e.lam > s.tip[e.dev].lam
                      THEN CursorOf(e) ELSE s.tip[e.dev]]
      /\ t.gapped = s.gapped
  BY InsertEntryFields
<1> HIDE DEF t
<1>2. t.tip[Local] = s.tip[Local]
  <2>1. CASE e.dev # Local
    BY <1>1, <2>1, StoreFields, LocalAssumption
  <2>2. CASE e.dev = Local
    <3>1. PICK m \in signed : /\ s.tip[Local] = CursorOf(m)
                              /\ \A x \in signed : x.lam <= m.lam
      BY <2>2 DEF OwnInv
    <3>2. s.tip[Local] # NoCursor /\ ~(e.lam > s.tip[Local].lam)
      BY <2>2, <3>1, EntryFields
    <3> QED BY <1>1, <2>2, <3>2, StoreFields, LocalAssumption
  <2> QED BY <2>1, <2>2
<1>3. \A x \in t.accepted \cup t.gapped : x.dev = Local => x \in signed
  BY <1>1 DEF OwnInv
<1> QED BY <1>2, <1>3 DEF OwnInv, t

\* accept_row_entry keeps the local part: an own entry that arrives was signed here.
LEMMA AcceptOwn ==
    ASSUME NEW s, StoreInv(s), NEW e \in Entry, NEW floor \in Cursor,
           NEW pending \in BOOLEAN, NEW signed \in SUBSET Entry,
           OwnInv(s, signed), e.dev = Local => e \in signed
    PROVE  OwnInv(AcceptRowEntry(s, e, floor, pending), signed)
<1> DEFINE outcome == AcceptOutcome(s, e, floor)
           u == Unparked(s, e)
           r == RecordAdoptedFloor(u, e.dev, floor)
           t == AcceptRowEntry(s, e, floor, pending)
<1>0. s \in Store
  BY DEF StoreInv
<1>1. u \in Store /\ OwnInv(u, signed)
  <2>1. SameChains(s, u) /\ Shrunk(s, u)
    BY <1>0, HeldOperators, HeldSources DEF SameChains, Shrunk
  <2> QED BY <2>1, ShrunkOwn DEF SameChains
<1>2. r \in Store /\ OwnInv(r, signed)
  <2>1. SameChains(u, r) /\ Shrunk(u, r)
    BY <1>1, EntryFields, AdoptedFloorSame, AdoptedFloorSources DEF SameChains, Shrunk
  <2> QED BY <1>1, <2>1, ShrunkOwn DEF SameChains
<1>3. CASE outcome \in {"ok", "restore"}
  <2>1. t = InsertEntry(u, e, pending)
    BY <1>3 DEF AcceptRowEntry
  <2> QED BY <1>1, <2>1, InsertOwn
<1>4. CASE outcome = "root"
  <2>1. t = InsertEntry(r, e, pending)
    BY <1>4 DEF AcceptRowEntry
  <2> QED BY <1>2, <2>1, InsertOwn
<1>5. CASE outcome = "gap"
  <2>1. t = RetainGapped(u, e)
    BY <1>5 DEF AcceptRowEntry
  <2>2. t.accepted = u.accepted /\ t.tip = u.tip /\ t.gapped \subseteq u.gapped \cup {e}
    BY <1>1, <2>1, HeldOperators, HeldSources DEF SameChains
  <2> HIDE DEF t, u
  <2>3. OwnInv(t, signed)
    BY <1>1, <2>2 DEF OwnInv
  <2> QED BY <2>3 DEF t
<1>6. CASE outcome = "conflict"
  <2>1. t = u
    BY <1>6 DEF AcceptRowEntry
  <2> QED BY <1>1, <2>1
<1>7. CASE outcome \notin {"ok", "restore", "root", "gap", "conflict"}
  <2>1. t = s
    BY <1>7 DEF AcceptRowEntry
  <2> QED BY <2>1
<1> QED BY <1>3, <1>4, <1>5, <1>6, <1>7

-----------------------------------------------------------------------------
(* The invariant is inductive *)

\* Nothing is signed at the start.
LEMMA InitAInv ==
    ASSUME Init
    PROVE  AInv
<1>1. db.accepted = {} /\ db.gapped = {} /\ db.tip = [d \in Device |-> NoCursor]
  BY DEF Init, EmptyStore
<1>2. db.tip[Local] = NoCursor
  BY <1>1, LocalAssumption
<1> QED BY <1>1, <1>2 DEF Init, AInv, OwnInv, FollowsEarlier, NoSelfFork

\* A step that signs nothing and keeps the local part of the stores.
LEMMA UnsignedStep ==
    ASSUME AInv, authored' = authored, OwnInv(db', authored),
           tx' # NoTx => OwnInv(tx'.s, authored)
    PROVE  AInv'
BY DEF AInv, NoSelfFork

\* Receiving an entry, an own one served back included.
LEMMA ReceiveAInv ==
    ASSUME IInv, AInv, NEW e \in Deliverable, NEW floor \in Cursor, NEW tip \in Cursor,
           NEW pending \in BOOLEAN, Receive(e, floor, tip, pending)
    PROVE  AInv'
<1> DEFINE r == Recorded(db)
           s == AcceptRowEntry(r, e, floor, pending)
<1>r. StoreInv(r) /\ Shrunk(db, r)
  BY DropFields, SameChainsInv DEF IInv, StoreInv, Recorded, Shrunk
<1> HIDE DEF r
<1>0. /\ e \in Entry /\ (e.dev = Local => e \in authored) /\ authored \in SUBSET Entry
      /\ db.floor[e.dev] \in Cursor /\ e.dev \in Device
  BY StoreFields, EntryFields DEF Deliverable, IInv, StoreInv
<1>1. StoreInv(s) /\ s \in Store /\ OwnInv(s, authored)
  <2>1. OwnInv(r, authored)
    BY <1>r, ShrunkOwn DEF AInv
  <2> QED BY <1>0, <1>r, <2>1, AcceptInv, AcceptOwn DEF StoreInv
<1>2. authored' = authored
  BY DEF Receive
<1>3. CASE AcceptOutcome(r, e, floor) \in StoringOutcomes
  <2>1. tx' = StartDrain(s, e, db.floor[e.dev], tip) /\ db' = db
    BY <1>3 DEF Receive, r
  <2> HIDE DEF s
  <2>2. tx'.s = s \/ tx'.s = DiscardForeignCitations(s, e.dev, e.hash)
    BY <2>1 DEF StartDrain
  <2>3. Shrunk(s, s) /\ Shrunk(s, DiscardForeignCitations(s, e.dev, e.hash))
    BY <1>0, <1>1, HeldOperators, HeldSources DEF SameChains, Shrunk
  <2>4. OwnInv(tx'.s, authored)
    BY <1>1, <2>2, <2>3, ShrunkOwn
  <2> QED BY <1>2, <2>1, <2>4, UnsignedStep DEF AInv
<1>4. CASE AcceptOutcome(r, e, floor) \notin StoringOutcomes
  <2>1. db' = SettleCoverage(s, e.dev, db.floor[e.dev], tip) /\ tx' = NoTx
    BY <1>4 DEF Receive, r
  <2> HIDE DEF s
  <2>2. Shrunk(s, db')
    BY <1>0, <1>1, <2>1, SettleCoverageSame, SettleSources DEF SameChains, Shrunk
  <2> QED BY <1>1, <1>2, <2>1, <2>2, ShrunkOwn, UnsignedStep
<1> QED BY <1>3, <1>4

\* Each turn of the promotion loop, and the commit.
LEMMA DrainStepAInv ==
    ASSUME IInv, AInv, DrainStep
    PROVE  AInv'
<1>0. /\ tx # NoTx /\ tx \in TxType /\ StoreInv(tx.s) /\ tx.s \in Store
      /\ OwnInv(tx.s, authored) /\ OwnInv(db, authored) /\ authored \in SUBSET Entry
  BY DEF IInv, AInv, StoreInv, DrainStep, DrainChild, DrainSiblingsDone, DrainAdvance, Commit
<1>1. ASSUME NEW c \in Entry, NEW pending \in BOOLEAN, DrainChild(c, pending)
      PROVE  AInv'
  <2> DEFINE taken == Unparked(tx.s, c)
             s == AcceptRowEntry(taken, c, NoCursor, pending)
             f == DiscardDescendants(s, c.hash)
  <2>1. c \in tx.s.gapped
    BY <1>1 DEF DrainChild, IsNextChild, HeldChildren, Held
  <2>2. c.dev = Local => c \in authored
    BY <1>0, <2>1 DEF OwnInv
  <2>3. StoreInv(taken) /\ Shrunk(tx.s, taken)
    BY <1>0, HeldOperators, HeldSources, SameChainsInv DEF SameChains, Shrunk
  <2>4. OwnInv(taken, authored)
    BY <1>0, <2>3, ShrunkOwn
  <2>5. StoreInv(s) /\ s \in Store /\ OwnInv(s, authored)
    BY <1>0, <2>2, <2>3, <2>4, CursorFields, AcceptInv, AcceptOwn DEF StoreInv
  <2>6. OwnInv(f, authored)
    <3>1. Shrunk(s, f)
      BY <2>5, HeldOperators, HeldSources DEF SameChains, Shrunk
    <3> QED BY <2>5, <3>1, ShrunkOwn
  <2>7. \/ tx' = NoTx
        \/ tx' = [tx EXCEPT !.s = s, !.slot = {c}]
        \/ tx' = [tx EXCEPT !.s = f]
    BY <1>1 DEF DrainChild
  <2>8. UNCHANGED <<db, authored>>
    BY <1>1 DEF DrainChild
  <2> HIDE DEF taken, s, f
  <2>9. tx' # NoTx => tx'.s = s \/ tx'.s = f
    BY <1>0, <2>7 DEF TxType
  <2> QED BY <1>0, <2>5, <2>6, <2>8, <2>9, UnsignedStep
<1>2. ASSUME DrainSiblingsDone
      PROVE  AInv'
  <2> DEFINE f == DiscardForeignCitations(tx.s, tx.signer, tx.accepted.hash)
  <2>1. Shrunk(tx.s, f)
    BY <1>0, HeldOperators, HeldSources DEF TxType, SameChains, Shrunk
  <2>2. tx' = [tx EXCEPT !.phase = "children", !.s = f, !.slot = {}]
        /\ UNCHANGED <<db, authored>>
    BY <1>2 DEF DrainSiblingsDone
  <2> HIDE DEF f
  <2>3. tx'.s = f
    BY <1>0, <2>2 DEF TxType
  <2> QED BY <1>0, <2>1, <2>2, <2>3, ShrunkOwn, UnsignedStep
<1>3. ASSUME NEW c \in Entry, DrainAdvance(c)
      PROVE  AInv'
  <2>1. tx'.s = tx.s /\ UNCHANGED <<db, authored>>
    BY <1>0, <1>3 DEF DrainAdvance, TxType
  <2> QED BY <1>0, <2>1, UnsignedStep
<1>4. ASSUME Commit
      PROVE  AInv'
  <2>1. db' = SettleCoverage(tx.s, tx.signer, tx.floorBefore, tx.tip)
        /\ tx' = NoTx /\ UNCHANGED authored
    BY <1>4 DEF Commit
  <2>2. Shrunk(tx.s, db')
    BY <1>0, <2>1, SettleCoverageSame, SettleSources DEF TxType, SameChains, Shrunk
  <2> QED BY <1>0, <2>1, <2>2, ShrunkOwn, UnsignedStep
<1> QED BY <1>1, <1>2, <1>3, <1>4 DEF DrainStep

\* The new entry follows the last one signed, and becomes the last.
LEMMA AuthorAInv ==
    ASSUME IInv, AInv, NEW e \in Entry, Author(e)
    PROVE  AInv'
<1>0. /\ db \in Store /\ StoreInv(db) /\ Local \in Device /\ e.dev = Local
      /\ db' = InsertEntry(db, e, FALSE) /\ tx' = NoTx /\ authored' = authored \cup {e}
      /\ e.prev = ChainTail(db, Local).hash
  BY LocalAssumption DEF IInv, StoreInv, Author
<1>1. /\ db'.accepted = db.accepted \cup {e} /\ db'.gapped = db.gapped
      /\ db'.tip = [db.tip EXCEPT ![e.dev] =
                      IF db.tip[e.dev] = NoCursor \/ e.lam > db.tip[e.dev].lam
                      THEN CursorOf(e) ELSE db.tip[e.dev]]
  BY <1>0, InsertEntryFields
<1>2. db.tip[Local] # NoCursor => e.lam > db.tip[Local].lam
  BY <1>0, NextLamportPastTips DEF Author
<1>3. db'.tip[Local] = CursorOf(e)
  BY <1>0, <1>1, <1>2, StoreFields
<1>4. \A x \in authored : x \in Entry /\ x.lam < e.lam
  <2> SUFFICES ASSUME NEW x \in authored PROVE x \in Entry /\ x.lam < e.lam
    OBVIOUS
  <2>1. PICK m \in authored : /\ db.tip[Local] = CursorOf(m)
                              /\ \A y \in authored : y.lam <= m.lam
    BY DEF AInv, OwnInv
  <2>2. m \in Entry /\ x \in Entry
    BY DEF AInv
  <2> QED BY <1>2, <2>1, <2>2, EntryFields
<1>5. OwnInv(db', authored')
  <2>1. \A x \in authored' : x.lam <= e.lam
    BY <1>0, <1>4, EntryFields
  <2>2. \A x \in db'.accepted \cup db'.gapped : x.dev = Local => x \in authored'
    BY <1>0, <1>1 DEF AInv, OwnInv
  <2> QED BY <1>0, <1>3, <2>1, <2>2 DEF OwnInv
<1>6. CASE authored = {}
  <2>1. authored' = {e}
    BY <1>0, <1>6
  <2>2. e.prev = NoHash
    <3>1. db.tip[Local] = NoCursor
      BY <1>6 DEF AInv, OwnInv
    <3>2. Chain(db, Local) = {}
      BY <1>0, <3>1, TailIsTip
    <3> QED BY <1>0, <3>2, CursorFields DEF ChainTail, NoHash
  <2> QED BY <1>0, <1>5, <2>1, <2>2 DEF AInv, FollowsEarlier, NoSelfFork
<1>7. CASE authored # {}
  <2>1. PICK m \in authored : /\ db.tip[Local] = CursorOf(m)
                              /\ \A x \in authored : x.lam <= m.lam
    BY <1>7 DEF AInv, OwnInv
  <2>2. m \in Entry /\ m.lam < e.lam
    BY <1>4, <2>1
  <2>3. e.prev = m.hash
    BY <1>0, <2>1, <2>2, EntryFields DEF Author
  \* No earlier entry follows m: what it follows is below it, hence below m.
  <2>4. \A x \in authored : x.prev # m.hash
    <3> SUFFICES ASSUME NEW x \in authored, x.prev = m.hash PROVE FALSE
      OBVIOUS
    <3>1. m.hash # NoHash
      BY <2>2, EntryFields DEF NoHash
    <3>2. PICK y \in authored : y.hash = x.prev /\ y.lam < x.lam
      BY <3>1 DEF AInv, FollowsEarlier
    <3>3. y \in Entry /\ x \in Entry
      BY <1>4
    <3>4. y = m
      BY <2>2, <3>2, <3>3, EntryAssumption
    <3> QED BY <2>1, <2>2, <3>2, <3>3, <3>4, EntryFields
  <2>5. NoSelfFork'
    BY <1>0, <2>3, <2>4 DEF AInv, NoSelfFork
  <2>6. FollowsEarlier(authored')
    BY <1>0, <2>1, <2>2, <2>3 DEF AInv, FollowsEarlier
  <2>7. \A x \in authored' : x \in Entry /\ x.dev = Local
    BY <1>0 DEF AInv
  <2> QED BY <1>0, <1>5, <2>5, <2>6, <2>7 DEF AInv
<1> QED BY <1>6, <1>7

\* Every step keeps what is known of the own chain; only Author adds to it.
LEMMA NextAInv ==
    ASSUME IInv, AInv, [Next]_vars
    PROVE  AInv'
<1>0. /\ StoreInv(db) /\ db \in Store /\ OwnInv(db, authored)
      /\ (tx # NoTx => OwnInv(tx.s, authored))
  BY DEF IInv, AInv, StoreInv
\* A step of a writer that only drops entries.
<1>1. ASSUME Shrunk(db, db'), tx = NoTx, tx' = tx, authored' = authored
      PROVE  AInv'
  BY <1>0, <1>1, ShrunkOwn, UnsignedStep
<1>2. ASSUME NEW e \in Deliverable, NEW pending \in BOOLEAN,
             Receive(e, NoCursor, NoCursor, pending)
      PROVE  AInv'
  BY <1>2, CursorFields, ReceiveAInv
<1>3. ASSUME NEW e \in Deliverable, NEW t \in Deliverable, NEW pending \in BOOLEAN,
             Receive(e, CursorOf(e), CursorOf(t), pending)
      PROVE  AInv'
  <2>1. CursorOf(e) \in Cursor /\ CursorOf(t) \in Cursor
    BY EntryFields DEF Deliverable
  <2> QED BY <1>3, <2>1, ReceiveAInv
<1>4. ASSUME DrainStep PROVE AInv'
  BY <1>4, DrainStepAInv
<1>5. ASSUME Rollback PROVE AInv'
  BY <1>0, <1>5, UnsignedStep DEF Rollback
<1>6. ASSUME NEW e \in Entry, Author(e) PROVE AInv'
  BY <1>6, AuthorAInv
<1>7. ASSUME NEW e \in Entry, Replay(e) PROVE AInv'
  <2>1. db' = [db EXCEPT !.pending = db.pending \ {e}] /\ tx' = tx /\ tx = NoTx
        /\ authored' = authored
    BY <1>7 DEF Replay
  <2>2. Shrunk(db, db')
    BY <1>0, <2>1 DEF Store, Shrunk
  <2> QED BY <1>1, <2>1, <2>2
<1>8. ASSUME NEW floors \in SUBSET db.accepted, Compact(floors) PROVE AInv'
  <2>1. db' = CompactPrefixes(db, floors) /\ tx' = tx /\ tx = NoTx
        /\ authored' = authored
    BY <1>8 DEF Compact
  <2>2. Shrunk(db, db')
    BY <1>0, <2>1 DEF CompactPrefixes, Store, Shrunk
  <2> QED BY <1>1, <2>1, <2>2
<1>9. ASSUME NEW expired \in SUBSET db.gapped, SweepExpiredGapped(expired) PROVE AInv'
  <2> DEFINE G == db.gapped \ (expired \cup UNION {HeldDescendants(db, g.hash) : g \in expired})
  <2>1. db' = [db EXCEPT !.gapped = G] /\ tx' = tx /\ tx = NoTx
        /\ authored' = authored
    BY <1>9 DEF SweepExpiredGapped
  <2>2. G \subseteq db.gapped
    OBVIOUS
  <2> HIDE DEF G
  <2>3. Shrunk(db, db')
    BY <1>0, <2>1, <2>2 DEF Store, Shrunk
  <2> QED BY <1>1, <2>1, <2>3
<1>10. ASSUME PurgeRepo PROVE AInv'
  <2>1. db' = [db EXCEPT !.accepted = {}, !.pending = {}, !.gapped = {},
                         !.floor = [d \in Device |-> NoCursor]]
        /\ tx' = tx /\ tx = NoTx /\ authored' = authored
    BY <1>10 DEF PurgeRepo
  <2>2. db'.tip = db.tip /\ db'.accepted = {} /\ db'.gapped = {}
    BY <1>0, <2>1, PurgeInv
  <2> QED BY <1>1, <2>1, <2>2 DEF Shrunk
<1>11. ASSUME NEW roster \in Rosters, NEW others, ChangeRoster(roster, others) PROVE AInv'
  <2>1. tx' = tx /\ tx = NoTx /\ authored' = authored
    BY <1>11 DEF ChangeRoster
  <2>2. Shrunk(db, db')
    BY <1>0, <1>11, RosterStep DEF Shrunk
  <2> QED BY <1>1, <2>1, <2>2
<1>12. ASSUME RecordContext \/ OtherContact PROVE AInv'
  BY <1>0, <1>12, UnsignedStep DEF RecordContext, OtherContact
<1>13. ASSUME UNCHANGED vars PROVE AInv'
  BY <1>0, <1>13, UnsignedStep DEF vars
<1> QED
  BY <1>2, <1>3, <1>4, <1>5, <1>6, <1>7, <1>8, <1>9, <1>10, <1>11, <1>12, <1>13 DEF Next

-----------------------------------------------------------------------------

\* sign_next_row_entry: across purges, rejoins, rollbacks, compaction and
\* roster changes, the device never signs two successors of one entry, nor
\* two beginnings.
THEOREM NeverForksItself == Spec => []NoSelfFork
<1>1. Init => AInv
  BY InitAInv
<1>2. IInv /\ AInv /\ [Next]_vars => AInv'
  BY NextAInv
<1>3. AInv => NoSelfFork
  BY DEF AInv
<1> QED BY <1>1, <1>2, <1>3, Invariance, PTL DEF Spec

-----------------------------------------------------------------------------
(* Held entries: the inductive invariant *)

\* Every held entry could be ingested now without a Lamport error.
Promotable(s) == \A g \in s.gapped : WithinLamportBounds(s, g)

\* e is at or below the floor, the lowest of its chain, or linked to the
\* accepted entry right below it.
Linked(s, e) ==
    \/ s.floor[e.dev] # NoCursor /\ e.lam <= s.floor[e.dev].lam
    \/ \A x \in Chain(s, e.dev) : x.lam >= e.lam
    \/ \E p \in Chain(s, e.dev) :
         /\ p.hash = e.prev /\ p.lam < e.lam
         /\ \A x \in Chain(s, e.dev) : x.lam <= p.lam \/ x.lam >= e.lam

AllLinked(s) == \A e \in s.accepted : Linked(s, e)

\* What is held is neither accepted nor below the retained floor.
Shelved(s) == \A g \in s.gapped : g \notin s.accepted /\ ~BelowFloor(s, g)

HoldingInv(s) == Promotable(s) /\ AllLinked(s) /\ Shelved(s)

\* A held entry whose predecessor is accepted is on d's chain and cites one
\* of the hashes S: those the promotion loop has still to drain for.
WaitsFor(s, d, S) ==
    \A g \in s.gapped : \A e \in Chain(s, g.dev) :
        e.hash = g.prev => g.dev = d /\ g.prev \in S

NotStranded(s) == \A g \in s.gapped : \A e \in Chain(s, g.dev) : e.hash # g.prev

\* An obligation's tip is not here.
Outstanding(s) ==
    \A d \in Device :
        s.cover[d] # NoObligation => \A e \in Chain(s, d) : CursorOf(e) # s.cover[d].tip

\* In a transaction x: the entry the loop drains for is the tail of the
\* signer's chain until a child takes the slot after it.
LoopAtTail(x) ==
    \/ /\ x.slot = {}
       /\ x.s.tip[x.signer] = CursorOf(x.accepted)
    \/ /\ x.phase = "children"
       /\ \E c \in Chain(x.s, x.signer) :
             /\ x.slot = {c} /\ c # x.accepted
             /\ x.s.tip[x.signer] = CursorOf(c)

\* The hashes whose held children the loop still has to look at.
ToDrain(x) ==
    IF x.phase = "siblings" THEN {x.accepted.prev, x.accepted.hash}
    ELSE {x.accepted.hash} \cup {c.hash : c \in x.slot}

LoopInv(x) ==
    /\ x.accepted \in Chain(x.s, x.signer)
    /\ LoopAtTail(x)
    /\ WaitsFor(x.s, x.signer, ToDrain(x))

\* The transaction touches one chain of the committed store s, drops the
\* obligations of the removals W that waited for it, and settles coverage
\* only at its end.
OneChainOpen(s, x, W) ==
    /\ \A d \in Device : x.s.cover[d] = IF d \in W THEN NoObligation ELSE s.cover[d]
    /\ x.floorBefore = s.floor[x.signer]
    /\ \A d \in Device \ {x.signer} : Chain(x.s, d) = Chain(s, d)
    /\ x.s.floor[x.signer] = x.floorBefore \/ Rerooted(s, x.s, x.signer)

HInv ==
    /\ IInv /\ dir \in Directory
    /\ HoldingInv(db) /\ NotStranded(db) /\ Outstanding(db)
    /\ tx # NoTx => HoldingInv(tx.s) /\ LoopInv(tx) /\ OneChainOpen(db, tx, dir.waiting)

\* An obligation changes only with its tip delivered, its chain re-rooted or
\* its device removed: one step of ObligationKept.
CoverKept ==
    \A d \in Device :
        db.cover[d] # NoObligation /\ db'.cover[d] # db.cover[d] =>
            \/ \E e \in Chain(db', d) : CursorOf(e) = db.cover[d].tip
            \/ Rerooted(db, db', d)
            \/ d \in RemovedBy(dir'.removedAt) /\ d \notin db'.writers
            \/ d \in dir.waiting /\ dir'.known

-----------------------------------------------------------------------------
(* Steps keep the held entries and the chains in order *)

\* The stream clock only advances with its witnesses, so what was within its
\* bounded advance stays so: a purge keeps the witnesses for this too.
LEMMA BoundsAdvance ==
    ASSUME NEW s, NEW t, StoreInv(s), StoreInv(t), TipsAdvance(s, t),
           NEW g \in Entry, WithinLamportBounds(s, g)
    PROVE  WithinLamportBounds(t, g)
<1> USE EntryFields, CursorFields, BoundsAssumption
<1>0. s \in Store /\ t \in Store
  BY DEF StoreInv
<1>1. CASE g.lam <= MaxLamportAdvance
  BY <1>1 DEF WithinLamportBounds
<1>2. CASE ~(g.lam <= MaxLamportAdvance)
  <2>1. PICK m \in StreamLamports(s) : g.lam <= m + MaxLamportAdvance
    BY <1>2 DEF WithinLamportBounds
  <2>2. \E d \in Device : s.tip[d] # NoCursor /\ m <= s.tip[d].lam /\ m \in Nat
    <3>1. ASSUME NEW e \in s.accepted, m = e.lam
          PROVE  \E d \in Device : s.tip[d] # NoCursor /\ m <= s.tip[d].lam /\ m \in Nat
      <4>1. e \in Entry /\ e \in Chain(s, e.dev) /\ e.dev \in Device
        BY <1>0, StoreFields DEF Chain
      <4>2. PICK h \in Chain(s, e.dev) : s.tip[e.dev] = CursorOf(h)
                                       /\ \A x \in Chain(s, e.dev) : x.lam <= h.lam
        BY <4>1 DEF StoreInv, TailWitnessed
      <4>3. h \in Entry
        BY <1>0, StoreFields DEF Chain
      <4> QED BY <3>1, <4>1, <4>2, <4>3
    <3>2. ASSUME NEW d \in Device, s.tip[d] # NoCursor, m = s.tip[d].lam
          PROVE  s.tip[d] # NoCursor /\ m <= s.tip[d].lam /\ m \in Nat
      BY <1>0, <3>2, StoreFields
    <3> QED BY <3>1, <3>2 DEF StreamLamports
  <2>3. PICK d \in Device : s.tip[d] # NoCursor /\ m <= s.tip[d].lam /\ m \in Nat
    BY <2>2
  <2>4. s.tip[d] \in Cursor /\ t.tip[d] \in Cursor
    BY <1>0, StoreFields
  <2>5. t.tip[d] # NoCursor /\ s.tip[d].lam <= t.tip[d].lam
    BY <2>3, <2>4 DEF TipsAdvance
  <2>6. t.tip[d].lam \in StreamLamports(t)
    BY <2>5 DEF StreamLamports
  <2>7. g.lam <= t.tip[d].lam + MaxLamportAdvance
    <3>1. g.lam \in Nat /\ m \in Nat /\ s.tip[d].lam \in Nat /\ t.tip[d].lam \in Nat
      BY <2>3, <2>4
    <3> QED BY <2>1, <2>3, <2>5, <3>1
  <2> QED BY <2>6, <2>7 DEF WithinLamportBounds
<1> QED BY <1>1, <1>2

\* The same chains, witnesses and floors, and no more held entries.
NoMoreHeld(s, t) ==
    /\ t.accepted = s.accepted /\ t.tip = s.tip /\ t.floor = s.floor
    /\ t.gapped \subseteq s.gapped

\* Letting held entries go disturbs nothing.
LEMMA HoldingShrinks ==
    ASSUME NEW s, NEW t, HoldingInv(s), NoMoreHeld(s, t)
    PROVE  HoldingInv(t)
<1>1. (\A d : Chain(t, d) = Chain(s, d)) /\ \A e : BelowFloor(t, e) <=> BelowFloor(s, e)
  BY DEF NoMoreHeld, Chain, BelowFloor
<1>2. StreamLamports(t) = StreamLamports(s)
  BY DEF StreamLamports, NoMoreHeld
<1>3. Promotable(t)
  BY <1>2 DEF HoldingInv, Promotable, WithinLamportBounds, NoMoreHeld
<1>4. AllLinked(t)
  BY <1>1 DEF HoldingInv, AllLinked, Linked, NoMoreHeld
<1>5. Shelved(t)
  BY <1>1 DEF HoldingInv, Shelved, NoMoreHeld
<1> QED BY <1>3, <1>4, <1>5 DEF HoldingInv

\* Nor does parking an entry that passed the bounds.
LEMMA HoldingParks ==
    ASSUME NEW s, NEW t, NEW e, HoldingInv(s), WithinLamportBounds(s, e), Parks(s, t, e)
    PROVE  HoldingInv(t)
<1>1. (\A d : Chain(t, d) = Chain(s, d)) /\ \A x : BelowFloor(t, x) <=> BelowFloor(s, x)
  BY SameButHeldChains DEF Parks
<1>2. StreamLamports(t) = StreamLamports(s)
  BY DEF StreamLamports, SameButHeld, Parks
<1>3. Promotable(t)
  BY <1>2 DEF HoldingInv, Promotable, WithinLamportBounds, Parks
<1>4. AllLinked(t)
  BY <1>1 DEF HoldingInv, AllLinked, Linked, SameButHeld, Parks
<1>5. Shelved(t)
  BY <1>1 DEF HoldingInv, Shelved, SameButHeld, Parks
<1> QED BY <1>3, <1>4, <1>5 DEF HoldingInv

\* Storing an entry on top keeps every link below it and the held entries
\* clear of the chain and its floor.
LEMMA HoldingStores ==
    ASSUME NEW s, NEW t, NEW e \in Entry, NEW floor,
           StoreInv(s), StoreInv(t), TipsAdvance(s, t), HoldingInv(s),
           Stores(s, t, e, floor)
    PROVE  HoldingInv(t)
<1> USE EntryFields, CursorFields
<1>0. /\ s \in Store /\ t \in Store /\ e.dev \in Device
      /\ s.accepted \subseteq Entry /\ s.gapped \subseteq Entry
      /\ s.floor \in [Device -> Cursor]
  BY StoreFields DEF StoreInv
<1>1. /\ Chain(t, e.dev) = Chain(s, e.dev) \cup {e}
      /\ \A d : d # e.dev => Chain(t, d) = Chain(s, d)
      /\ \A d \in Device : d # e.dev => t.floor[d] = s.floor[d]
  BY <1>0 DEF Stores, Chain
<1>2. Promotable(t)
  <2> SUFFICES ASSUME NEW g \in t.gapped PROVE WithinLamportBounds(t, g)
    BY DEF Promotable
  <2>1. g \in s.gapped /\ g \in Entry
    BY <1>0 DEF Stores
  <2> QED BY <2>1, BoundsAdvance DEF HoldingInv, Promotable
\* The floor of the entry's chain stays, or rises to the entry.
<1>3. \/ t.floor[e.dev] = s.floor[e.dev]
      \/ /\ t.floor[e.dev] = CursorOf(e)
         /\ s.floor[e.dev] = NoCursor \/ e.lam > s.floor[e.dev].lam
         /\ \A g \in t.gapped : ~(g.dev = e.dev /\ g.lam < e.lam)
  BY <1>0 DEF Stores
<1>4. Shelved(t)
  <2> SUFFICES ASSUME NEW g \in t.gapped PROVE g \notin t.accepted /\ ~BelowFloor(t, g)
    BY DEF Shelved
  <2>1. g \in s.gapped /\ g # e /\ g \notin s.accepted /\ ~BelowFloor(s, g) /\ g \in Entry
    BY <1>0 DEF Stores, HoldingInv, Shelved
  <2>2. g \notin t.accepted
    BY <2>1 DEF Stores
  <2>3. ~BelowFloor(t, g)
    BY <1>1, <1>3, <2>1 DEF BelowFloor
  <2> QED BY <2>2, <2>3
<1>5. AllLinked(t)
  <2> SUFFICES ASSUME NEW x \in t.accepted PROVE Linked(t, x)
    BY DEF AllLinked
  <2>1. CASE x = e
    <3>1. CASE floor = CursorOf(e) /\ t.floor[e.dev] # s.floor[e.dev]
      BY <1>3, <2>1, <3>1 DEF Linked
    <3>2. CASE t.floor[e.dev] = s.floor[e.dev] /\ s.floor[e.dev] # NoCursor /\ e.lam <= s.floor[e.dev].lam
      BY <2>1, <3>2 DEF Linked
    <3>3. CASE Chain(s, e.dev) = {}
      BY <1>1, <2>1, <3>3 DEF Linked
    <3>4. ASSUME NEW p \in Chain(s, e.dev), p.hash = e.prev,
                 \A y \in Chain(s, e.dev) : y.lam <= p.lam
          PROVE  Linked(t, e)
      BY <1>1, <3>4 DEF Linked, Stores
    <3> QED BY <1>0, <2>1, <3>1, <3>2, <3>3, <3>4 DEF Stores
  <2>2. CASE x # e /\ x.dev = e.dev
    <3>1. x \in Chain(s, e.dev) /\ x \in s.accepted /\ x \in Entry /\ x.lam < e.lam
      BY <1>0, <2>2 DEF Stores, Chain
    <3>2. Linked(s, x)
      BY <3>1 DEF HoldingInv, AllLinked
    <3>3. CASE s.floor[e.dev] # NoCursor /\ x.lam <= s.floor[e.dev].lam
      BY <1>0, <1>3, <2>2, <3>1, <3>3 DEF Linked
    <3>4. CASE \A y \in Chain(s, e.dev) : y.lam >= x.lam
      BY <1>1, <2>2, <3>1, <3>4 DEF Linked
    <3>5. ASSUME NEW p \in Chain(s, e.dev), p.hash = x.prev, p.lam < x.lam,
                 \A y \in Chain(s, e.dev) : y.lam <= p.lam \/ y.lam >= x.lam
          PROVE  Linked(t, x)
      BY <1>1, <2>2, <3>1, <3>5 DEF Linked
    <3> QED BY <2>2, <3>2, <3>3, <3>4, <3>5 DEF Linked
  <2>3. CASE x.dev # e.dev
    <3>1. x \in s.accepted /\ x.dev \in Device
      BY <1>0, <2>3 DEF Stores
    <3> QED BY <1>1, <2>3, <3>1 DEF HoldingInv, AllLinked, Linked
  <2> QED BY <2>1, <2>2, <2>3
<1> QED BY <1>2, <1>4, <1>5 DEF HoldingInv

\* Storing e adds e to what held entries may wait behind.
LEMMA WaitsStores ==
    ASSUME NEW s, NEW t, NEW e \in Entry, NEW floor, NEW S,
           WaitsFor(s, e.dev, S), Stores(s, t, e, floor)
    PROVE  WaitsFor(t, e.dev, S \cup {e.hash})
BY DEF WaitsFor, Stores, Chain

\* Parking an entry, or letting entries go, adds nothing.
LEMMA WaitsParks ==
    ASSUME NEW s, NEW t, NEW e, NEW d, NEW S, WaitsFor(s, d, S), Parks(s, t, e)
    PROVE  WaitsFor(t, d, S)
<1>1. \A x : Chain(t, x) = Chain(s, x)
  BY SameButHeldChains DEF Parks
<1> QED BY <1>1 DEF WaitsFor, Parks

\* The same where held entries only go.
LEMMA WaitsShrinks ==
    ASSUME NEW s, NEW t, NEW d, NEW S, WaitsFor(s, d, S), NoMoreHeld(s, t)
    PROVE  WaitsFor(t, d, S)
<1>1. \A x : Chain(t, x) = Chain(s, x)
  BY DEF NoMoreHeld, Chain
<1> QED BY <1>1 DEF WaitsFor, NoMoreHeld

\* What was waited for and has no held child left is waited for no more.
LEMMA WaitsDrained ==
    ASSUME NEW s, NEW d, NEW S, NEW h, WaitsFor(s, d, S), HeldChildren(s, d, h) = {}
    PROVE  WaitsFor(s, d, S \ {h})
BY DEF WaitsFor, HeldChildren, Held

\* Waiting for few is waiting for more.
LEMMA WaitsMore ==
    ASSUME NEW s, NEW d, NEW S, NEW R, WaitsFor(s, d, S), S \subseteq R
    PROVE  WaitsFor(s, d, R)
BY DEF WaitsFor

\* Nothing is stranded where nothing may be waited for.
LEMMA WaitsNone ==
    ASSUME NEW s, NEW d
    PROVE  NotStranded(s) <=> WaitsFor(s, d, {})
BY DEF NotStranded, WaitsFor

\* coverage::record and clear_delivered, exactly: one row of one table, gone
\* only with the delivery of its tip unless the floor moved.
Settles(s, t, d, before) ==
    /\ t \in Store
    /\ t.accepted = s.accepted /\ t.pending = s.pending /\ t.tip = s.tip
    /\ t.floor = s.floor /\ t.gapped = s.gapped /\ t.writers = s.writers
    /\ \A c \in Device \ {d} : t.cover[c] = s.cover[c]
    /\ t.cover[d] # NoObligation => \A e \in Chain(s, d) : CursorOf(e) # t.cover[d].tip
    /\ \/ s.floor[d] # before
       \/ t.cover[d] = s.cover[d]
       \/ \E e \in Chain(s, d) : CursorOf(e) = s.cover[d].tip

\* What the coverage step that ends an ingest leaves.
LEMMA SettleTable ==
    ASSUME NEW s \in Store, NEW d \in Device, NEW before, NEW tip \in Cursor
    PROVE  Settles(s, SettleCoverage(s, d, before, tip), d, before)
<1> USE StoreFields, CursorFields
<1>1. ASSUME NEW u \in Store, NEW o \in Obligation
      PROVE  LET t == [u EXCEPT !.cover[d] = o] IN
             /\ t \in Store
             /\ t.accepted = u.accepted /\ t.pending = u.pending /\ t.tip = u.tip
             /\ t.floor = u.floor /\ t.gapped = u.gapped /\ t.writers = u.writers
             /\ t.cover[d] = o /\ \A c \in Device \ {d} : t.cover[c] = u.cover[c]
  <2> DEFINE f == [u.cover EXCEPT ![d] = o]
  <2>1. f \in [Device -> Obligation]
    OBVIOUS
  <2>2. f[d] = o /\ \A c \in Device \ {d} : f[c] = u.cover[c]
    OBVIOUS
  <2>3. [u EXCEPT !.cover[d] = o] = [u EXCEPT !.cover = f]
    BY DEF Store
  <2> HIDE DEF f
  <2> QED BY <2>1, <2>2, <2>3 DEF Store
<1> DEFINE r == RecordCoverage(s, d, before, tip)
           t == ClearDelivered(r, d)
<1>2. /\ r \in Store
      /\ r.accepted = s.accepted /\ r.pending = s.pending /\ r.tip = s.tip
      /\ r.floor = s.floor /\ r.gapped = s.gapped /\ r.writers = s.writers
      /\ \A c \in Device \ {d} : r.cover[c] = s.cover[c]
      /\ s.floor[d] # before \/ r.cover[d] = s.cover[d]
  <2>1. [floor |-> s.floor[d].lam, tip |-> tip] \in Obligation
    BY DEF Obligation
  <2>2. CASE s.floor[d] = before
    BY <2>2 DEF RecordCoverage
  <2>3. CASE s.floor[d] # before
    <3>1. r = [s EXCEPT !.cover[d] = [floor |-> s.floor[d].lam, tip |-> tip]]
      BY <2>3 DEF RecordCoverage
    <3> QED BY <2>1, <2>3, <3>1, <1>1
  <2> QED BY <2>2, <2>3
<1> HIDE DEF r
<1>3. Chain(r, d) = Chain(s, d)
  BY <1>2 DEF Chain
<1>4. CASE \E e \in Chain(r, d) : CursorOf(e) = r.cover[d].tip
  <2>1. t = [r EXCEPT !.cover[d] = NoObligation]
    BY <1>4 DEF ClearDelivered
  <2>2. /\ t \in Store
        /\ t.accepted = r.accepted /\ t.pending = r.pending /\ t.tip = r.tip
        /\ t.floor = r.floor /\ t.gapped = r.gapped /\ t.writers = r.writers
        /\ t.cover[d] = NoObligation /\ \A c \in Device \ {d} : t.cover[c] = r.cover[c]
    BY <1>1, <1>2, <2>1
  <2> HIDE DEF t
  <2>3. Settles(s, t, d, before)
    BY <1>2, <1>3, <1>4, <2>2 DEF Settles
  <2> QED BY <2>3 DEF SettleCoverage, t, r
<1>5. CASE ~\E e \in Chain(r, d) : CursorOf(e) = r.cover[d].tip
  <2>1. t = r
    BY <1>5 DEF ClearDelivered
  <2>2. Settles(s, r, d, before)
    BY <1>2, <1>3, <1>5 DEF Settles
  <2> QED BY <2>1, <2>2 DEF SettleCoverage, r
<1> QED BY <1>4, <1>5

\* compact_chain_prefix: entries above the new floor keep their links, and
\* what is held below it goes with the prefix.
LEMMA CompactHolding ==
    ASSUME NEW s, StoreInv(s), HoldingInv(s), NotStranded(s),
           NEW floors \in SUBSET s.accepted,
           \A x \in floors : x \in CompactionTargets(s, x.dev),
           \A x, y \in floors : x.dev = y.dev => x = y
    PROVE  LET t == CompactPrefixes(s, floors) IN
           /\ HoldingInv(t) /\ NotStranded(t)
           /\ t.cover = s.cover /\ t.accepted \subseteq s.accepted
<1> DEFINE Below(e) == \E x \in floors : e.dev = x.dev /\ e.lam < x.lam
           A == {e \in s.accepted : Below(e) => e \in s.pending}
           G == {g \in s.gapped : ~Below(g)}
           F == [d \in Device |->
                    IF \E x \in floors : x.dev = d
                    THEN CursorOf(CHOOSE x \in floors : x.dev = d) ELSE s.floor[d]]
           t == CompactPrefixes(s, floors)
<1> USE EntryFields, CursorFields
<1>0. /\ s \in Store /\ s.accepted \subseteq Entry /\ s.gapped \subseteq Entry
      /\ s.floor \in [Device -> Cursor] /\ floors \subseteq Entry
  BY StoreFields DEF StoreInv
<1>1. A \subseteq s.accepted /\ G \subseteq s.gapped
  OBVIOUS
<1>2. \A x \in floors : F[x.dev] = CursorOf(x)
  <2> SUFFICES ASSUME NEW x \in floors PROVE F[x.dev] = CursorOf(x)
    OBVIOUS
  <2>1. (CHOOSE y \in floors : y.dev = x.dev) = x
    OBVIOUS
  <2> QED BY <1>0, <2>1
<1>3. \A d \in Device : (\A x \in floors : x.dev # d) => F[d] = s.floor[d]
  OBVIOUS
<1>4. t = [s EXCEPT !.accepted = A, !.gapped = G, !.floor = F]
  BY <1>0 DEF CompactPrefixes, Store
<1>5. \A e \in s.accepted : ~Below(e) => e \in A
  OBVIOUS
<1>6. \A g \in G : g \in s.gapped /\ ~Below(g)
  OBVIOUS
<1> HIDE DEF A, G, F
<1>7. t.accepted = A /\ t.gapped = G /\ t.floor = F /\ t.cover = s.cover /\ t.tip = s.tip
  BY <1>0, <1>4 DEF Store
<1>8. StoreInv(t) /\ TipsAdvance(s, t)
  BY <1>7, CompactInv, TipsAdvanceSame
<1> HIDE DEF t
<1>9. \A d : Chain(t, d) \subseteq Chain(s, d)
  BY <1>1, <1>7 DEF Chain
<1>10. Promotable(t)
  <2> SUFFICES ASSUME NEW g \in t.gapped PROVE WithinLamportBounds(t, g)
    BY DEF Promotable
  <2>1. g \in s.gapped /\ g \in Entry
    BY <1>0, <1>1, <1>7
  <2> QED BY <1>8, <2>1, BoundsAdvance DEF HoldingInv, Promotable
<1>11. Shelved(t)
  <2> SUFFICES ASSUME NEW g \in t.gapped PROVE g \notin t.accepted /\ ~BelowFloor(t, g)
    BY DEF Shelved
  <2>1. /\ g \in s.gapped /\ g \in Entry /\ ~Below(g)
        /\ g \notin s.accepted /\ ~BelowFloor(s, g)
    BY <1>0, <1>6, <1>7 DEF HoldingInv, Shelved
  <2>2. CASE \E x \in floors : x.dev = g.dev
    <3>1. PICK x \in floors : x.dev = g.dev
      BY <2>2
    <3>2. t.floor[g.dev].lam = x.lam /\ x.lam \in Nat /\ g.lam \in Nat
      BY <1>0, <1>2, <1>7, <2>1, <3>1
    <3>3. ~(g.lam < x.lam)
      BY <2>1, <3>1
    <3> QED BY <1>1, <1>7, <2>1, <3>2, <3>3 DEF BelowFloor
  <2>3. CASE \A x \in floors : x.dev # g.dev
    BY <1>1, <1>3, <1>7, <2>1, <2>3 DEF BelowFloor
  <2> QED BY <2>2, <2>3
<1>12. AllLinked(t)
  <2> SUFFICES ASSUME NEW e \in t.accepted PROVE Linked(t, e)
    BY DEF AllLinked
  <2>1. e \in s.accepted /\ e \in Entry /\ e.dev \in Device /\ Linked(s, e)
    BY <1>0, <1>1, <1>7 DEF HoldingInv, AllLinked
  <2>2. CASE \A x \in floors : x.dev # e.dev
    <3>1. Chain(t, e.dev) = Chain(s, e.dev)
      <4>1. \A y \in Chain(s, e.dev) : y \in s.accepted /\ ~Below(y)
        BY <2>2 DEF Chain
      <4>2. Chain(s, e.dev) \subseteq Chain(t, e.dev)
        BY <1>5, <1>7, <4>1 DEF Chain
      <4> QED BY <1>9, <4>2
    <3>2. t.floor[e.dev] = s.floor[e.dev]
      BY <1>3, <1>7, <2>1, <2>2
    <3> QED BY <2>1, <3>1, <3>2 DEF Linked
  <2>3. ASSUME NEW x \in floors, x.dev = e.dev PROVE Linked(t, e)
    <3>1. /\ t.floor[e.dev] = CursorOf(x) /\ x \in Entry
          /\ x \in Chain(s, e.dev) /\ x.lam > s.floor[e.dev].lam
      BY <1>0, <1>2, <1>7, <2>3 DEF CompactionTargets
    <3>2. CASE e.lam <= x.lam
      BY <3>1, <3>2 DEF Linked
    <3>3. CASE x.lam < e.lam
      \* e is above the old floor and not the lowest, so it was linked.
      <4>0. s.floor[e.dev] \in Cursor
        BY <1>0, <2>1
      <4>1. ~(s.floor[e.dev] # NoCursor /\ e.lam <= s.floor[e.dev].lam)
        BY <2>1, <3>1, <3>3, <4>0
      <4>2. ~(\A y \in Chain(s, e.dev) : y.lam >= e.lam)
        BY <2>1, <3>1, <3>3
      <4>3. PICK p \in Chain(s, e.dev) :
               /\ p.hash = e.prev /\ p.lam < e.lam
               /\ \A y \in Chain(s, e.dev) : y.lam <= p.lam \/ y.lam >= e.lam
        BY <2>1, <4>1, <4>2 DEF Linked
      <4>4. p \in Entry /\ p.dev = e.dev /\ p \in s.accepted
        BY <1>0, <4>3 DEF Chain
      <4>5. x.lam <= p.lam
        BY <2>1, <3>1, <3>3, <4>3, <4>4
      <4>6. ~Below(p)
        <5> SUFFICES ASSUME NEW y \in floors, p.dev = y.dev, p.lam < y.lam PROVE FALSE
          OBVIOUS
        <5>1. y = x
          BY <2>3, <4>4
        <5> QED BY <3>1, <4>4, <4>5, <5>1
      <4>7. p \in Chain(t, e.dev)
        BY <1>5, <1>7, <4>4, <4>6 DEF Chain
      <4> QED BY <1>9, <4>3, <4>7 DEF Linked
    <3> QED BY <2>1, <3>1, <3>2, <3>3
  <2> QED BY <2>2, <2>3
<1>13. NotStranded(t)
  BY <1>1, <1>7, <1>9 DEF NotStranded
<1> QED BY <1>1, <1>7, <1>10, <1>11, <1>12, <1>13 DEF HoldingInv, t

-----------------------------------------------------------------------------
(* The invariant is inductive *)

\* What the invariant says of the two stores' types.
LEMMA HInvTypes ==
    ASSUME HInv
    PROVE  /\ StoreInv(db) /\ db \in Store /\ db.cover \in [Device -> Obligation]
           /\ db.floor \in [Device -> Cursor]
           /\ tx # NoTx => /\ tx \in TxType /\ StoreInv(tx.s) /\ tx.s \in Store
                           /\ tx.signer \in Device /\ tx.accepted \in Entry
                           /\ tx.phase \in {"siblings", "children"}
                           /\ tx.tip \in Cursor
BY StoreFields DEF HInv, IInv, StoreInv, TxType

\* The loop starts on the stored entry, at its tail.
LEMMA StartDrainLoop ==
    ASSUME NEW s \in Store, NEW e \in Entry, NEW before, NEW tip,
           HoldingInv(s), e \in s.accepted, s.tip[e.dev] = CursorOf(e),
           WaitsFor(s, e.dev, {e.hash}),
           NEW x, x = StartDrain(s, e, before, tip)
    PROVE  /\ HoldingInv(x.s) /\ LoopInv(x) /\ x # NoTx
           /\ x.signer = e.dev /\ x.floorBefore = before
           /\ SameButHeld(s, x.s)
<1> DEFINE f == DiscardForeignCitations(s, e.dev, e.hash)
<1>1. /\ SameButHeld(s, f) /\ f.gapped \subseteq s.gapped
      /\ SameButHeld(s, s)
  BY HeldTable DEF SameButHeld
<1> HIDE DEF f
<1>2. /\ x.s = s \/ x.s = f
      /\ x.signer = e.dev /\ x.accepted = e /\ x.slot = {} /\ x.floorBefore = before
      /\ x.phase \in {"siblings", "children"}
  BY DEF StartDrain, f
<1>3. x # NoTx
  <2>1. DOMAIN NoTx = {"phase"} /\ "s" \in DOMAIN x
    BY DEF NoTx, StartDrain
  <2> QED BY <2>1
<1>4. SameButHeld(s, x.s) /\ NoMoreHeld(s, x.s)
  BY <1>1, <1>2 DEF SameButHeld, NoMoreHeld
<1>5. HoldingInv(x.s)
  BY <1>4, HoldingShrinks
<1>6. WaitsFor(x.s, x.signer, ToDrain(x))
  <2>1. WaitsFor(x.s, e.dev, {e.hash})
    BY <1>4, WaitsShrinks
  <2>2. {e.hash} \subseteq ToDrain(x)
    BY <1>2 DEF ToDrain
  <2> QED BY <1>2, <2>1, <2>2, WaitsMore
<1>7. x.accepted \in Chain(x.s, x.signer) /\ LoopAtTail(x)
  BY <1>2, <1>4 DEF Chain, LoopAtTail, SameButHeld
<1> QED BY <1>2, <1>3, <1>4, <1>5, <1>6, <1>7 DEF LoopInv

\* Receiving an entry, up to its acceptance.
LEMMA ReceiveHInv ==
    ASSUME HInv, IInv', dir' \in Directory, NEW e \in Entry, NEW floor \in Cursor, NEW tip \in Cursor,
           NEW pending \in BOOLEAN, Receive(e, floor, tip, pending)
    PROVE  HInv' /\ CoverKept
<1> DEFINE r == Recorded(db)
           s == AcceptRowEntry(r, e, floor, pending)
<1>0. /\ StoreInv(db) /\ db \in Store /\ e.dev \in Device /\ tx = NoTx
      /\ HoldingInv(db) /\ NotStranded(db) /\ Outstanding(db)
      /\ WithinLamportBounds(db, e) /\ db.floor \in [Device -> Cursor]
  BY HInvTypes, EntryFields DEF HInv, Receive
<1>r. /\ r \in Store /\ SameChains(db, r) /\ NoMoreHeld(db, r)
      /\ \A d \in Device : r.cover[d] = IF d \in dir.waiting THEN NoObligation ELSE db.cover[d]
  BY <1>0, DropFields DEF Recorded, NoMoreHeld
<1> HIDE DEF r
<1>h. /\ StoreInv(r) /\ HoldingInv(r) /\ NotStranded(r)
      /\ \A d : Chain(r, d) = Chain(db, d)
  BY <1>0, <1>r, SameChainsInv, HoldingShrinks, WaitsShrinks, WaitsNone DEF NoMoreHeld, Chain
<1>1. StoreInv(s) /\ TipsAdvance(db, s) /\ TipsAdvance(r, s) /\ s \in Store
  <2>1. StoreInv(s) /\ TipsAdvance(r, s)
    BY <1>h, AcceptInv
  <2> QED BY <1>r, <2>1 DEF TipsAdvance, StoreInv, NoMoreHeld
<1>2. WaitsFor(r, e.dev, {})
  BY <1>h, WaitsNone
<1>3. CASE AcceptOutcome(r, e, floor) \in StoringOutcomes
  <2>1. tx' = StartDrain(s, e, db.floor[e.dev], tip) /\ db' = db /\ dir' = dir
    BY <1>3 DEF Receive, r
  <2>2. Stores(r, s, e, floor)
    BY <1>h, <1>3, AcceptStores
  <2> HIDE DEF s
  <2>3. HoldingInv(s)
    BY <1>h, <1>1, <2>2, HoldingStores
  <2>4. WaitsFor(s, e.dev, {e.hash})
    <3>1. WaitsFor(s, e.dev, {} \cup {e.hash})
      BY <1>2, <2>2, WaitsStores
    <3> QED BY <3>1
  <2>5. e \in s.accepted /\ s.tip[e.dev] = CursorOf(e) /\ s.cover = r.cover
    BY <2>2 DEF Stores
  <2>6. /\ HoldingInv(tx'.s) /\ LoopInv(tx')
        /\ tx'.signer = e.dev /\ tx'.floorBefore = db.floor[e.dev]
        /\ SameButHeld(s, tx'.s)
    <3> DEFINE before == db.floor[e.dev]
    <3>1. tx' = StartDrain(s, e, before, tip)
      BY <2>1
    <3> HIDE DEF before
    <3>2. /\ HoldingInv(tx'.s) /\ LoopInv(tx')
          /\ tx'.signer = e.dev /\ tx'.floorBefore = before
          /\ SameButHeld(s, tx'.s)
      BY <1>1, <2>3, <2>4, <2>5, <3>1, StartDrainLoop
    <3> QED BY <3>2 DEF before
  <2>7. \A d \in Device \ {e.dev} : Chain(s, d) = Chain(db, d)
    BY <1>h, <2>2 DEF Stores, Chain
  <2>8. s.floor[e.dev] = db.floor[e.dev] \/ Rerooted(db, s, e.dev)
    <3>1. e \in Chain(s, e.dev) \ Chain(db, e.dev)
      BY <1>r, <2>2 DEF Stores, Chain, NoMoreHeld
    <3>2. db.tip[e.dev] \in {NoCursor, CursorOf(e)} \/ e.lam > db.tip[e.dev].lam
      BY <1>0, <1>1, <2>5, EntryFields DEF TipsAdvance
    <3>3. s.floor[e.dev] = db.floor[e.dev] \/ s.floor[e.dev] = CursorOf(e)
      BY <1>0, <1>r, <2>2 DEF Stores, NoMoreHeld
    <3> QED BY <3>1, <3>2, <3>3 DEF Rerooted
  <2>9. OneChainOpen(db, tx', dir'.waiting)
    <3>1. \A d : Chain(tx'.s, d) = Chain(s, d)
      BY <2>6, SameButHeldChains
    <3>2. Rerooted(db, s, e.dev) => Rerooted(db, tx'.s, e.dev)
      BY <2>6, <3>1 DEF Rerooted, SameButHeld
    <3> QED BY <1>r, <2>1, <2>5, <2>6, <2>7, <2>8, <3>1, <3>2 DEF OneChainOpen, SameButHeld
  <2>10. CoverKept
    BY <2>1 DEF CoverKept
  <2> QED BY <1>0, <2>1, <2>6, <2>9, <2>10 DEF HInv
<1>4. CASE AcceptOutcome(r, e, floor) \notin StoringOutcomes
  <2>1. db' = SettleCoverage(s, e.dev, db.floor[e.dev], tip) /\ tx' = NoTx
        /\ dir' = Contacted
    BY <1>0, <1>4 DEF Receive, r
  <2>2. Parks(r, s, e)
    BY <1>h, <1>4, AcceptKeeps
  <2> HIDE DEF s
  <2>3. HoldingInv(s)
    <3>1. WithinLamportBounds(r, e)
      BY <1>0, <1>r DEF WithinLamportBounds, StreamLamports, NoMoreHeld
    <3> QED BY <1>h, <2>2, <3>1, HoldingParks
  <2>4. WaitsFor(s, e.dev, {})
    BY <1>2, <2>2, WaitsParks
  <2>5. Settles(s, db', e.dev, db.floor[e.dev])
    BY <1>0, <1>1, <2>1, SettleTable
  <2>6. NoMoreHeld(s, db')
    BY <2>5 DEF Settles, NoMoreHeld
  <2>7. HoldingInv(db') /\ NotStranded(db')
    BY <2>3, <2>4, <2>6, HoldingShrinks, WaitsShrinks, WaitsNone
  <2>8. /\ s.cover = r.cover /\ s.floor = db.floor
        /\ \A d : Chain(s, d) = Chain(db, d)
        /\ \A d : Chain(db', d) = Chain(db, d)
    BY <1>r, <1>h, <2>2, <2>5, SameButHeldChains
       DEF Parks, SameButHeld, Settles, Chain, NoMoreHeld
  <2>9. Outstanding(db')
    BY <1>0, <1>r, <2>5, <2>8 DEF Outstanding, Settles
  <2>10. CoverKept
    <3>1. dir'.known
      BY <2>1 DEF HInv, Contacted, Directory
    <3> QED BY <1>r, <2>5, <2>8, <3>1 DEF CoverKept, Settles
  <2> QED BY <2>1, <2>7, <2>9, <2>10 DEF HInv
<1> QED BY <1>3, <1>4

\* A turn of the loop that moves neither obligations nor floors, and drops
\* nothing from the chain, leaves the transaction on its one chain.
LEMMA OpenCarries ==
    ASSUME NEW s, NEW x, NEW y, NEW W, x.signer \in Device, OneChainOpen(s, x, W),
           y.signer = x.signer, y.floorBefore = x.floorBefore,
           y.s.cover = x.s.cover, y.s.floor = x.s.floor,
           \A d \in Device \ {x.signer} : Chain(y.s, d) = Chain(x.s, d),
           Chain(x.s, x.signer) \subseteq Chain(y.s, x.signer)
    PROVE  OneChainOpen(s, y, W)
<1>1. Rerooted(s, x.s, x.signer) => Rerooted(s, y.s, x.signer)
  BY DEF Rerooted
<1> QED BY <1>1 DEF OneChainOpen

\* One turn of drain_children.  A sibling never takes the slot: the entry the
\* loop drains for is the tail, and a sibling does not cite it.  A second
\* child does not either.
LEMMA DrainChildHInv ==
    ASSUME HInv, IInv', dir' \in Directory, NEW c \in Entry, NEW pending \in BOOLEAN, DrainChild(c, pending)
    PROVE  HInv' /\ CoverKept
<1> DEFINE taken == Unparked(tx.s, c)
           outcome == AcceptOutcome(taken, c, NoCursor)
           s == AcceptRowEntry(taken, c, NoCursor, pending)
           f == DiscardDescendants(s, c.hash)
           a == tx.accepted
<1> USE EntryFields, CursorFields
<1>0. /\ tx # NoTx /\ tx \in TxType /\ StoreInv(tx.s) /\ tx.s \in Store
      /\ tx.signer \in Device /\ a \in Entry /\ tx.phase \in {"siblings", "children"}
      /\ HoldingInv(tx.s) /\ LoopInv(tx) /\ OneChainOpen(db, tx, dir.waiting)
      /\ HoldingInv(db) /\ NotStranded(db) /\ Outstanding(db)
  BY HInvTypes DEF HInv, DrainChild
<1>1. c.dev = tx.signer /\ c.prev = Parent /\ UNCHANGED <<db, dir>>
  BY DEF DrainChild, IsNextChild, HeldChildren, Held
<1>2. CoverKept /\ HoldingInv(db') /\ NotStranded(db') /\ Outstanding(db')
  BY <1>0, <1>1 DEF CoverKept
<1>3. SameButHeld(tx.s, taken) /\ taken.gapped \subseteq tx.s.gapped
  BY <1>0, HeldTable
<1>4. /\ NoMoreHeld(tx.s, taken) /\ taken \in Store
      /\ \A d : Chain(taken, d) = Chain(tx.s, d)
      /\ SameChains(tx.s, taken)
  BY <1>3, SameButHeldChains DEF SameButHeld, NoMoreHeld
<1>5. /\ HoldingInv(taken) /\ StoreInv(taken)
      /\ WaitsFor(taken, tx.signer, ToDrain(tx))
  BY <1>0, <1>4, HoldingShrinks, WaitsShrinks, SameChainsInv DEF LoopInv
<1>6. \/ tx' = NoTx
      \/ WithinLamportBounds(taken, c) /\ outcome \in StoringOutcomes
         /\ tx' = [tx EXCEPT !.s = s, !.slot = {c}]
      \/ WithinLamportBounds(taken, c) /\ outcome \notin StoringOutcomes
         /\ tx' = [tx EXCEPT !.s = f]
  BY DEF DrainChild
<1>7. CASE tx' = NoTx
  BY <1>2, <1>7 DEF HInv
<1>8. CASE WithinLamportBounds(taken, c) /\ outcome \in StoringOutcomes
           /\ tx' = [tx EXCEPT !.s = s, !.slot = {c}]
  <2>1. StoreInv(s) /\ TipsAdvance(taken, s)
    BY <1>5, AcceptInv
  <2>2. Stores(taken, s, c, NoCursor)
    BY <1>5, <1>8, AcceptStores
  <2> HIDE DEF taken, s
  <2>3. /\ tx'.s = s /\ tx'.slot = {c} /\ tx'.phase = tx.phase /\ tx'.signer = tx.signer
        /\ tx'.accepted = a /\ tx'.floorBefore = tx.floorBefore
    BY <1>0, <1>8 DEF TxType
  \* The child links to the tail of its chain.
  <2>4. a \in Chain(taken, c.dev) /\ taken.tip = tx.s.tip
    BY <1>0, <1>1, <1>3, <1>4 DEF LoopInv, SameButHeld
  <2>5. /\ s.floor = taken.floor
        /\ \E p \in Chain(taken, c.dev) : p.hash = c.prev /\ CursorOf(p) = taken.tip[c.dev]
    BY <2>2, <2>4 DEF Stores
  <2>6. c.prev = tx.s.tip[tx.signer].hash
    <3>1. Chain(taken, c.dev) \subseteq Entry
      BY <1>4, StoreFields DEF Chain
    <3> QED BY <1>1, <2>4, <2>5, <3>1
  <2>7. tx.phase = "children" /\ tx.slot = {}
    <3>1. CASE tx.slot = {} /\ tx.s.tip[tx.signer] = CursorOf(a)
      <4>1. c.prev = a.hash
        BY <1>0, <2>6, <3>1
      <4>2. a.prev # a.hash
        BY <1>0, EntryAssumption
      <4> QED BY <1>0, <1>1, <3>1, <4>1, <4>2 DEF Parent
    <3>2. ASSUME tx.phase = "children", NEW k \in Chain(tx.s, tx.signer), k # a,
                 tx.s.tip[tx.signer] = CursorOf(k)
          PROVE  FALSE
      <4>1. k \in Entry
        BY <1>0, StoreFields DEF Chain
      <4>2. k.hash = a.hash
        BY <1>1, <2>6, <3>2, <4>1 DEF Parent
      <4> QED BY <1>0, <3>2, <4>1, <4>2, EntryAssumption
    <3> QED BY <1>0, <3>1, <3>2 DEF LoopInv, LoopAtTail
  <2>8. HoldingInv(s)
    BY <1>5, <2>1, <2>2, HoldingStores
  <2>9. WaitsFor(s, tx.signer, ToDrain(tx'))
    <3>1. WaitsFor(s, tx.signer, ToDrain(tx) \cup {c.hash})
      BY <1>1, <1>5, <2>2, WaitsStores
    <3>2. ToDrain(tx) \cup {c.hash} \subseteq ToDrain(tx')
      BY <2>3, <2>7 DEF ToDrain
    <3> QED BY <3>1, <3>2, WaitsMore
  <2>10. s.accepted = taken.accepted \cup {c} /\ c \notin taken.accepted
    BY <2>2 DEF Stores
  <2>11. a \in Chain(s, tx.signer) /\ c \in Chain(s, tx.signer) /\ c # a
    BY <1>1, <2>4, <2>10 DEF Chain
  <2>12. LoopInv(tx')
    <3>1. s.tip[tx.signer] = CursorOf(c)
      BY <1>1, <2>2 DEF Stores
    <3>2. LoopAtTail(tx')
      BY <2>3, <2>7, <2>11, <3>1 DEF LoopAtTail
    <3> QED BY <2>3, <2>9, <2>11, <3>2 DEF LoopInv
  <2>13. OneChainOpen(db', tx', dir'.waiting)
    <3>1. s.cover = tx.s.cover /\ s.floor = tx.s.floor
      BY <1>3, <2>2, <2>5 DEF Stores, SameButHeld
    <3>2. /\ \A d \in Device \ {tx.signer} : Chain(s, d) = Chain(tx.s, d)
          /\ Chain(tx.s, tx.signer) \subseteq Chain(s, tx.signer)
      BY <1>1, <1>4, <2>10 DEF Chain
    <3> QED BY <1>0, <1>1, <2>3, <3>1, <3>2, OpenCarries
  <2> QED BY <1>2, <2>3, <2>8, <2>12, <2>13 DEF HInv
<1>9. CASE WithinLamportBounds(taken, c) /\ outcome \notin StoringOutcomes
           /\ tx' = [tx EXCEPT !.s = f]
  <2>1. Parks(taken, s, c)
    BY <1>5, <1>9, AcceptKeeps
  <2> HIDE DEF taken, s
  <2>2. HoldingInv(s) /\ WaitsFor(s, tx.signer, ToDrain(tx))
    BY <1>5, <1>9, <2>1, HoldingParks, WaitsParks
  <2>3. s \in Store /\ SameButHeld(taken, s)
    BY <2>1 DEF Parks, SameButHeld
  <2>4. SameButHeld(s, f) /\ f.gapped \subseteq s.gapped
    BY <2>3, HeldTable
  <2> HIDE DEF f
  <2>5. HoldingInv(f) /\ WaitsFor(f, tx.signer, ToDrain(tx))
    <3>1. NoMoreHeld(s, f)
      BY <2>4 DEF SameButHeld, NoMoreHeld
    <3> QED BY <2>2, <3>1, HoldingShrinks, WaitsShrinks
  <2>6. SameButHeld(tx.s, f)
    BY <1>3, <2>3, <2>4 DEF SameButHeld
  <2>7. \A d : Chain(f, d) = Chain(tx.s, d)
    BY <2>6, SameButHeldChains
  <2>8. /\ tx'.s = f /\ tx'.slot = tx.slot /\ tx'.phase = tx.phase
        /\ tx'.signer = tx.signer
        /\ tx'.accepted = a /\ tx'.floorBefore = tx.floorBefore
    BY <1>0, <1>9 DEF TxType
  <2>9. ToDrain(tx') = ToDrain(tx)
    BY <2>8 DEF ToDrain
  <2>10. LoopInv(tx')
    BY <1>0, <2>5, <2>6, <2>7, <2>8, <2>9 DEF LoopInv, LoopAtTail, SameButHeld
  <2>11. OneChainOpen(db', tx', dir'.waiting)
    <3>1. tx'.s.cover = tx.s.cover /\ tx'.s.floor = tx.s.floor
      BY <2>6, <2>8 DEF SameButHeld
    <3>2. \A d : Chain(tx'.s, d) = Chain(tx.s, d)
      BY <2>7, <2>8
    <3>3. OneChainOpen(db, tx', dir.waiting)
      BY <1>0, <2>8, <3>1, <3>2, OpenCarries
    <3> QED BY <1>1, <3>3
  <2> QED BY <1>2, <2>5, <2>8, <2>10, <2>11 DEF HInv
<1> QED BY <1>6, <1>7, <1>8, <1>9

\* The turns of the loop that ingest nothing, and the commit.
LEMMA DrainTurnsHInv ==
    ASSUME HInv, IInv', dir' \in Directory, DrainSiblingsDone \/ (\E c \in Entry : DrainAdvance(c)) \/ Commit
    PROVE  HInv' /\ CoverKept
<1> DEFINE a == tx.accepted
<1>0. /\ tx # NoTx /\ tx \in TxType /\ StoreInv(tx.s) /\ tx.s \in Store
      /\ tx.signer \in Device /\ a \in Entry /\ tx.tip \in Cursor
      /\ HoldingInv(tx.s) /\ LoopInv(tx) /\ OneChainOpen(db, tx, dir.waiting)
      /\ HoldingInv(db) /\ NotStranded(db) /\ Outstanding(db)
  BY HInvTypes DEF HInv, DrainSiblingsDone, DrainAdvance, Commit
<1>1. ASSUME db' = db
      PROVE  CoverKept /\ HoldingInv(db') /\ NotStranded(db') /\ Outstanding(db')
  BY <1>0, <1>1 DEF CoverKept
<1>2. ASSUME DrainSiblingsDone PROVE HInv' /\ CoverKept
  <2> DEFINE f == DiscardForeignCitations(tx.s, tx.signer, a.hash)
  <2>1. /\ tx.phase = "siblings" /\ HeldChildren(tx.s, tx.signer, a.prev) = {}
        /\ tx' = [tx EXCEPT !.phase = "children", !.s = f, !.slot = {}]
        /\ db' = db /\ dir' = dir
    BY <1>2 DEF DrainSiblingsDone, Parent
  <2>2. SameButHeld(tx.s, f) /\ f.gapped \subseteq tx.s.gapped
    BY <1>0, HeldTable
  <2> HIDE DEF f
  <2>3. NoMoreHeld(tx.s, f) /\ \A d : Chain(f, d) = Chain(tx.s, d)
    BY <2>2, SameButHeldChains DEF SameButHeld, NoMoreHeld
  <2>4. /\ tx'.s = f /\ tx'.slot = {} /\ tx'.phase = "children"
        /\ tx'.signer = tx.signer
        /\ tx'.accepted = a /\ tx'.floorBefore = tx.floorBefore
    BY <1>0, <2>1 DEF TxType
  <2>5. WaitsFor(f, tx.signer, ToDrain(tx'))
    <3>1. WaitsFor(tx.s, tx.signer, {a.prev, a.hash} \ {a.prev})
      BY <1>0, <2>1, WaitsDrained DEF LoopInv, ToDrain
    <3>2. {a.prev, a.hash} \ {a.prev} \subseteq ToDrain(tx')
      BY <2>4 DEF ToDrain
    <3> QED BY <2>3, <3>1, <3>2, WaitsShrinks, WaitsMore
  <2>6. LoopInv(tx')
    BY <1>0, <2>1, <2>2, <2>3, <2>4, <2>5 DEF LoopInv, LoopAtTail, SameButHeld
  <2>7. OneChainOpen(db', tx', dir'.waiting)
    <3>1. tx'.s.cover = tx.s.cover /\ tx'.s.floor = tx.s.floor
      BY <2>2, <2>4 DEF SameButHeld
    <3>2. \A d : Chain(tx'.s, d) = Chain(tx.s, d)
      BY <2>3, <2>4
    <3>3. OneChainOpen(db, tx', dir.waiting)
      BY <1>0, <2>4, <3>1, <3>2, OpenCarries
    <3> QED BY <2>1, <3>3
  <2> QED BY <1>0, <1>1, <2>1, <2>3, <2>4, <2>6, <2>7, HoldingShrinks DEF HInv
<1>3. ASSUME NEW c \in Entry, DrainAdvance(c) PROVE HInv' /\ CoverKept
  <2>1. /\ tx.phase = "children" /\ HeldChildren(tx.s, tx.signer, a.hash) = {}
        /\ tx.slot = {c}
        /\ tx' = [tx EXCEPT !.phase = "siblings", !.accepted = c, !.slot = {}]
        /\ db' = db /\ dir' = dir
    BY <1>3 DEF DrainAdvance, Parent
  <2>2. /\ tx'.s = tx.s /\ tx'.slot = {} /\ tx'.phase = "siblings"
        /\ tx'.signer = tx.signer
        /\ tx'.accepted = c /\ tx'.floorBefore = tx.floorBefore
    BY <1>0, <2>1 DEF TxType
  <2>3. c \in Chain(tx.s, tx.signer) /\ tx.s.tip[tx.signer] = CursorOf(c)
    BY <1>0, <2>1 DEF LoopInv, LoopAtTail
  <2>4. WaitsFor(tx.s, tx.signer, ToDrain(tx'))
    <3>1. WaitsFor(tx.s, tx.signer, ToDrain(tx) \ {a.hash})
      BY <1>0, <2>1, WaitsDrained DEF LoopInv
    <3>2. ToDrain(tx) \ {a.hash} \subseteq ToDrain(tx')
      BY <2>1, <2>2 DEF ToDrain
    <3> QED BY <3>1, <3>2, WaitsMore
  <2>5. LoopInv(tx')
    BY <1>0, <2>1, <2>2, <2>3, <2>4 DEF LoopInv, LoopAtTail
  <2>6. OneChainOpen(db', tx', dir'.waiting)
    BY <1>0, <2>1, <2>2, OpenCarries
  <2> QED BY <1>0, <1>1, <2>1, <2>2, <2>5, <2>6 DEF HInv
<1>4. ASSUME Commit PROVE HInv' /\ CoverKept
  <2>1. /\ tx.phase = "children" /\ HeldChildren(tx.s, tx.signer, a.hash) = {}
        /\ tx.slot = {} /\ tx' = NoTx
        /\ db' = SettleCoverage(tx.s, tx.signer, tx.floorBefore, tx.tip)
        /\ dir' = Contacted
    BY <1>4 DEF Commit, Parent
  <2>2. Settles(tx.s, db', tx.signer, tx.floorBefore)
    BY <1>0, <2>1, SettleTable
  <2>3. NoMoreHeld(tx.s, db') /\ \A d : Chain(db', d) = Chain(tx.s, d)
    BY <2>2 DEF Settles, NoMoreHeld, Chain
  <2>4. NotStranded(db')
    <3>1. WaitsFor(tx.s, tx.signer, ToDrain(tx) \ {a.hash})
      BY <1>0, <2>1, WaitsDrained DEF LoopInv
    <3>2. ToDrain(tx) \ {a.hash} = {}
      BY <2>1 DEF ToDrain
    <3> QED BY <2>3, <3>1, <3>2, WaitsShrinks, WaitsNone
  <2>5. HoldingInv(db')
    BY <1>0, <2>3, HoldingShrinks
  <2>6. Outstanding(db')
    BY <1>0, <2>2, <2>3 DEF Outstanding, Settles, OneChainOpen
  <2>7. CoverKept
    <3>1. dir'.known
      BY <2>1 DEF HInv, Contacted, Directory
    <3>2. Rerooted(db, tx.s, tx.signer) => Rerooted(db, db', tx.signer)
      BY <2>2, <2>3 DEF Rerooted, Settles
    <3>3. tx.s.floor[tx.signer] = tx.floorBefore \/ Rerooted(db, db', tx.signer)
      BY <1>0, <3>2 DEF OneChainOpen
    <3>4. \A d \in Device :
             tx.s.cover[d] = IF d \in dir.waiting THEN NoObligation ELSE db.cover[d]
      BY <1>0 DEF OneChainOpen
    <3>5. /\ \A d \in Device \ {tx.signer} : db'.cover[d] = tx.s.cover[d]
          /\ \/ tx.s.floor[tx.signer] # tx.floorBefore
             \/ db'.cover[tx.signer] = tx.s.cover[tx.signer]
             \/ \E e \in Chain(db', tx.signer) : CursorOf(e) = tx.s.cover[tx.signer].tip
      BY <2>2, <2>3 DEF Settles
    <3> QED BY <1>0, <3>1, <3>3, <3>4, <3>5 DEF CoverKept
  <2> QED BY <2>1, <2>4, <2>5, <2>6, <2>7 DEF HInv
<1> QED BY <1>2, <1>3, <1>4

\* author_row_entry stores on top of the tail, and nothing held cites the
\* fresh hash.
LEMMA AuthorHInv ==
    ASSUME HInv, IInv', dir' \in Directory, NEW e \in Entry, Author(e)
    PROVE  HInv' /\ CoverKept
<1> USE EntryFields, CursorFields
<1>0. /\ StoreInv(db) /\ db \in Store /\ tx = NoTx /\ tx' = tx
      /\ HoldingInv(db) /\ NotStranded(db) /\ Outstanding(db)
      /\ e.dev = Local /\ Local \in Device /\ CanInsert(db, e)
      /\ db' = InsertEntry(db, e, FALSE)
  BY HInvTypes, LocalAssumption, AuthorFits DEF HInv, Author
<1>1. StoreInv(db') /\ TipsAdvance(db, db')
  BY <1>0, InsertEntryInv
<1>2. /\ db' \in Store
      /\ db'.accepted = db.accepted \cup {e}
      /\ db'.tip = [db.tip EXCEPT ![e.dev] =
                       IF db.tip[e.dev] = NoCursor \/ e.lam > db.tip[e.dev].lam
                       THEN CursorOf(e) ELSE db.tip[e.dev]]
      /\ db'.gapped = db.gapped /\ db'.floor = db.floor /\ db'.cover = db.cover
  BY <1>0, InsertEntryFields
<1>3. \A x \in db.accepted \cup db.gapped : x.hash # e.hash /\ x.prev # e.hash
  BY DEF Author
<1>4. /\ db.tip \in [Device -> Cursor]
      /\ db.accepted \subseteq Entry
  BY <1>0, StoreFields
<1>5. db'.tip[e.dev] = CursorOf(e)
  BY <1>0, <1>2, <1>4, TailIsTip DEF CanInsert
<1>6. Chain(db, e.dev) # {} =>
         \E p \in Chain(db, e.dev) :
            /\ p.hash = e.prev /\ CursorOf(p) = db.tip[e.dev]
            /\ \A x \in Chain(db, e.dev) : x.lam <= p.lam
  <2> SUFFICES ASSUME Chain(db, e.dev) # {}
               PROVE  \E p \in Chain(db, e.dev) :
                         /\ p.hash = e.prev /\ CursorOf(p) = db.tip[e.dev]
                         /\ \A x \in Chain(db, e.dev) : x.lam <= p.lam
    OBVIOUS
  <2>1. PICK p \in Chain(db, e.dev) : db.tip[e.dev] = CursorOf(p)
                                   /\ \A y \in Chain(db, e.dev) : y.lam <= p.lam
    BY <1>0 DEF StoreInv, TailWitnessed
  <2>2. e.prev = db.tip[e.dev].hash
    BY <1>0, TailIsTip DEF Author
  <2>3. p \in Entry
    BY <1>4 DEF Chain
  <2> QED BY <2>1, <2>2, <2>3
<1>7. \A x \in Chain(db, e.dev) : x.lam < e.lam
  <2> SUFFICES ASSUME NEW x \in Chain(db, e.dev) PROVE x.lam < e.lam
    OBVIOUS
  <2>1. PICK p \in Chain(db, e.dev) : CursorOf(p) = db.tip[e.dev]
                                   /\ \A y \in Chain(db, e.dev) : y.lam <= p.lam
    BY <1>6
  <2>2. p \in Entry /\ x \in Entry
    BY <1>4 DEF Chain
  <2>3. p.lam < e.lam
    BY <1>0, <2>1, <2>2 DEF CanInsert
  <2> QED BY <2>1, <2>2, <2>3
<1>8. Stores(db, db', e, NoCursor)
  BY <1>2, <1>3, <1>5, <1>6, <1>7 DEF Stores
<1>9. HoldingInv(db')
  BY <1>0, <1>1, <1>8, HoldingStores
<1>10. NotStranded(db')
  BY <1>0, <1>2, <1>3 DEF NotStranded, Chain
<1>11. Outstanding(db') /\ CoverKept
  BY <1>2 DEF Outstanding, CoverKept, Author, StreamPending
<1> QED BY <1>0, <1>9, <1>10, <1>11 DEF HInv

\* Every step keeps the invariant and the obligations that are still owed.
LEMMA NextHInv ==
    ASSUME HInv, [Next]_vars
    PROVE  HInv' /\ CoverKept
<1>0. IInv' /\ dir' \in Directory /\ StoreInv(db) /\ db \in Store
  BY NextIInv, NextDirectory, HInvTypes DEF HInv
\* A step of a writer that is not the ingest and lets no entry in.
<1>1. ASSUME tx' = tx, tx = NoTx, NoMoreHeld(db, db'), db'.cover = db.cover
      PROVE  HInv' /\ CoverKept
  <2>1. \A d : Chain(db', d) = Chain(db, d)
    BY <1>1 DEF NoMoreHeld, Chain
  <2>2. HoldingInv(db') /\ NotStranded(db')
    BY <1>1, HoldingShrinks, WaitsShrinks, WaitsNone DEF HInv
  <2>3. Outstanding(db') /\ CoverKept
    BY <1>1, <2>1 DEF HInv, Outstanding, CoverKept
  <2> QED BY <1>0, <1>1, <2>2, <2>3 DEF HInv
<1>2. ASSUME NEW e \in Deliverable, NEW pending \in BOOLEAN,
             Receive(e, NoCursor, NoCursor, pending)
      PROVE  HInv' /\ CoverKept
  BY <1>0, <1>2, CursorFields, ReceiveHInv DEF Deliverable
<1>3. ASSUME NEW e \in Deliverable, NEW t \in Deliverable, NEW pending \in BOOLEAN,
             Receive(e, CursorOf(e), CursorOf(t), pending)
      PROVE  HInv' /\ CoverKept
  BY <1>0, <1>3, EntryFields, ReceiveHInv DEF Deliverable
<1>4. ASSUME DrainStep PROVE HInv' /\ CoverKept
  BY <1>0, <1>4, DrainChildHInv, DrainTurnsHInv DEF DrainStep
<1>5. ASSUME Rollback PROVE HInv' /\ CoverKept
  BY <1>0, <1>5 DEF Rollback, HInv, CoverKept
<1>6. ASSUME NEW e \in Entry, Author(e) PROVE HInv' /\ CoverKept
  BY <1>0, <1>6, AuthorHInv
<1>7. ASSUME NEW e \in Entry, Replay(e) PROVE HInv' /\ CoverKept
  <2>1. db' = [db EXCEPT !.pending = db.pending \ {e}] /\ tx' = tx /\ tx = NoTx
    BY <1>7 DEF Replay
  <2>2. NoMoreHeld(db, db') /\ db'.cover = db.cover
    BY <1>0, <2>1 DEF Store, NoMoreHeld
  <2> QED BY <1>1, <2>1, <2>2
<1>8. ASSUME NEW floors \in SUBSET db.accepted, Compact(floors)
      PROVE  HInv' /\ CoverKept
  <2>1. /\ db' = CompactPrefixes(db, floors) /\ tx' = tx /\ tx = NoTx
        /\ \A x \in floors : x \in CompactionTargets(db, x.dev)
        /\ \A x, y \in floors : x.dev = y.dev => x = y
    BY <1>8 DEF Compact
  <2>2. /\ HoldingInv(db') /\ NotStranded(db')
        /\ db'.cover = db.cover /\ db'.accepted \subseteq db.accepted
    BY <1>0, <2>1, CompactHolding DEF HInv
  <2>3. Outstanding(db') /\ CoverKept
    BY <2>2 DEF HInv, Outstanding, CoverKept, Chain
  <2> QED BY <1>0, <2>1, <2>2, <2>3 DEF HInv
<1>9. ASSUME NEW expired \in SUBSET db.gapped, SweepExpiredGapped(expired)
      PROVE  HInv' /\ CoverKept
  <2> DEFINE G == db.gapped \ (expired \cup UNION {HeldDescendants(db, g.hash) : g \in expired})
  <2>1. db' = [db EXCEPT !.gapped = G] /\ tx' = tx /\ tx = NoTx
    BY <1>9 DEF SweepExpiredGapped
  <2>2. G \subseteq db.gapped
    OBVIOUS
  <2> HIDE DEF G
  <2>3. NoMoreHeld(db, db') /\ db'.cover = db.cover
    BY <1>0, <2>1, <2>2 DEF Store, NoMoreHeld
  <2> QED BY <1>1, <2>1, <2>3
<1>10. ASSUME PurgeRepo PROVE HInv' /\ CoverKept
  <2> DEFINE F == [d \in Device |-> NoCursor]
  <2>1. db' = [db EXCEPT !.accepted = {}, !.pending = {}, !.gapped = {}, !.floor = F]
        /\ tx' = tx /\ tx = NoTx
    BY <1>10 DEF PurgeRepo
  <2> HIDE DEF F
  <2>2. db'.accepted = {} /\ db'.gapped = {} /\ db'.cover = db.cover
    BY <1>0, <2>1 DEF Store
  <2>3. HoldingInv(db') /\ NotStranded(db') /\ Outstanding(db') /\ CoverKept
    BY <2>2 DEF HoldingInv, Promotable, AllLinked, Shelved, NotStranded,
                Outstanding, CoverKept, Chain
  <2> QED BY <1>0, <2>1, <2>3 DEF HInv
<1>11. ASSUME NEW roster \in Rosters, NEW others, ChangeRoster(roster, others)
       PROVE  HInv' /\ CoverKept
  <2>1. tx' = tx /\ tx = NoTx
    BY <1>11 DEF ChangeRoster
  <2>0. dir'.removedAt = roster.removedAt
    BY <1>11 DEF HInv, ChangeRoster, Parked, Directory
  <2>2. /\ NoMoreHeld(db, db')
        /\ db'.writers = roster.writers
        /\ \A d : Chain(db', d) = Chain(db, d)
        /\ \A d \in Device :
              \/ db'.cover[d] = db.cover[d]
              \/ d \in RemovedBy(roster.removedAt) /\ db'.cover[d] = NoObligation
    BY <1>0, <1>11, RosterStep DEF NoMoreHeld, Chain
  <2>3. \A d \in RemovedBy(roster.removedAt) : d \notin roster.writers
    BY RosterAssumption DEF RemovedBy
  <2>4. HoldingInv(db') /\ NotStranded(db')
    BY <2>2, HoldingShrinks, WaitsShrinks, WaitsNone DEF HInv
  <2>5. Outstanding(db') /\ CoverKept
    BY <2>0, <2>2, <2>3 DEF HInv, Outstanding, CoverKept
  <2> QED BY <1>0, <2>1, <2>4, <2>5 DEF HInv
<1>12. ASSUME RecordContext \/ OtherContact PROVE HInv' /\ CoverKept
  BY <1>0, <1>12 DEF RecordContext, OtherContact, HInv, CoverKept
<1>13. ASSUME UNCHANGED vars PROVE HInv' /\ CoverKept
  BY <1>0, <1>13 DEF vars, HInv, CoverKept
<1> QED
  BY <1>2, <1>3, <1>4, <1>5, <1>6, <1>7, <1>8, <1>9, <1>10, <1>11, <1>12, <1>13 DEF Next

\* An empty store satisfies the invariant.
LEMMA InitHInv ==
    ASSUME Init
    PROVE  HInv
<1>1. IInv
  BY InitIInv
<1>2. /\ db.accepted = {} /\ db.gapped = {} /\ tx = NoTx
      /\ \A d \in Device : db.cover[d] = NoObligation
  BY DEF Init, EmptyStore
<1>3. dir \in Directory
  BY DEF Init, Directory
<1> QED BY <1>1, <1>2, <1>3 DEF HInv, HoldingInv, Promotable, AllLinked, Shelved, NotStranded, Outstanding

-----------------------------------------------------------------------------
(* The theorems *)

\* The committed store and the transaction's copy keep their held entries and
\* chains in order through every arrival, turn of the promotion loop, crash,
\* compaction, purge, sweep and roster change; the loop always stands at the
\* tail it drains for.
THEOREM HoldingInvariance == Spec => []HInv
<1>1. Init => HInv
  BY InitHInv
<1>2. HInv /\ [Next]_vars => HInv'
  BY NextHInv
<1> QED BY <1>1, <1>2, PTL DEF Spec

\* store.rs, table_sync_entries: one entry per device and Lamport time, and
\* above the retained floor each links to the accepted entry right below it.
THEOREM ContiguousChains == Spec => []ChainContiguous
<1>1. HInv => ChainContiguous
  <2> SUFFICES ASSUME HInv, NEW e \in db.accepted
               PROVE  /\ \A x \in Chain(db, e.dev) : x.lam = e.lam => x = e
                      /\ Linked(db, e)
    BY DEF ChainContiguous, Linked
  <2>1. Linked(db, e)
    BY DEF HInv, HoldingInv, AllLinked
  <2>2. \A x \in Chain(db, e.dev) : x.lam = e.lam => x = e
    BY DEF HInv, IInv, StoreInv, OnePerLamport, Chain
  <2> QED BY <2>1, <2>2
<1> QED BY <1>1, HoldingInvariance, PTL

\* engine.rs drain_gapped_chain: once an ingest has committed, no held entry
\* of any chain waits for a predecessor that is here, nor below the floor.
THEOREM NothingStranded == Spec => []NoStrandedEntry
<1>1. HInv => NoStrandedEntry
  BY DEF HInv, HoldingInv, Shelved, NotStranded, NoStrandedEntry
<1> QED BY <1>1, HoldingInvariance, PTL

\* accept_row_entry's bounded advance: no held entry drifts out of it, so the
\* ingest that promotes it cannot be rolled back by its Lamport time.
THEOREM HeldPromotable == Spec => []HeldStaysPromotable
<1>1. HInv => HeldStaysPromotable
  BY DEF HInv, HoldingInv, Promotable, HeldStaysPromotable
<1> QED BY <1>1, HoldingInvariance, PTL

\* coverage::clear_delivered: no obligation outlives the delivery of its tip,
\* whichever of the ways into the chain the tip took.
THEOREM ObligationsOwed == Spec => []ObligationOutstanding
<1>1. HInv => ObligationOutstanding
  BY DEF HInv, Outstanding, ObligationOutstanding
<1> QED BY <1>1, HoldingInvariance, PTL

\* coverage.rs, purge_repo_rows, enqueue_readoption_work: and none changes
\* earlier, but by a root adopted at or past the witness or by the removal of
\* its device.
THEOREM ObligationsKept == Spec => ObligationKept
<1>1. HInv /\ [Next]_vars => [CoverKept]_vars
  BY NextHInv
<1> QED BY <1>1, HoldingInvariance, PTL DEF Spec, ObligationKept, CoverKept
=============================================================================
