----------------------------- MODULE ChainStore -----------------------------
(***************************************************************************)
(* One store receiving, holding, promoting, compacting, purging and        *)
(* authoring on one table-sync stream.  Peers may deliver any signed entry *)
(* at any time, in any order, any number of times, alone or as the         *)
(* retained floor of a suffix; signers may have signed a chain twice at    *)
(* one point.                                                              *)
(*                                                                         *)
(* Writes are SQLite IMMEDIATE transactions: `db` is the committed store,  *)
(* `tx` the transaction in progress, if any.  engine::ingest accepts the   *)
(* received entry and then drains the entries held behind it in a loop;    *)
(* each turn of the loop is a step on tx.s, the last one commits, and a    *)
(* crash or an error abandons tx.  No other write runs meanwhile.          *)
(***************************************************************************)
EXTENDS TableChain

CONSTANTS
    Local,          \* the device this store signs as
    InitialWriters, \* the roster's effective writers at the start
    Rosters,        \* the rosters the account fold yields
    OtherStreams    \* whether the account may have other streams: a set of BOOLEANs

\* The roster projection of a fold: its effective writers and, per device, the
\* epoch its enrolment was closed at (0: not closed).  A removed device is
\* never enrolled again (TombstoneReAdd), but every fold is rebuilt from the
\* whole account log and may count a removal no longer.
Roster == [writers : SUBSET Device, removedAt : [Device -> Nat]]

ASSUME LocalAssumption == Local \in Device /\ InitialWriters \subseteq Device

ASSUME RosterAssumption ==
    /\ \A roster \in Rosters :
          roster \in Roster /\ \A d \in roster.writers : roster.removedAt[d] = 0
    /\ OtherStreams \subseteq BOOLEAN

VARIABLES
    db,        \* the committed store
    tx,        \* the ingest transaction in progress, or NoTx
    authored,  \* history: every entry this store ever signed
    dir        \* what the store knows of the stream and of removals

vars == <<db, tx, authored, dir>>

\* known: the stream has a row in table_sync_streams; removedAt: the roster
\* history of the last fold; parkedAt, waiting: the removals recorded under
\* the placeholder stream (PRECONTEXT) and those not attached to a stream yet.
Directory ==
    [known : BOOLEAN, removedAt : [Device -> Nat],
     parkedAt : [Device -> Nat], waiting : SUBSET Device]

NoTx == [phase |-> "none"]

\* s: the store as the transaction sees it; signer: whose chain is drained;
\* accepted: the entry the loop is draining for; slot: the child that took
\* the successor slot (hash NoHash while none did); floorBefore, tip: for the
\* coverage step that ends the transaction.
TxType ==
    [phase : {"siblings", "children"}, s : Store, signer : Device,
     accepted : Entry, slot : SUBSET Entry, floorBefore : Cursor, tip : Cursor]

TypeOK ==
    /\ db \in Store
    /\ tx \in TxType \cup {NoTx}
    /\ authored \subseteq Entry
    /\ db.pending \subseteq db.accepted
    /\ dir \in Directory

Init ==
    /\ db = EmptyStore(InitialWriters)
    /\ tx = NoTx
    /\ authored = {}
    /\ dir = [known |-> FALSE, removedAt |-> [d \in Device |-> 0],
              parkedAt |-> [d \in Device |-> 0], waiting |-> {}]

-----------------------------------------------------------------------------
(* First contact and removals *)

\* The suffix a removed device's chain owed will never arrive: its obligation
\* goes (the end of enqueue_readoption_work).
DropObligations(s, removed) ==
    [s EXCEPT !.cover = [d \in Device |-> IF d \in removed THEN NoObligation ELSE @[d]]]

\* record_stream_context, at every ingest and produce: the stream enters the
\* directory and takes the removals that were waiting for one.
Recorded(s) == DropObligations(s, dir.waiting)
Contacted == [dir EXCEPT !.known = TRUE, !.waiting = {}]

-----------------------------------------------------------------------------
(* Ingest: transport.rs ingest_received_against around engine.rs ingest *)

\* What can arrive: anything another device signed, and this device's own
\* entries once signed (a peer serves them back after a purge).
Deliverable == {e \in Entry : e.dev = Local => e \in authored}

\* The drain starts with the accepted entry's siblings; a genesis has none.
StartDrain(s, e, floorBefore, tip) ==
    IF e.prev # NoHash
    THEN [phase |-> "siblings", s |-> s, signer |-> e.dev, accepted |-> e,
          slot |-> {}, floorBefore |-> floorBefore, tip |-> tip]
    ELSE [phase |-> "children", s |-> DiscardForeignCitations(s, e.dev, e.hash),
          signer |-> e.dev, accepted |-> e,
          slot |-> {}, floorBefore |-> floorBefore, tip |-> tip]

\* Mutant: the Lamport bounds are not checked on arrival.
ReceiveUnbounded(e, floor, tip, pending) ==
    /\ tx = NoTx
    /\ LET s == AcceptRowEntry(Recorded(db), e, floor, pending) IN
       IF AcceptOutcome(Recorded(db), e, floor) \in StoringOutcomes
       THEN tx' = StartDrain(s, e, db.floor[e.dev], tip) /\ UNCHANGED <<db, dir>>
       ELSE /\ db' = SettleCoverage(s, e.dev, db.floor[e.dev], tip)
            /\ dir' = Contacted
            /\ tx' = tx
    /\ UNCHANGED authored

\* Receive `e`, offered by a peer that advertises `floor` (NoCursor if none)
\* and, with a floor, the `tip` it will deliver up to.
Receive(e, floor, tip, pending) ==
    /\ tx = NoTx
    /\ WithinLamportBounds(db, e)
    /\ floor # NoCursor =>
          /\ floor.lam <= tip.lam /\ tip.lam < MaxEntryLamport
          /\ floor.lam = tip.lam => floor = tip
    /\ LET s == AcceptRowEntry(Recorded(db), e, floor, pending) IN
       IF AcceptOutcome(Recorded(db), e, floor) \in StoringOutcomes
       THEN /\ tx' = StartDrain(s, e, db.floor[e.dev], tip)
            /\ UNCHANGED <<db, dir>>
       ELSE /\ db' = SettleCoverage(s, e.dev, db.floor[e.dev], tip)
            /\ dir' = Contacted
            /\ tx' = tx
    /\ UNCHANGED authored

\* The hash whose held children the loop is taking.
Parent == IF tx.phase = "siblings" THEN tx.accepted.prev ELSE tx.accepted.hash

\* take_gapped_child: the first held child in (lamport, hash) order.
IsNextChild(c) ==
    /\ c \in HeldChildren(tx.s, tx.signer, Parent)
    /\ \A x \in HeldChildren(tx.s, tx.signer, Parent) : x = c \/ Before(c, x)

\* One turn of drain_children: take a held child out and ingest it as an
\* ordinary entry, with no floor.  One that is not stored is a fork, and
\* what is held behind it goes with it.
DrainChild(c, pending) ==
    /\ tx # NoTx
    /\ IsNextChild(c)
    /\ LET taken == Unparked(tx.s, c)
           outcome == AcceptOutcome(taken, c, NoCursor)
           s == AcceptRowEntry(taken, c, NoCursor, pending)
       IN  tx' = IF ~WithinLamportBounds(taken, c) THEN NoTx
                 ELSE IF outcome \in StoringOutcomes
                 THEN [tx EXCEPT !.s = s, !.slot = {c}]
                 ELSE [tx EXCEPT !.s = DiscardDescendants(s, c.hash)]
    /\ UNCHANGED <<db, authored, dir>>

\* The siblings are settled: sweep foreign citations, turn to the children.
DrainSiblingsDone ==
    /\ tx # NoTx
    /\ tx.phase = "siblings"
    /\ HeldChildren(tx.s, tx.signer, Parent) = {}
    /\ tx' = [tx EXCEPT
                !.phase = "children",
                !.s = DiscardForeignCitations(tx.s, tx.signer, tx.accepted.hash),
                !.slot = {}]
    /\ UNCHANGED <<db, authored, dir>>

\* The child that took the slot is the new tail: drain for it in turn.
DrainAdvance(c) ==
    /\ tx # NoTx
    /\ tx.phase = "children"
    /\ HeldChildren(tx.s, tx.signer, Parent) = {}
    /\ tx.slot = {c}
    /\ tx' = [tx EXCEPT !.phase = "siblings", !.accepted = c, !.slot = {}]
    /\ UNCHANGED <<db, authored, dir>>

\* Nothing left to drain: settle the coverage obligation and commit.
Commit ==
    /\ tx # NoTx
    /\ tx.phase = "children"
    /\ HeldChildren(tx.s, tx.signer, Parent) = {}
    /\ tx.slot = {}
    /\ db' = SettleCoverage(tx.s, tx.signer, tx.floorBefore, tx.tip)
    /\ dir' = Contacted
    /\ tx' = NoTx
    /\ UNCHANGED authored

\* A crash, or an error anywhere in the transaction, rolls it back.
Rollback ==
    /\ tx # NoTx
    /\ tx' = NoTx
    /\ UNCHANGED <<db, authored, dir>>

-----------------------------------------------------------------------------
(* The other writers of the stream's tables *)

\* Mutant: authoring does not wait for the witnessed tip.
AuthorIgnoringWitness(e) ==
    /\ tx = NoTx
    /\ Local \in db.writers
    /\ e.dev = Local
    /\ \A x \in db.accepted \cup db.gapped \cup authored :
          x.hash # e.hash /\ x.prev # e.hash
    /\ ~StreamPending(db)
    /\ IsNextLamport(db, e.lam)
    /\ e.prev = ChainTail(db, Local).hash
    /\ db' = InsertEntry(db, e, FALSE)
    /\ authored' = authored \cup {e}
    /\ dir' = Contacted
    /\ UNCHANGED tx

\* produce_and_author, sign_next_row_entry and author_row_entry.  The new
\* entry's hash is fresh: nothing received so far can cite it.
Author(e) ==
    /\ tx = NoTx
    /\ Local \in db.writers
    /\ e.dev = Local
    /\ \A x \in db.accepted \cup db.gapped \cup authored :
          x.hash # e.hash /\ x.prev # e.hash
    /\ ~StreamPending(db)
    /\ db.tip[Local] # NoCursor => ChainTail(db, Local) = db.tip[Local]
    /\ IsNextLamport(db, e.lam)
    /\ e.prev = ChainTail(db, Local).hash
    /\ db' = InsertEntry(db, e, FALSE)
    /\ authored' = authored \cup {e}
    /\ dir' = Contacted
    /\ UNCHANGED tx

\* The refold or the producer's replay projects, or writes off, a pending
\* entry (clear_entry_pending, record_entry_quarantine).
Replay(e) ==
    /\ tx = NoTx
    /\ e \in db.pending
    /\ db' = [db EXCEPT !.pending = @ \ {e}]
    /\ UNCHANGED <<tx, authored, dir>>

\* One transaction compacts every chain of the stream that is over budget.
Compact(floors) ==
    /\ tx = NoTx
    /\ ~StreamPending(db)
    /\ \A x \in floors : x \in CompactionTargets(db, x.dev)
    /\ \A x, y \in floors : x.dev = y.dev => x = y
    /\ db' = CompactPrefixes(db, floors)
    /\ UNCHANGED <<tx, authored, dir>>

\* table_sync_sweep_expired_gapped: some held entries are past their age
\* limit; they go, with everything held behind them.
SweepExpiredGapped(expired) ==
    /\ tx = NoTx
    /\ expired # {}
    /\ db' = [db EXCEPT !.gapped =
                @ \ (expired \cup UNION {HeldDescendants(db, g.hash) : g \in expired})]
    /\ UNCHANGED <<tx, authored, dir>>

\* Mutants: the purge takes the witnesses, or the obligations, along.
PurgeTips ==
    /\ tx = NoTx
    /\ db' = [EmptyStore(db.writers) EXCEPT !.cover = db.cover]
    /\ dir' = [dir EXCEPT !.known = FALSE]
    /\ UNCHANGED <<tx, authored>>

PurgeObligations ==
    /\ tx = NoTx
    /\ db' = [EmptyStore(db.writers) EXCEPT !.tip = db.tip]
    /\ dir' = [dir EXCEPT !.known = FALSE]
    /\ UNCHANGED <<tx, authored>>

\* purge_repo_rows: the repository leaves this store, its directory rows
\* included.  The chain tips and the coverage obligations survive.
PurgeRepo ==
    /\ tx = NoTx
    /\ db' = [db EXCEPT !.accepted = {}, !.pending = {}, !.gapped = {},
                        !.floor = [d \in Device |-> NoCursor]]
    /\ dir' = [dir EXCEPT !.known = FALSE]
    /\ UNCHANGED <<tx, authored>>

\* produce_and_author on a stream with nothing to sign.
RecordContext ==
    /\ tx = NoTx
    /\ ~StreamPending(db)
    /\ dir' = Contacted
    /\ UNCHANGED <<db, tx, authored>>

\* Another stream of the account is contacted first and takes the removals.
OtherContact ==
    /\ tx = NoTx
    /\ TRUE \in OtherStreams
    /\ dir' = [dir EXCEPT !.waiting = {}]
    /\ UNCHANGED <<db, tx, authored>>

RemovedBy(removedAt) == {d \in Device : removedAt[d] > 0}

\* enqueue_readoption_for_closed_fact under the placeholder stream: only a
\* newer removal than the one recorded there waits (again).
Parked(d, removedAt) ==
    LET newer == {x \in Device : removedAt[x] > d.parkedAt[x]}
    IN  [d EXCEPT !.parkedAt = [x \in Device |-> IF x \in newer THEN removedAt[x] ELSE @[x]],
                  !.waiting = @ \cup newer]


\* rewrite_authority_projection: an account fold yields `roster`.  For every
\* closed enrolment it drops the device's obligation on the streams in the
\* directory; with none there (`others`: another one is) the removal waits
\* for the first.
ChangeRoster(roster, others) ==
    /\ tx = NoTx
    /\ db' = [DropObligations(db, IF dir.known THEN RemovedBy(roster.removedAt) ELSE {})
                 EXCEPT !.writers = roster.writers]
    /\ LET folded == [dir EXCEPT !.removedAt = roster.removedAt]
       IN  dir' = IF dir.known \/ others THEN folded ELSE Parked(folded, roster.removedAt)
    /\ UNCHANGED <<tx, authored>>

-----------------------------------------------------------------------------
DrainStep ==
    \/ \E c \in Entry, pending \in BOOLEAN : DrainChild(c, pending)
    \/ DrainSiblingsDone
    \/ \E c \in Entry : DrainAdvance(c)
    \/ Commit

\* A peer advertises either no floor for the chain, the entry it is sending,
\* or another entry; only the second can be adopted, so the third is the
\* first.  A floor is past Lamport time 0 (compaction only advances it), and
\* the promised tip is any entry of the chain from the floor on.
Next ==
    \/ \E e \in Deliverable, pending \in BOOLEAN : Receive(e, NoCursor, NoCursor, pending)
    \/ \E e \in {x \in Deliverable : x.lam > 0}, pending \in BOOLEAN :
          \E t \in {x \in Deliverable : x.dev = e.dev} :
              Receive(e, CursorOf(e), CursorOf(t), pending)
    \/ DrainStep
    \/ Rollback
    \/ \E e \in Entry : Author(e)
    \/ \E e \in Entry : Replay(e)
    \/ \E floors \in SUBSET db.accepted : Compact(floors)
    \/ \E expired \in SUBSET db.gapped : SweepExpiredGapped(expired)
    \/ PurgeRepo
    \/ RecordContext
    \/ OtherContact
    \/ \E roster \in Rosters, others \in OtherStreams : ChangeRoster(roster, others)

Spec == Init /\ [][Next]_vars

\* A transaction the process started runs on until it commits or is lost.
FairSpec == Spec /\ WF_vars(DrainStep)

-----------------------------------------------------------------------------
(* Properties *)

\* chain_frontier relies on it ("Only the equal case is reachable"): whenever
\* a chain has accepted entries, its retained witness names the highest one,
\* through adoption, restore after a purge, compaction and promotion.
WitnessIsTail ==
    \A d \in Device :
        Chain(db, d) # {} => ChainTail(db, d) = db.tip[d]

\* No two accepted entries of a device share a Lamport time (the table's
\* UNIQUE constraint is never what stops an ingest), and above the retained
\* floor the accepted chain is contiguous: all but its lowest entry link to
\* the accepted entry right below them.
ChainContiguous ==
    \A e \in db.accepted :
        /\ \A x \in Chain(db, e.dev) : x.lam = e.lam => x = e
        /\ \/ db.floor[e.dev] # NoCursor /\ e.lam <= db.floor[e.dev].lam
           \/ \A x \in Chain(db, e.dev) : x.lam >= e.lam
           \/ \E p \in Chain(db, e.dev) :
                /\ p.hash = e.prev /\ p.lam < e.lam
                /\ \A x \in Chain(db, e.dev) : x.lam <= p.lam \/ x.lam >= e.lam

\* No held entry waits for a predecessor that is already here: whatever order
\* entries arrive in, an entry whose predecessor is accepted on its own chain
\* is promoted or judged a fork, never stranded.
NoStrandedEntry ==
    \A g \in db.gapped :
        /\ \A e \in Chain(db, g.dev) : e.hash # g.prev
        /\ g \notin db.accepted
        /\ ~BelowFloor(db, g)

\* A held entry stays within the bounded advance of the stream clock, so its
\* promotion cannot raise the error that would roll back the ingest that
\* found its predecessor.
HeldStaysPromotable ==
    \A g \in db.gapped : WithinLamportBounds(db, g)

\* The local device never signs two successors of one entry, nor two
\* beginnings, across purges, rejoins and interrupted transactions.
NoSelfFork ==
    \A e, f \in authored : e.prev = f.prev => e = f

\* While a stream owes a promised suffix, the promised tip is not here: an
\* obligation never outlives its delivery (it would stop authoring for good).
ObligationOutstanding ==
    \A d \in Device :
        db.cover[d] # NoObligation =>
            \A e \in Chain(db, d) : CursorOf(e) # db.cover[d].tip

\* The witness of a chain never moves back, and never to another entry at
\* the same time, whatever is purged or compacted.
WitnessNeverRegresses ==
    [][\A d \in Device :
          db.tip[d] # NoCursor =>
             db'.tip[d] = db.tip[d] \/ db'.tip[d].lam > db.tip[d].lam]_vars

\* From s to t, d's chain was re-rooted at an entry it did not hold, at its
\* witness or past it.  (The witness itself, when a peer serves it as a floor
\* after a purge: see RestoreKeepsSuffix below.)
Rerooted(s, t, d) ==
    \E e \in Chain(t, d) \ Chain(s, d) :
        /\ t.floor[d] = CursorOf(e)
        /\ s.tip[d] \in {NoCursor, CursorOf(e)} \/ e.lam > s.tip[d].lam

\* An obligation changes only by delivery of its exact tip, by adoption of a
\* root at or past the chain's witness, or by the removal of its device, in
\* the step that folds the removal or that first contacts the stream after
\* it.  A purge, a compaction, another chain's entry or the change of another
\* device's enrolment never touches it.
ObligationKept ==
    [][\A d \in Device :
          db.cover[d] # NoObligation /\ db'.cover[d] # db.cover[d] =>
             \/ \E e \in Chain(db', d) : CursorOf(e) = db.cover[d].tip
             \/ Rerooted(db, db', d)
             \/ d \in RemovedBy(dir'.removedAt) /\ d \notin db'.writers
             \/ d \in dir.waiting /\ dir'.known]_vars


\* Every ingest transaction ends: the promotion loop runs to exhaustion.
IngestTerminates == (tx # NoTx) ~> (tx = NoTx)

-----------------------------------------------------------------------------
(* What the documentation says and the code does not do *)

\* schema/purge.rs: restoring the witnessed entry does not settle a suffix
\* known to be missing.  The obligation may only go with its tip, or to a
\* root past everything this store ever accepted of the chain.
RestoreKeepsSuffix ==
    [][\A d \in Device :
          db.cover[d] # NoObligation /\ db'.cover[d] # db.cover[d] =>
             \/ \E e \in Chain(db', d) : CursorOf(e) = db.cover[d].tip
             \/ db'.floor[d].lam > db.tip[d].lam]_vars
=============================================================================
