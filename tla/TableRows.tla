----------------------------- MODULE TableRows ------------------------------
(***************************************************************************)
(* The row layer of table sync: stores that edit rows locally, author what *)
(* they changed, receive each other's entries, defer what would overwrite  *)
(* unsent local work, replay it, upgrade, compact their logs, and carry on *)
(* the rows of a writer the roster removed.                                *)
(*                                                                         *)
(* A store is named by the device it signs as.  Chains are linear here and *)
(* arrive in order: forks, holding and promotion are ChainStore's, and     *)
(* this module uses what it establishes there (what a store has of a chain *)
(* is contiguous above the floor).  Every write is an IMMEDIATE            *)
(* transaction; the long ones are `tx`, worked off step by step, and since *)
(* nothing uncommitted is visible to another store, no other step is taken *)
(* meanwhile.  Abort is a crash or an error: the transaction is undone.    *)
(***************************************************************************)
EXTENDS RowMerge, FiniteSets, FiniteSetsExt

CONSTANTS
    Writers,     \* devices enrolled as writers; the others only read
    Roster,      \* per device, how often its enrolment closes or reopens
    OldCells,    \* the contents a version-1 binary can hold
    MaxVersion,  \* the newest version of the table's column set
    Malformed,   \* {Unreadable} if a raw write may leave a column unreadable, or {}
    Keep,        \* the scope's retention budget; 0: everything is retained
    MaxLamport,  \* bound on Lamport times
    MaxEdits     \* bound on raw writes of rows

ASSUME RowsAssumption ==
    /\ Writers \subseteq Device
    /\ Roster \in [Device -> Nat]
    /\ OldCells \subseteq Cells
    /\ Malformed \subseteq {Unreadable}
    /\ MaxVersion \in Nat \ {0} /\ Keep \in Nat
    /\ MaxLamport \in Nat /\ MaxEdits \in Nat

VARIABLES
    store,  \* per device, its committed store
    tx,     \* the transaction in progress, or NoTx
    edits   \* how many raw writes were made; only MaxEdits reads it

vars == <<store, tx, edits>>

NoTx == [kind |-> "none"]

Entry ==
    [dev : Device, lam : Nat, kind : {"upsert", "remove", "restate", "restaterows"},
     ver : 1..MaxVersion, items : [Row -> Statement \cup {NoItem}]]

\* accepted: the retained log.  gap, deferred: the entries in it marked
\* pending, by family.  ver: the binary's version of the column set.
\* floor, owed: per chain, the retained floor and the tip of the suffix a
\* re-rooting still owes (-1: none).  epoch: per device, how many of its
\* roster changes this store folded.  work: the removals whose re-adoption
\* is not complete.  seen: history, what was settled.
Store ==
    [rows : [Row -> RowState], accepted : SUBSET Entry, gap : SUBSET Entry,
     deferred : SUBSET Entry, ver : 1..MaxVersion,
     floor : [Device -> Int], owed : [Device -> Int],
     epoch : [Device -> Nat], work : SUBSET Device,
     seen : [Row -> SUBSET Statement]]

EmptyStore ==
    [rows |-> [r \in Row |-> EmptyRow], accepted |-> {}, gap |-> {},
     deferred |-> {}, ver |-> 1, floor |-> [d \in Device |-> -1],
     owed |-> [d \in Device |-> -1], epoch |-> [d \in Device |-> 0], work |-> {},
     seen |-> [r \in Row |-> {}]]

\* rows: still to be authored or carried.  replay: still to be replayed.
\* who: whose rows are carried (Carrier.winner_hex), the own device's or,
\* in re-adoption, a removed writer's.
TxType ==
    [kind : {"produce", "readopt", "drained", "open", "compact"}, dev : Device,
     who : Device, st : Store, rows : SUBSET Row, replay : SUBSET Entry]

Init ==
    /\ store = [d \in Device |-> EmptyStore]
    /\ tx = NoTx
    /\ edits = 0

-----------------------------------------------------------------------------
(* The log *)

Pending(st) == st.gap \cup st.deferred

Chain(st, d) == {x \in st.accepted : x.dev = d}

Lams(entries) == {x.lam : x \in entries}

\* The Lamport time of the chain's tail, -1 for a chain not held at all.
Tip(st, d) == Max({-1} \cup Lams(Chain(st, d)))

\* Mutant: the next tick repeats the stream's newest.
RepeatsLamport(st, n) ==
    /\ \A x \in st.accepted : x.lam <= n
    /\ n = 0 \/ \E x \in st.accepted : n = x.lam

\* next_stream_lamport: one past the newest on any chain, parked ones included.
IsNextLamport(st, n) ==
    /\ \A x \in st.accepted : x.lam < n
    /\ n = 0 \/ \E x \in st.accepted : n = x.lam + 1

StreamPending(st) == \E d \in Device : st.owed[d] # -1

\* The device's enrolment is closed, as far as this store folded the account.
Removed(st, d) == st.epoch[d] % 2 = 1

\* device_is_effective_writer
Effective(st, d) == d \in Writers /\ ~Removed(st, d)

-----------------------------------------------------------------------------
(* What a row holds that no peer has seen *)

\* The after-image of the write the row's clock names, if its entry is held
\* or a chain that carries the row restated it (restated_winner).
WinningCells(st, r) ==
    {x.items[r].cells : x \in {y \in st.accepted :
        /\ Rewrites(y)
        /\ y.items[r].id = st.rows[r].clock
        /\ EntryId(y) = st.rows[r].clock \/ y.lam = st.rows[r].carriers[y.dev]}}

Stale(st, r) == st.rows[r].pub # Unpublished /\ st.rows[r].pubVer # st.ver

\* compare_stale_row cannot conclude: the winning entry is gone.
UnresolvedWinner(st, r) ==
    st.rows[r].cells \in Cells /\ Stale(st, r) /\ WinningCells(st, r) = {}

\* Mutant: a row that differs counts as changed even when it cannot be read.
LocallyChangedUnread(st, r) ==
    LET x == st.rows[r] IN
    /\ x.cells # Absent
    /\ \/ x.pub = Unpublished
       \/ ~Stale(st, r) /\ x.pub # x.cells
       \/ Stale(st, r) /\ WinningCells(st, r) # {} /\ x.cells \notin WinningCells(st, r)

\* The readable row differs from what was last published of it.
LocallyChanged(st, r) ==
    LET x == st.rows[r] IN
    /\ x.cells \in Cells
    /\ \/ x.pub = Unpublished
       \/ ~Stale(st, r) /\ x.pub # x.cells
       \/ Stale(st, r) /\ WinningCells(st, r) # {} /\ x.cells \notin WinningCells(st, r)

LocallyDeleted(st, r) ==
    st.rows[r].cells = Absent /\ st.rows[r].pub # Unpublished

\* Mutant: a row that was never published is not protected.
ProvenUnsentPublished(st, r, removing) ==
    \/ LocallyChanged(st, r) /\ st.rows[r].pub # Unpublished
    \/ LocallyDeleted(st, r)
    \/ removing /\ st.rows[r].cells = Unreadable

\* unsent_work_on_row returning a reason that is proven unsent work.
ProvenUnsent(st, r, removing) ==
    \/ LocallyChanged(st, r)
    \/ LocallyDeleted(st, r)
    \/ removing /\ st.rows[r].cells = Unreadable

\* The rows whose unsent work has a say: a restatement asks only about the
\* rows it would physically remove (delete_would_remove_row) or take
\* (row_would_take).
Touched(st, e) ==
    {r \in Named(e) :
        /\ e.kind = "restate" => /\ st.rows[r].cells # Absent
                                /\ ~Beats(st.rows[r].clock, e.items[r].id)
        /\ e.kind = "restaterows" => Takes(st.rows[r], e.items[r].id)}

Proven(st, e) == {r \in Touched(st, e) : ProvenUnsent(st, r, ~Rewrites(e))}

Blocked(st, e) ==
    Proven(st, e) \cup {r \in Touched(st, e) : UnresolvedWinner(st, r)}

\* pre_apply parks the entry behind a row's state.  A device that was never
\* a writer holds nothing unsent.  The live path lets a removal through when
\* nothing is proven; the refold defers on any doubt.
Defers(st, e, dev, live) ==
    /\ ~StatesAhead(e)
    /\ dev \in Writers
    /\ Blocked(st, e) # {}
    /\ live /\ ~Rewrites(e) => Proven(st, e) # {}

-----------------------------------------------------------------------------
(* Projecting an entry: engine.rs ingest_one, refold.rs replay_pending_entry *)

\* The rows in `part` take what `e` states; `seen` records it.
Projected(st, e, part) ==
    [st EXCEPT
        !.rows = Apply(@, e, part, st.ver),
        !.seen = [r \in Row |-> @[r] \cup
                    (IF r \in part /\ ~StatesAhead(e) THEN {e.items[r]} ELSE {})]]

\* A gap waits for a newer binary.  A deferred restatement settles at once
\* on the rows that are not in the way (restate_settleable_now).
Evaluated(st, e, dev, live) ==
    IF VersionGap(e, st.ver)
    THEN [st EXCEPT !.gap = @ \cup {e}, !.deferred = @ \ {e}]
    ELSE IF Defers(st, e, dev, live)
    THEN [Projected(st, e, IF Restates(e) THEN Named(e) \ Blocked(st, e) ELSE {})
             EXCEPT !.deferred = @ \cup {e}, !.gap = @ \ {e}]
    ELSE [Projected(st, e, Named(e))
             EXCEPT !.deferred = @ \ {e}, !.gap = @ \ {e}]

\* The entry of d's chain that `from` offers a store whose tail is `tip`:
\* the next one, or the floor itself when the tail fell below it.
IsOffered(from, d, tip, e) ==
    /\ e \in Chain(from, d)
    /\ IF tip >= from.floor[d]
       THEN /\ e.lam > tip
            /\ \A x \in Chain(from, d) : x.lam > tip => x.lam >= e.lam
       ELSE e.lam = from.floor[d]

\* The tip `from` advertises for d's chain: its own outstanding suffix counts.
PromisedTip(from, d) == IF from.owed[d] # -1 THEN from.owed[d] ELSE Tip(from, d)

\* Re-rooting records the floor and the suffix it owes (coverage.rs record);
\* reaching the promised tip settles it (clear_delivered).
Rooted(st, e, from) ==
    LET reroots == Tip(st, e.dev) < from.floor[e.dev]
        owed == IF reroots THEN PromisedTip(from, e.dev) ELSE st.owed[e.dev]
    IN  [st EXCEPT
            !.accepted = @ \cup {e},
            !.floor[e.dev] = IF reroots THEN e.lam ELSE @,
            !.owed[e.dev] = IF e.lam >= owed THEN -1 ELSE owed]

\* Store d receives e from store p.  What a device that is no effective
\* writer signed is refused (Unauthorized).
Ingest(d, p, e) ==
    /\ tx = NoTx
    /\ p # d
    /\ Effective(store[d], e.dev)
    /\ IsOffered(store[p], e.dev, Tip(store[d], e.dev), e)
    /\ store' = [store EXCEPT ![d] = Evaluated(Rooted(@, e, store[p]), e, d, TRUE)]
    /\ UNCHANGED <<tx, edits>>

-----------------------------------------------------------------------------
(* The rest of the program writes rows, without any bookkeeping *)

\* What a row can be made to hold by a raw write.
Holdable(st) ==
    (IF st.ver = 1 THEN OldCells ELSE Cells) \cup Malformed \cup {Absent}

Edit(d, r, c) ==
    /\ tx = NoTx
    /\ c \in Holdable(store[d])
    /\ c # store[d].rows[r].cells
    /\ edits < MaxEdits
    /\ store' = [store EXCEPT ![d].rows[r].cells = c]
    /\ edits' = edits + 1
    /\ UNCHANGED tx

-----------------------------------------------------------------------------
(* Authoring: produce.rs produce_row_ops, engine.rs produce_and_author *)

\* Mutant: a hash of another column set that differs is taken for a change.
OwesUpsertIfStale(st, r) == LocallyChanged(st, r) \/ Stale(st, r)

OwesUpsert(st, r) == LocallyChanged(st, r) \/ UnresolvedWinner(st, r)

\* A stale record of an unchanged row is restamped by the scan.
Restamped(st) ==
    [st EXCEPT !.rows = [r \in Row |->
        IF Stale(st, r) /\ st.rows[r].cells \in WinningCells(st, r)
        THEN [@[r] EXCEPT !.pub = st.rows[r].cells, !.pubVer = st.ver]
        ELSE @[r]]]

BeginProduce(d) ==
    /\ tx = NoTx
    /\ Effective(store[d], d)
    /\ LET st == store[d]
           owed == IF StreamPending(st) THEN {}
                   ELSE {r \in Row : OwesUpsert(st, r) \/ LocallyDeleted(st, r)}
       IN  /\ owed # {} \/ st.deferred # {} \/ st.work # {} \/ Restamped(st) # st
           /\ tx' = [kind |-> "produce", dev |-> d, who |-> d,
                     st |-> IF StreamPending(st) THEN st ELSE Restamped(st),
                     rows |-> owed, replay |-> st.deferred]
    /\ UNCHANGED <<store, edits>>

\* Sign an entry at the time n and apply it to the own rows.
Authored(st, id, kind, items) ==
    LET e == [dev |-> id.dev, lam |-> id.lam, kind |-> kind, ver |-> st.ver, items |-> items]
    IN  Projected([st EXCEPT !.accepted = @ \cup {e}], e, Named(e))

\* The Upsert of the row's current contents, or the Remove of a missing row.
RowOp(st, id, r) ==
    LET gone == st.rows[r].cells = Absent
        item == [id |-> id, cells |-> IF gone THEN NoCells ELSE st.rows[r].cells]
    IN  Authored(st, id, IF gone THEN "remove" ELSE "upsert",
                 [x \in Row |-> IF x = r THEN item ELSE NoItem])

\* A locally signed op that does not take its row fails the pass.
SelfApplies(st, id, r) ==
    IF st.rows[r].cells = Absent
    THEN ~Beats(st.rows[r].clock, id)
    ELSE Takes(st.rows[r], id)

\* The transaction signs row r's op at time n and applies it.
SignsRow(r, n) ==
    LET id == [lam |-> n, dev |-> tx.dev] IN
    /\ IsNextLamport(tx.st, n)
    /\ SelfApplies(tx.st, id, r)
    /\ tx' = [tx EXCEPT !.st = RowOp(@, id, r), !.rows = @ \ {r}]
    /\ UNCHANGED <<store, edits>>

\* The producer's ops in order: the upserts of the scan, then the removes.
AuthorRow(r, n) ==
    /\ tx # NoTx
    /\ tx.kind = "produce"
    /\ r \in tx.rows
    /\ tx.st.rows[r].cells = Absent => \A x \in tx.rows : tx.st.rows[x].cells = Absent
    /\ SignsRow(r, n)

\* Whether replaying e moved merge state, from what `before` held: Applied,
\* or a part of a restatement settled.  A lone write must win its row.
Moved(after, before, e) ==
    IF Restates(e) THEN after.rows # before.rows
    ELSE /\ e \notin Pending(after)
         /\ \E r \in Named(e) : IF Rewrites(e) THEN Takes(before.rows[r], e.items[r].id)
                              ELSE ~Beats(before.rows[r].clock, e.items[r].id)

\* Mutant: what a replay brought back of a removed writer is nobody's to carry.
RearmedNever(after, before, e) == after

\* rearm_removed_writers: a replayed entry may have brought back merge state
\* of a writer that was removed, and drained, while it was parked.
Rearmed(after, before, e) ==
    LET named == {e.dev} \cup {e.items[r].id.dev : r \in
                    IF e \in Pending(after) THEN Named(e) \ Blocked(before, e) ELSE Named(e)}
    IN  IF Moved(after, before, e)
        THEN [after EXCEPT !.work = @ \cup {x \in Device : x \in named /\ Removed(after, x)}]
        ELSE after

\* replay_worklist, in (lamport, device) order.
ReplayNext(e) ==
    /\ tx # NoTx
    /\ tx.rows = {}
    /\ e \in tx.replay
    /\ \A x \in tx.replay : x = e \/ e.lam < x.lam \/ (e.lam = x.lam /\ e.dev < x.dev)
    /\ tx' = [tx EXCEPT !.st = Rearmed(Evaluated(@, e, tx.dev, FALSE), @, e), !.replay = @ \ {e}]
    /\ UNCHANGED <<store, edits>>

\* Opening the store runs the refold: over everything pending when the
\* binary is newer than the last, over the deferred entries otherwise.
Open(d, v) ==
    /\ tx = NoTx
    /\ v \in store[d].ver..MaxVersion
    /\ v > store[d].ver \/ store[d].deferred # {}
    /\ tx' = [kind |-> "open", dev |-> d, who |-> d, st |-> [store[d] EXCEPT !.ver = v], rows |-> {},
              replay |-> IF v > store[d].ver THEN Pending(store[d]) ELSE store[d].deferred]
    /\ UNCHANGED <<store, edits>>

\* A pass that authors drains the removals before it commits, if it can.
Commit ==
    /\ tx # NoTx
    /\ \/ tx.kind \in {"open", "drained"}
       \/ tx.kind = "produce" /\ (tx.st.work = {} \/ StreamPending(tx.st))
    /\ tx.rows = {} /\ tx.replay = {}
    /\ store' = [store EXCEPT ![tx.dev] = tx.st]
    /\ tx' = NoTx
    /\ UNCHANGED edits

Abort ==
    /\ tx # NoTx
    /\ tx' = NoTx
    /\ UNCHANGED <<store, edits>>

-----------------------------------------------------------------------------
(* Retention: retention.rs, transport.rs compact_overdue_against *)

\* Mutant: a delete pins nothing.
PinOfLive(st, d, r) ==
    IF st.rows[r].clock # NoClock THEN st.rows[r].carriers[d] ELSE -1

\* The entry of d's chain that carries row r's merge state, -1 if none does:
\* the live write's, or the delete's while the row has no live write.
PinOf(st, d, r) ==
    IF st.rows[r].clock # NoClock THEN st.rows[r].carriers[d]
    ELSE IF st.rows[r].tomb # NoClock THEN st.rows[r].tombCarriers[d]
    ELSE -1

\* Where d's chain begins, as retention counts: no floor counts as zero.
From(st, d) == Max({0, st.floor[d]})

\* chain_pins, from the retained floor up to below `target`.
PinnedRows(st, d, target) ==
    {r \in Row : From(st, d) <= PinOf(st, d, r) /\ PinOf(st, d, r) < target}

\* The floor the budget asks for: it keeps the newest Keep reclaimable
\* entries, and clamps at the oldest pending one.
Target(st, d) ==
    LET reclaimable == Chain(st, d) \ Pending(st)
        budget == {x \in reclaimable :
                     Cardinality({y \in reclaimable : y.lam < x.lam})
                         = Cardinality(reclaimable) - Keep}
    IN  IF Keep = 0 \/ Cardinality(reclaimable) <= Keep THEN -1
        ELSE Min(Lams(budget \cup (Chain(st, d) \cap Pending(st))))

\* The floor d's chain gets: the target or the oldest pin below it, if that
\* is an advance.
FloorBelow(st, d, target) ==
    LET floor == Min({target} \cup {PinOf(st, d, r) : r \in PinnedRows(st, d, target)})
    IN  IF floor <= From(st, d) THEN st.floor[d] ELSE floor

FloorOf(st, d) == FloorBelow(st, d, Target(st, d))

\* pending_entry_at_or_above
PendingAbove(st, lam) == \E x \in Pending(st) : x.lam >= lam

\* The contents are what was published for the write the clock names.
AsPublished(st, r) == st.rows[r].pub = st.rows[r].cells /\ st.rows[r].pubVer = st.ver

\* row_repair_op on an own pin: a live row of the own device is signed again
\* at the tail, unless an entry that cannot be applied yet sits above it; one
\* of another device is restated, if it is what was published; a delete is
\* restated while no row exists.
Carriable(st, d, r) ==
    LET x == st.rows[r] IN
    \/ /\ x.clock # NoClock /\ x.cells \in Cells
       /\ IF x.clock.dev = d THEN ~PendingAbove(st, x.clock.lam) ELSE AsPublished(st, r)
    \/ x.clock = NoClock /\ x.cells = Absent

\* Compaction first carries a run of the own chain's oldest pins forward.
\* How long a run pays for itself (pins_worth_reauthoring) is left open.
IsRun(st, d, run) ==
    /\ run \subseteq PinnedRows(st, d, Target(st, d))
    /\ run # {} => Effective(st, d)
    /\ \A r \in run :
          /\ Carriable(st, d, r)
          /\ \A x \in PinnedRows(st, d, Target(st, d)) :
                PinOf(st, d, x) <= PinOf(st, d, r) => x \in run

BeginCompact(d, run) ==
    /\ tx = NoTx
    /\ ~StreamPending(store[d])
    /\ IsRun(store[d], d, run)
    /\ run # {} \/ \E c \in Device : FloorOf(store[d], c) > store[d].floor[c]
    /\ tx' = [kind |-> "compact", dev |-> d, who |-> d, st |-> store[d], rows |-> run,
              replay |-> {}]
    /\ UNCHANGED <<store, edits>>

Carrying == tx # NoTx /\ tx.kind \in {"compact", "readopt"}

Live(r) == tx.st.rows[r].clock # NoClock

\* What is signed again at the tail: in compaction a live row of the own
\* device, in re-adoption a delete of a scope that retains everything.
AtTail(r) ==
    IF tx.kind = "compact" THEN Live(r) /\ tx.st.rows[r].clock.dev = tx.dev
    ELSE ~Live(r) /\ Keep = 0

\* The Lamport time the carried state was last stated at.
StatedAt(r) ==
    IF PinOf(tx.st, tx.who, r) # -1 THEN PinOf(tx.st, tx.who, r) ELSE tx.st.rows[r].tomb.lam

\* One by one, oldest first.
CarryRow(r, n) ==
    /\ Carrying
    /\ r \in tx.rows
    /\ AtTail(r)
    /\ \A x \in tx.rows : AtTail(x) => StatedAt(r) <= StatedAt(x)
    /\ SignsRow(r, n)

\* What is left is restated at its identities, in one entry of deletes ...
CarryDeletes(n) ==
    /\ Carrying
    /\ \A r \in tx.rows : ~AtTail(r)
    /\ \E r \in tx.rows : ~Live(r)
    /\ IsNextLamport(tx.st, n)
    /\ tx' = [tx EXCEPT
                !.st = Authored(@, [lam |-> n, dev |-> tx.dev], "restate",
                          [r \in Row |-> IF r \notin tx.rows \/ Live(r) THEN NoItem
                                       ELSE [id |-> tx.st.rows[r].tomb, cells |-> NoCells]]),
                !.rows = {r \in @ : Live(r)}]
    /\ UNCHANGED <<store, edits>>

\* ... and one of live rows.
CarryLive(n) ==
    /\ Carrying
    /\ tx.rows # {}
    /\ \A r \in tx.rows : Live(r) /\ ~AtTail(r)
    /\ IsNextLamport(tx.st, n)
    /\ tx' = [tx EXCEPT
                !.st = Authored(@, [lam |-> n, dev |-> tx.dev], "restaterows",
                          [r \in Row |-> IF r \notin tx.rows THEN NoItem
                                       ELSE [id |-> tx.st.rows[r].clock,
                                             cells |-> tx.st.rows[r].cells]]),
                !.rows = {}]
    /\ UNCHANGED <<store, edits>>

\* compact_chain_prefix on every chain whose floor advances.  The target of
\* the own chain is the one from before its pins were carried.
Compacted(st, d, before) ==
    LET floor == [c \in Device |->
                    IF c = d THEN FloorBelow(st, d, Target(before, d)) ELSE FloorOf(st, c)]
    IN  [st EXCEPT
            !.floor = floor,
            !.accepted = {x \in @ : \/ floor[x.dev] = st.floor[x.dev]
                                    \/ x.lam >= floor[x.dev]
                                    \/ x \in Pending(st)}]

CompactChains ==
    /\ tx # NoTx
    /\ tx.kind = "compact"
    /\ tx.rows = {}
    /\ LET st == Compacted(tx.st, tx.dev, store[tx.dev]) IN
       /\ \A c \in Device : st.floor[c] # tx.st.floor[c] => st.floor[c] \in Lams(Chain(tx.st, c))
       /\ store' = [store EXCEPT ![tx.dev] = st]
    /\ tx' = NoTx
    /\ UNCHANGED edits

-----------------------------------------------------------------------------
(* Removal and re-adoption: engine.rs process_readoption_work_for_stream *)

\* The store folds the next change of x's enrolment.  A removal enqueues its
\* re-adoption, and the suffix x's chain owed will never arrive
\* (enqueue_readoption_work).
Folded(st, x) ==
    [st EXCEPT !.epoch[x] = @ + 1,
               !.work = IF Removed(st, x) THEN @ ELSE @ \cup {x},
               !.owed[x] = IF Removed(st, x) THEN @ ELSE -1]

Fold(d, x) ==
    /\ tx = NoTx
    /\ store[d].epoch[x] < Roster[x]
    /\ store' = [store EXCEPT ![d] = Folded(@, x)]
    /\ UNCHANGED <<tx, edits>>

\* Mutant: what another chain carries too is left to it.
CandidatesUncarried(st, x, d) ==
    {r \in Row :
        LET y == st.rows[r]
            only(c) == \A z \in Device : c[z] # -1 => z = x
        IN  IF y.clock # NoClock
            THEN only(y.carriers) /\ (y.clock.dev = x \/ y.carriers[x] # -1)
            ELSE /\ y.tomb # NoClock /\ only(y.tombCarriers)
                 /\ y.tomb.dev = x \/ y.tombCarriers[x] # -1}

\* Mutant: the removed writer's deletes are nobody's to carry.
CandidatesLive(st, x, d) ==
    {r \in Row :
        LET y == st.rows[r] IN
        /\ y.clock # NoClock /\ y.carriers[d] = -1
        /\ y.clock.dev = x \/ (y.carriers[x] # -1 /\ y.clock.dev # d)}

\* readoption_candidates: the rows x wrote or carries and the own chain d
\* does not carry yet.
Candidates(st, x, d) ==
    {r \in Row :
        LET y == st.rows[r] IN
        IF y.clock # NoClock
        THEN /\ y.carriers[d] = -1
             /\ y.clock.dev = x \/ (y.carriers[x] # -1 /\ y.clock.dev # d)
        ELSE /\ y.tomb # NoClock /\ y.tombCarriers[d] = -1
             /\ y.tomb.dev = x \/ y.tombCarriers[x] # -1}

\* row_repair_op on a candidate: it cannot be carried today ...
Unrepairable(st, r) ==
    LET y == st.rows[r] IN
    \/ y.cells = Unreadable
    \/ y.clock # NoClock /\ y.cells \in Cells /\ ~AsPublished(st, r)
    \/ y.clock = NoClock /\ y.cells = Absent /\ Keep = 0 /\ PendingAbove(st, y.tomb.lam)

\* ... or the physical row is not the merge state's, and it is skipped.
Adoptable(st, r) ==
    /\ ~Unrepairable(st, r)
    /\ (st.rows[r].cells = Absent) <=> (st.rows[r].clock = NoClock)

\* The pass that authored drains one removal.  A writer whose removal
\* no longer counts needs nobody to carry its rows.
BeginReadopt(x) ==
    /\ tx # NoTx
    /\ tx.kind = "produce"
    /\ tx.rows = {} /\ tx.replay = {}
    /\ x \in tx.st.work
    /\ ~StreamPending(tx.st)
    /\ tx' = [tx EXCEPT !.kind = "readopt", !.who = x,
                        !.rows = IF Removed(tx.st, x)
                                 THEN {r \in Candidates(tx.st, x, tx.dev) : Adoptable(tx.st, r)}
                                 ELSE {}]
    /\ UNCHANGED <<store, edits>>

\* The removal is complete unless a row could not be carried; then the pass
\* ends and the removal stays pending.
EndReadopt ==
    /\ tx # NoTx
    /\ tx.kind = "readopt"
    /\ tx.rows = {}
    /\ LET stuck == /\ Removed(tx.st, tx.who)
                    /\ \E r \in Candidates(tx.st, tx.who, tx.dev) : Unrepairable(tx.st, r)
       IN  tx' = IF stuck THEN [tx EXCEPT !.kind = "drained", !.who = tx.dev]
                 ELSE [tx EXCEPT !.kind = "produce", !.who = tx.dev,
                                 !.st.work = @ \ {tx.who}]
    /\ UNCHANGED <<store, edits>>

-----------------------------------------------------------------------------
Next ==
    \/ \E d, p \in Device : \E e \in store[p].accepted : Ingest(d, p, e)
    \/ \E d \in Device, r \in Row :
          \E c \in Holdable(store[d]) : Edit(d, r, c)
    \/ \E d \in Device : BeginProduce(d)
    \/ \E r \in Row, n \in 0..MaxLamport : AuthorRow(r, n)
    \/ tx # NoTx /\ \E e \in tx.replay : ReplayNext(e)
    \/ \E d \in Device : \E v \in 1..MaxVersion : Open(d, v)
    \/ Commit
    \/ Abort
    \/ \E d \in Device, run \in SUBSET Row : BeginCompact(d, run)
    \/ \E r \in Row, n \in 0..MaxLamport : CarryRow(r, n)
    \/ \E n \in 0..MaxLamport : CarryDeletes(n)
    \/ \E n \in 0..MaxLamport : CarryLive(n)
    \/ CompactChains
    \/ \E d, x \in Device : Fold(d, x)
    \/ \E x \in Device : BeginReadopt(x)
    \/ EndReadopt

Spec == Init /\ [][Next]_vars

-----------------------------------------------------------------------------
(* Properties *)

\* Every table holds what its columns declare, and only entries that are
\* still in the log are owed a replay (mark_entry_pending).
TypeOK ==
    /\ store \in [Device -> Store]
    /\ tx \in TxType \cup {NoTx}
    /\ edits \in 0..MaxEdits
    /\ \A d \in Device : Pending(store[d]) \subseteq store[d].accepted

\* The store's rows, committed or in the transaction.
States == {store[d] : d \in Device} \cup (IF tx = NoTx THEN {} ELSE {tx.st})

\* A live write clock and a tombstone coexist only with the clock newer:
\* row_repair_op takes a live clock for the owner of the row on that ground.
ClockNewerThanTombstone ==
    \A st \in States, r \in Row :
        st.rows[r].clock # NoClock => Beats(st.rows[r].clock, st.rows[r].tomb)

Writes(seen) == {x \in seen : x.cells # NoCells}
Deletes(seen) == {x \in seen : x.cells = NoCells}

IsLatest(x, statements) == \A y \in statements : y.id = x.id \/ Beats(x.id, y.id)

\* Order independence: whatever order writes, deletes and restatements were
\* settled in, also by replays, a row's tombstone is the latest delete and its
\* clock the latest write, if that is newer (settle_row, settle_delete).
MergeIsLatest ==
    \A st \in States, r \in Row :
        LET x == st.rows[r] IN
        /\ \A y \in Deletes(st.seen[r]) : ~Beats(y.id, x.tomb)
        /\ x.tomb # NoClock => \E y \in Deletes(st.seen[r]) : y.id = x.tomb
        /\ \A y \in Writes(st.seen[r]) :
              ~Beats(y.id, x.clock) \/ ~Beats(y.id, x.tomb)
        /\ x.clock # NoClock => \E y \in Writes(st.seen[r]) : y.id = x.clock

\* The published record is the write the clock names, and is gone with it:
\* the producer takes it for what every peer knows of the row.
PublishedIsWinner ==
    \A st \in States, r \in Row :
        LET x == st.rows[r] IN
        IF x.clock = NoClock THEN x.pub = Unpublished
        ELSE [id |-> x.clock, cells |-> x.pub] \in st.seen[r]

\* What was last published of a row, as row contents.
PublishedCells(x) == IF x.pub = Unpublished THEN Absent ELSE x.pub

\* A readable row that differs from what was published of it: local work no
\* peer has seen, whatever version the record was made under.
Dirty(st, r) ==
    st.rows[r].cells # Unreadable /\ st.rows[r].cells # PublishedCells(st.rows[r])

\* The store has everything every effective writer has, owes and is owed
\* nothing, and carried on what every removed writer left it.
Synced(d) ==
    /\ \A c \in Writers : Effective(store[d], c) => Tip(store[d], c) = Tip(store[c], c)
    /\ Pending(store[d]) = {}
    /\ ~StreamPending(store[d])
    /\ store[d].work = {}
    /\ \A r \in Row : store[d].rows[r].cells # Unreadable /\ ~Dirty(store[d], r)

\* Stores that have received everything agree on every row, however their
\* entries arrived, were deferred, replayed, compacted or skipped by adopting
\* a floor.
Converged ==
    \A d, c \in Device : Synced(d) /\ Synced(c) /\ store[d].epoch = store[c].epoch =>
        \A r \in Row : store[d].rows[r].cells = store[c].rows[r].cells

\* What a store serves a peer that has nothing: everything from the floor up,
\* of which the peer refuses what a removed writer signed.
Served(st) == {x \in st.accepted : x.lam >= st.floor[x.dev] /\ Effective(st, x.dev)}

ServedStatements(st, r) ==
    {x.items[r] : x \in {y \in Served(st) : r \in Named(y)}}

\* A peer that starts from this store's floors ends with this store's rows:
\* compaction drops no entry that is the only carrier of a live row, and no
\* delete that keeps an older write the store still serves from coming back.
FreshPeerComplete ==
    \A d \in Device : Synced(d) =>
        \A r \in Row :
            LET served == ServedStatements(store[d], r)
                live == {w \in Writes(served) :
                           /\ IsLatest(w, Writes(served))
                           /\ \A x \in Deletes(served) : Beats(w.id, x.id)}
            IN  IF store[d].rows[r].cells = Absent THEN live = {}
                ELSE \E w \in live : w.cells = store[d].rows[r].cells

\* Nobody signs a write nobody made: while everything is retained, the logs of
\* all stores together hold no more upserts than raw writes were made.  A row
\* that was received, whose record an upgrade made incomparable, or that a
\* removed writer left behind, is carried on and never written again: the
\* copy would beat a newer write its signer has not seen.
WritesAreEdits ==
    Cardinality({e \in UNION {st.accepted : st \in States} : e.kind = "upsert"}) <= edits

\* What a store signs at the tail takes its own row: produce_and_author and
\* author_repair treat anything else as a foreign clock and fail the pass.
SelfApplyWins ==
    tx # NoTx => \A r \in tx.rows, n \in 0..MaxLamport :
        /\ IsNextLamport(tx.st, n)
        /\ tx.kind = "produce" \/ tx.st.rows[r].clock # NoClock
        => SelfApplies(tx.st, [lam |-> n, dev |-> tx.dev], r)

\* Only the local program changes a row that holds unsent local work: no
\* received entry, replay, upgrade or compaction overwrites it, and authoring
\* publishes it as it stands.
LocalWorkKept ==
    [][\A d \in Writers, r \in Row :
          \/ ~Dirty(store[d], r)
          \/ store'[d].rows[r].cells = store[d].rows[r].cells
          \/ \E c \in Cells \cup {Absent, Unreadable} : Edit(d, r, c)]_vars

\* A pass of the producer leaves nothing to author behind.
ProduceSettles ==
    [][tx # NoTx /\ tx.kind \in {"produce", "drained"} /\ Commit /\ ~StreamPending(tx.st) =>
          \A r \in Row : ~Dirty(store'[tx.dev], r)]_vars
=============================================================================
