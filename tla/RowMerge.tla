------------------------------ MODULE RowMerge ------------------------------
(***************************************************************************)
(* Whole-row last-writer-wins: what one store keeps of one synced row, and *)
(* the two decisions, settle_row and settle_delete, every row op of        *)
(* apply.rs goes through.                                                  *)
(*                                                                         *)
(* The contents of a row's synced columns are a member of Cells.  A hash   *)
(* of the columns is the contents together with the version of the column  *)
(* set it covers (pub, pubVer): hashes of different column sets are never  *)
(* compared.  A version-1 after-image is the member of Cells whose later   *)
(* columns hold their declared defaults, so completing an older op         *)
(* (project_cells) is the identity on Cells.                               *)
(***************************************************************************)
EXTENDS Integers

CONSTANTS
    Device,  \* fingerprints; the order decides ties
    Row,     \* primary keys of one table
    Cells    \* contents of a row's synced columns

Absent == "absent"            \* no physical row
Unreadable == "unreadable"    \* a synced column holds no value of its type
Unpublished == "unpublished"  \* no published record
NoCells == "none"             \* what an item that states a delete carries

ASSUME MergeAssumption ==
    /\ Device \subseteq Nat
    /\ Cells \cap {Absent, Unreadable, Unpublished, NoCells} = {}

Clock == [lam : Nat, dev : Device]

\* A missing clock is below every clock, so "none stored" needs no case.
NoClock == [lam |-> -1, dev |-> 0]

\* Mutant: ties go to whoever comes last.
BeatsOrTies(x, y) == x.lam >= y.lam

\* RowClock::beats
Beats(x, y) == x.lam > y.lam \/ (x.lam = y.lam /\ x.dev < y.dev)

NoCarriers == [d \in Device |-> -1]

\* cells: the physical row.  clock, carriers: the latest write and, per
\* chain that carries it, the entry that does.  tomb, tombCarriers: the same
\* for the latest delete.  pub, pubVer: the published record.
RowState ==
    [cells : Cells \cup {Absent, Unreadable},
     clock : Clock \cup {NoClock}, carriers : [Device -> Int],
     tomb : Clock \cup {NoClock}, tombCarriers : [Device -> Int],
     pub : Cells \cup {Unpublished}, pubVer : Nat]

EmptyRow ==
    [cells |-> Absent, clock |-> NoClock, carriers |-> NoCarriers,
     tomb |-> NoClock, tombCarriers |-> NoCarriers,
     pub |-> Unpublished, pubVer |-> 0]

\* state_row and its tombstone twin: a statement advances, never falls back.
Stated(carriers, signer) ==
    [carriers EXCEPT ![signer.dev] = IF signer.lam > @ THEN signer.lam ELSE @]

OnlyCarrier(signer) == [NoCarriers EXCEPT ![signer.dev] = signer.lam]

\* raise_tombstone
RaiseTombstone(st, id, signer) ==
    IF Beats(id, st.tomb)
    THEN [st EXCEPT !.tomb = id, !.tombCarriers = OnlyCarrier(signer)]
    ELSE IF id = st.tomb
    THEN [st EXCEPT !.tombCarriers = Stated(@, signer)]
    ELSE st

\* Mutant: a delete that loses to the row's clock leaves no tombstone.
SettleDeleteForgetful(st, id, signer) ==
    IF Beats(st.clock, id) THEN st
    ELSE RaiseTombstone([st EXCEPT !.cells = Absent, !.clock = NoClock,
                                   !.carriers = NoCarriers, !.pub = Unpublished],
                        id, signer)

\* Mutant: a delete that wins leaves the published record behind.
SettleDeleteKeepingRecord(st, id, signer) ==
    RaiseTombstone(
        IF Beats(st.clock, id) THEN st
        ELSE [st EXCEPT !.cells = Absent, !.clock = NoClock, !.carriers = NoCarriers],
        id, signer)

\* settle_delete: the delete `id`, carried by the entry `signer`, takes the
\* row unless a newer write keeps it; the tombstone rises either way.
SettleDelete(st, id, signer) ==
    RaiseTombstone(
        IF Beats(st.clock, id) THEN st
        ELSE [st EXCEPT !.cells = Absent, !.clock = NoClock,
                        !.carriers = NoCarriers, !.pub = Unpublished],
        id, signer)

\* Mutant: a write is not compared with the tombstone.
TakesIgnoringTombstone(st, id) == Beats(id, st.clock)

\* row_would_take: the write `id` beats the tombstone and the clock.
Takes(st, id) == Beats(id, st.tomb) /\ Beats(id, st.clock)

\* settle_row: the write `id` of `cells`, carried by `signer`, under a binary
\* whose column set is `ver`.
SettleRow(st, cells, id, signer, ver) ==
    IF Takes(st, id)
    THEN [st EXCEPT !.cells = cells, !.clock = id, !.carriers = OnlyCarrier(signer),
                    !.pub = cells, !.pubVer = ver]
    ELSE IF /\ Beats(id, st.tomb)
            /\ id = st.clock \/ (signer # id /\ id.dev = st.clock.dev)
    THEN [st EXCEPT !.carriers = Stated(@, signer)]
    ELSE st

-----------------------------------------------------------------------------
(* Entries and what applying one does *)

\* An entry's op names one or more rows; per row, the identity the write or
\* delete competes under and, for a write, the after-image.  An Upsert or a
\* Remove names one row at the entry's own identity; a Restate re-carries
\* earlier deletes and a RestateRows earlier writes at theirs.
EntryId(e) == [lam |-> e.lam, dev |-> e.dev]

Statement == [id : Clock, cells : Cells \cup {NoCells}]
NoItem == [id |-> NoClock, cells |-> NoCells]

\* The rows an entry names.
Named(e) == {r \in Row : e.items[r] # NoItem}

\* The op carries after-images.
Rewrites(e) == e.kind \in {"upsert", "restaterows"}

\* The op carries statements other entries made first.
Restates(e) == e.kind \in {"restate", "restaterows"}

\* Only an op with after-images is gated on the version of its column set.
VersionGap(e, ver) == Rewrites(e) /\ e.ver > ver

\* A restatement at or above its own Lamport time is quarantined whole.
StatesAhead(e) ==
    Restates(e) /\ \E r \in Named(e) : e.items[r].id.lam >= e.lam

Settle(st, e, r, ver) ==
    IF Rewrites(e)
    THEN SettleRow(st, e.items[r].cells, e.items[r].id, EntryId(e), ver)
    ELSE SettleDelete(st, e.items[r].id, EntryId(e))

\* apply_row_op_on_stream for the part of `e` that names the rows in `part`.
Apply(rows, e, part, ver) ==
    IF StatesAhead(e) \/ VersionGap(e, ver) THEN rows
    ELSE [r \in Row |-> IF r \in part THEN Settle(rows[r], e, r, ver) ELSE rows[r]]
=============================================================================
