------------------------- MODULE RowRetainedProofs -------------------------
(***************************************************************************)
(* What a scope that retains everything (Keep = 0) promises: stores that   *)
(* have received everything agree, a peer that starts from one of them     *)
(* ends with its rows, nobody signs a write nobody made, and no row with   *)
(* unsent local work is overwritten.  For every number of devices, rows,   *)
(* contents and versions.                                                  *)
(*                                                                         *)
(* A world is one store per device: the committed ones, or those with the  *)
(* transaction in progress in place of the store it works on (Now).  Every *)
(* step replaces one store of a world by the next one, so the invariant    *)
(* (World) is kept for both, and a commit makes the second the first.      *)
(***************************************************************************)
EXTENDS RowPublishedProofs, FiniteSetTheorems

\* The stores, with the transaction's in place of the one it works on.
Now == IF tx = NoTx THEN store ELSE [store EXCEPT ![tx.dev] = tx.st]

\* Nothing was dropped: no chain has a floor, none owes a suffix, deletes are
\* signed again and never restated, and no entry is quarantined.
Whole(st) ==
    /\ \A d \in Device : st.floor[d] = -1 /\ st.owed[d] = -1
    /\ \A e \in st.accepted : e.kind # "restate" /\ e.dev \in Writers /\ ~StatesAhead(e)

\* What is settled is what the entries that are not parked state, and what is
\* settled is in the log.
Remembered(st) ==
    /\ \A e \in st.accepted \ Pending(st) : \A r \in Named(e) : e.items[r] \in st.seen[r]
    /\ \A r \in Row : \A s \in st.seen[r] :
          \E e \in st.accepted : r \in Named(e) /\ e.items[r] = s

\* The entry states the write that row r's clock names: it made it, or its
\* chain carries it there.
Carries(st, r, e) ==
    /\ Rewrites(e) /\ r \in Named(e)
    /\ e.items[r].id = st.rows[r].clock
    /\ EntryId(e) = st.rows[r].clock \/ e.lam = st.rows[r].carriers[e.dev]

\* The device's rows are looked after: it is a writer, or its removal is
\* still to be worked off.
InCharge(st, d) == Effective(st, d) \/ d \in st.work

\* Row r's write is carried by a chain that is looked after; so is the
\* chain of the delete of a row that has no write.
AdoptedRow(st, r) ==
    LET x == st.rows[r] IN
    /\ x.clock # NoClock => \E e \in st.accepted : Carries(st, r, e) /\ InCharge(st, e.dev)
    /\ x.clock = NoClock /\ x.tomb # NoClock => InCharge(st, x.tomb.dev)
    /\ \A d \in Device : x.tombCarriers[d] # -1 => d = x.tomb.dev

\* The store's own chain: its entry for a row it carries is in the log ...
OwnCarrier(st, d, r) ==
    st.rows[r].carriers[d] # -1 =>
        \E e \in Chain(st, d) :
            /\ Rewrites(e) /\ r \in Named(e)
            /\ e.items[r].id = st.rows[r].clock
            /\ e.lam = st.rows[r].carriers[d]

\* ... its entries come one at a time, and what they write of a row never
\* goes back.
Ordered(x, y) ==
    /\ x.lam = y.lam => x = y
    /\ Rewrites(x) /\ Rewrites(y) /\ x.lam < y.lam =>
          \A r \in Named(x) \cap Named(y) : ~Beats(x.items[r].id, y.items[r].id)

OwnLog(st, d) ==
    /\ \A e \in Chain(st, d) : e \notin Pending(st)
    /\ \A r \in Row : OwnCarrier(st, d, r)
    /\ \A x, y \in Chain(st, d) : Ordered(x, y)

\* What holds of the store of device d by itself.
Kept(st, d) ==
    /\ Whole(st)
    /\ Remembered(st)
    /\ \A r \in Row : AdoptedRow(st, r)
    /\ OwnLog(st, d)

\* Every entry is a copy of one its signer holds, with all that the signer
\* signed before it, and states what the named device signed itself.
Copied(W, st, e) ==
    /\ e \in W[e.dev].accepted
    /\ \A x \in Chain(W[e.dev], e.dev) : x.lam <= e.lam => x \in st.accepted
    /\ \A r \in Named(e) :
          \E o \in W[e.items[r].id.dev].accepted :
              EntryId(o) = e.items[r].id /\ ~Restates(o) /\ o.items[r] = e.items[r]

Copies(W) == \A d \in Device : \A e \in W[d].accepted : Copied(W, W[d], e)

\* The upserts of all logs, and the rows with contents nobody signed yet.
Upserts(W) == {e \in UNION {W[d].accepted : d \in Device} : e.kind = "upsert"}

Unsigned(x) == x.cells \in Cells /\ x.cells # x.pub

Changed(W) == {p \in Device \X Row : Unsigned(W[p[1]].rows[p[2]])}

\* Each of them is a raw write of its own.
Counted(W, n) ==
    /\ IsFiniteSet(Upserts(W)) /\ IsFiniteSet(Changed(W))
    /\ Cardinality(Upserts(W)) + Cardinality(Changed(W)) <= n

World(W, n) ==
    /\ \A d \in Device : Kept(W[d], d)
    /\ Copies(W)
    /\ Counted(W, n)

\* What the steps of a transaction rely on: a pass that signs is a writer's,
\* it signs raw writes, and what it does not carry on of a removed writer
\* keeps the removal pending.
TxKept(t) ==
    /\ t.kind # "compact"
    /\ t.kind \in {"produce", "readopt", "drained"} => Effective(t.st, t.dev)
    /\ t.kind = "produce" =>
          \A r \in t.rows : t.st.rows[r].cells = Absent \/ Unsigned(t.st.rows[r])
    /\ t.kind = "readopt" =>
          /\ t.replay = {}
          /\ Removed(t.st, t.who) =>
                \A r \in Candidates(t.st, t.who, t.dev) : r \in t.rows \/ Unrepairable(t.st, r)
    /\ \A e \in t.replay : e.dev # t.dev

\* The row was signed after everything that is still to be replayed.
Sealed(t, r) ==
    LET x == t.st.rows[r] IN
    /\ x.clock = NoClock => x.cells = Absent
    /\ \A e \in t.replay : r \in Named(e) =>
          Beats(IF x.clock = NoClock THEN x.tomb ELSE x.clock, e.items[r].id)

\* The rows with unsent work when the transaction began are as they were.
WorkKept(st, t) ==
    t.dev \in Writers => \A r \in Row : Dirty(st, r) =>
        /\ t.st.rows[r].cells = st.rows[r].cells
        /\ Dirty(t.st, r) \/ Sealed(t, r)

KInv ==
    /\ World(store, edits)
    /\ World(Now, edits)
    /\ tx # NoTx => TxKept(tx) /\ WorkKept(store[tx.dev], tx)

-----------------------------------------------------------------------------
(* One row *)

\* What a write does to a row's merge state: it takes the row, or is recorded
\* as one more statement of what the row holds, or changes nothing.
LEMMA WriteSettles ==
    ASSUME NEW x \in RowState, NEW e, Fits(e), NEW r \in Named(e), Rewrites(e), NEW ver \in Nat
    PROVE  LET y == Settle(x, e, r, ver)
               id == e.items[r].id
               stated == [x.carriers EXCEPT ![e.dev] = IF e.lam > @ THEN e.lam ELSE @]
           IN  /\ y.tomb = x.tomb /\ y.tombCarriers = x.tombCarriers
               /\ Takes(x, id) => /\ y.clock = id /\ y.carriers = OnlyCarrier(EntryId(e))
                                  /\ y.pub = y.cells /\ y.cells = e.items[r].cells
               /\ ~Takes(x, id) => /\ y.clock = x.clock /\ y.cells = x.cells /\ y.pub = x.pub
                                   /\ \/ y.carriers = x.carriers
                                      \/ /\ Beats(id, x.tomb) /\ x.clock # NoClock
                                         /\ y.carriers = stated
               /\ id = x.clock /\ Beats(id, x.tomb) => y.carriers = stated
<1> DEFINE id == e.items[r].id
           cells == e.items[r].cells
           signer == EntryId(e)
           y == Settle(x, e, r, ver)
<1>1. id \in Clock /\ signer \in Clock /\ signer.dev = e.dev /\ signer.lam = e.lam
  BY EntryStates DEF EntryId
<1>2. y = SettleRow(x, cells, id, signer, ver)
  BY DEF Settle
<1>3. /\ x = [cells |-> x.cells, clock |-> x.clock, carriers |-> x.carriers, tomb |-> x.tomb,
              tombCarriers |-> x.tombCarriers, pub |-> x.pub, pubVer |-> x.pubVer]
      /\ x.clock \in Clk /\ x.tomb \in Clk /\ id \in Clk /\ id # NoClock
  BY <1>1 DEF RowState, Clk, Clock, NoClock
<1>4. ~Beats(x.clock, x.clock) /\ (x.clock = NoClock => Beats(id, x.clock))
  BY <1>3, BeatsOrder
<1> DEFINE stated == [x.carriers EXCEPT ![e.dev] = IF e.lam > @ THEN e.lam ELSE @]
<1>5. Stated(x.carriers, signer) = stated
  BY <1>1 DEF Stated
<1> HIDE DEF id, cells, signer, stated
<1>6. CASE Takes(x, id)
  <2>1. y = [x EXCEPT !.cells = cells, !.clock = id, !.carriers = OnlyCarrier(signer),
                      !.pub = cells, !.pubVer = ver]
    BY <1>2, <1>6 DEF SettleRow
  <2>2. id # x.clock
    BY <1>4, <1>6 DEF Takes
  <2> HIDE DEF y
  <2>3. /\ y.tomb = x.tomb /\ y.tombCarriers = x.tombCarriers /\ y.clock = id
        /\ y.carriers = OnlyCarrier(signer) /\ y.pub = cells /\ y.cells = cells
    BY <1>3, <2>1
  <2> QED BY <1>6, <2>2, <2>3 DEF y, id, cells, signer, stated
<1>7. CASE ~Takes(x, id)
  <2> DEFINE more == Beats(id, x.tomb) /\ (id = x.clock \/ (signer # id /\ id.dev = x.clock.dev))
  <2>1. y = IF more THEN [x EXCEPT !.carriers = stated] ELSE x
    BY <1>2, <1>5, <1>7 DEF SettleRow
  <2>2. more => Beats(id, x.tomb) /\ x.clock # NoClock
    BY <1>4, <1>7 DEF Takes
  <2>3. id = x.clock /\ Beats(id, x.tomb) => more
    OBVIOUS
  <2> HIDE DEF y, more
  <2>4. /\ y.tomb = x.tomb /\ y.tombCarriers = x.tombCarriers /\ y.clock = x.clock
        /\ y.pub = x.pub /\ y.cells = x.cells
        /\ y.carriers = IF more THEN stated ELSE x.carriers
    BY <1>3, <2>1
  <2> QED BY <1>7, <2>2, <2>3, <2>4 DEF y, id, cells, signer, stated
<1> QED BY <1>6, <1>7

\* What a delete does to a row's merge state.
LEMMA DeleteSettles ==
    ASSUME NEW x \in RowState, NEW e, Fits(e), NEW r \in Named(e), ~Rewrites(e), NEW ver \in Nat
    PROVE  LET y == Settle(x, e, r, ver)
               id == e.items[r].id
               stated == [x.tombCarriers EXCEPT ![e.dev] = IF e.lam > @ THEN e.lam ELSE @]
           IN  /\ Beats(x.clock, id) =>
                     /\ y.clock = x.clock /\ y.cells = x.cells /\ y.pub = x.pub
                     /\ y.carriers = x.carriers
               /\ ~Beats(x.clock, id) =>
                     /\ y.clock = NoClock /\ y.cells = Absent /\ y.pub = Unpublished
                     /\ \A c \in Device : y.carriers[c] = -1
               /\ Beats(id, x.tomb) => y.tomb = id /\ y.tombCarriers = OnlyCarrier(EntryId(e))
               /\ ~Beats(id, x.tomb) =>
                     /\ y.tomb = x.tomb
                     /\ y.tombCarriers = x.tombCarriers \/ (id = x.tomb /\ y.tombCarriers = stated)
<1> DEFINE id == e.items[r].id
           signer == EntryId(e)
           y == Settle(x, e, r, ver)
           stated == [x.tombCarriers EXCEPT ![e.dev] = IF e.lam > @ THEN e.lam ELSE @]
           base == IF Beats(x.clock, id) THEN x
                   ELSE [x EXCEPT !.cells = Absent, !.clock = NoClock,
                                  !.carriers = NoCarriers, !.pub = Unpublished]
<1>1. signer.dev = e.dev /\ signer.lam = e.lam
  BY DEF EntryId
<1>2. y = RaiseTombstone(base, id, signer)
  BY DEF Settle, SettleDelete
<1>3. x = [cells |-> x.cells, clock |-> x.clock, carriers |-> x.carriers, tomb |-> x.tomb,
           tombCarriers |-> x.tombCarriers, pub |-> x.pub, pubVer |-> x.pubVer]
  BY DEF RowState
<1> HIDE DEF id, signer
<1>4. /\ base = [cells |-> base.cells, clock |-> base.clock, carriers |-> base.carriers,
                 tomb |-> x.tomb, tombCarriers |-> x.tombCarriers, pub |-> base.pub,
                 pubVer |-> base.pubVer]
      /\ base.tomb = x.tomb /\ base.tombCarriers = x.tombCarriers
      /\ Beats(x.clock, id) => /\ base.clock = x.clock /\ base.cells = x.cells
                               /\ base.pub = x.pub /\ base.carriers = x.carriers
      /\ ~Beats(x.clock, id) => /\ base.clock = NoClock /\ base.cells = Absent
                                /\ base.pub = Unpublished /\ base.carriers = NoCarriers
  BY <1>3
<1>5. Stated(base.tombCarriers, signer) = stated
  BY <1>1, <1>4 DEF Stated
<1> HIDE DEF base, stated, y
<1>6. y = IF Beats(id, x.tomb) THEN [base EXCEPT !.tomb = id, !.tombCarriers = OnlyCarrier(signer)]
          ELSE IF id = x.tomb THEN [base EXCEPT !.tombCarriers = stated]
          ELSE base
  BY <1>2, <1>4, <1>5 DEF RaiseTombstone
<1>7. /\ y.clock = base.clock /\ y.cells = base.cells /\ y.pub = base.pub
      /\ y.carriers = base.carriers
      /\ y.tomb = IF Beats(id, x.tomb) THEN id ELSE x.tomb
      /\ y.tombCarriers = IF Beats(id, x.tomb) THEN OnlyCarrier(signer)
                          ELSE IF id = x.tomb THEN stated ELSE x.tombCarriers
  BY <1>4, <1>6
<1>8. \A c \in Device : NoCarriers[c] = -1
  BY DEF NoCarriers
<1> QED BY <1>4, <1>7, <1>8 DEF id, signer, stated, y

\* The row itself: a delete leaves it alone, or takes it away.
LEMMA DeleteTakes ==
    ASSUME NEW x \in RowState, NEW e, Fits(e), NEW r \in Named(e), ~Rewrites(e), NEW ver \in Nat
    PROVE  LET y == Settle(x, e, r, ver)
               id == e.items[r].id
           IN  /\ Beats(x.clock, id) =>
                     /\ y.clock = x.clock /\ y.cells = x.cells /\ y.pub = x.pub
                     /\ y.carriers = x.carriers
               /\ ~Beats(x.clock, id) =>
                     /\ y.clock = NoClock /\ y.cells = Absent /\ y.pub = Unpublished
                     /\ \A c \in Device : y.carriers[c] = -1
               /\ y.tomb = IF Beats(id, x.tomb) THEN id ELSE x.tomb
<1> DEFINE y == Settle(x, e, r, ver)
           id == e.items[r].id
           stated == [x.tombCarriers EXCEPT ![e.dev] = IF e.lam > @ THEN e.lam ELSE @]
<1>1. /\ Beats(x.clock, id) =>
            /\ y.clock = x.clock /\ y.cells = x.cells /\ y.pub = x.pub
            /\ y.carriers = x.carriers
      /\ ~Beats(x.clock, id) =>
            /\ y.clock = NoClock /\ y.cells = Absent /\ y.pub = Unpublished
            /\ \A c \in Device : y.carriers[c] = -1
      /\ Beats(id, x.tomb) => y.tomb = id /\ y.tombCarriers = OnlyCarrier(EntryId(e))
      /\ ~Beats(id, x.tomb) =>
            /\ y.tomb = x.tomb
            /\ y.tombCarriers = x.tombCarriers \/ (id = x.tomb /\ y.tombCarriers = stated)
  BY DeleteSettles
<1> HIDE DEF y, id
<1> QED BY <1>1 DEF y, id

-----------------------------------------------------------------------------
(* One store settles an entry *)

\* The store su is st with e in its log and settled on the rows in `part`.
Settles(st, su, e, part) ==
    /\ part \subseteq Named(e)
    /\ su.accepted = st.accepted \cup {e}
    /\ su.ver = st.ver /\ su.floor = st.floor /\ su.owed = st.owed /\ su.epoch = st.epoch
    /\ st.work \subseteq su.work
    /\ \A r \in Row : su.rows[r] =
          IF r \in part THEN Settle(st.rows[r], e, r, st.ver) ELSE st.rows[r]
    /\ \A r \in Row : su.seen[r] =
          IF r \in part THEN st.seen[r] \cup {e.items[r]} ELSE st.seen[r]
    /\ Pending(st) \ {e} \subseteq Pending(su) /\ Pending(su) \subseteq Pending(st) \cup {e}
    /\ e \in Pending(su) \/ part = Named(e)

\* The entry moves the row's merge state to what it states.
Moves(x, e, r) ==
    IF Rewrites(e) THEN Takes(x, e.items[r].id) ELSE ~Beats(x.clock, e.items[r].id)

\* The entry follows what the log holds of its chain.
Follows(st, e) == \A w \in st.accepted : w.dev = e.dev => Ordered(w, e)

\* The entry may be settled so by the store of d: it is one of a writer's
\* chain, where it moves a row its signer is looked after, and an own one is
\* new and states what the rows hold, or takes them.
Proper(st, su, e, part, d) ==
    /\ Fits(e) /\ e.kind # "restate" /\ e.dev \in Writers /\ ~StatesAhead(e)
    /\ Follows(st, e)
    /\ \A r \in part : Moves(st.rows[r], e, r) => InCharge(su, e.dev)
    /\ e.dev = d =>
          /\ e \notin Pending(su)
          /\ \A x \in st.accepted : x.lam < e.lam
          /\ Rewrites(e) => \A r \in part :
                Takes(st.rows[r], e.items[r].id) \/ e.items[r].id = st.rows[r].clock

\* Who is looked after stays so.
LEMMA InChargeStays ==
    ASSUME NEW st, NEW su, su.epoch = st.epoch, st.work \subseteq su.work, NEW d, InCharge(st, d)
    PROVE  InCharge(su, d)
  BY DEF InCharge, Effective, Removed

\* A delete is named by the entry that states it.
LEMMA DeleteNamesEntry ==
    ASSUME NEW e, Fits(e), e.kind # "restate", ~Rewrites(e), NEW r \in Named(e)
    PROVE  e.items[r].id = EntryId(e) /\ ~Restates(e)
  BY DEF Fits, Sound, Rewrites, Restates

\* A row's clocks are clocks, and a live one is newer than the tombstone.
LEMMA RowClocks ==
    ASSUME NEW st, StoreInv(st), StoreOK(st), NEW r \in Row
    PROVE  /\ st.rows[r] \in RowState
           /\ st.rows[r].clock \in Clk /\ st.rows[r].tomb \in Clk
           /\ st.rows[r].clock # NoClock => Beats(st.rows[r].clock, st.rows[r].tomb)
           /\ Latest(st.rows[r], st.seen[r])
           /\ \A s \in st.seen[r] : s.id \in Clk /\ s.id \in Clock
<1>1. st.rows[r] \in RowState /\ st.seen[r] \subseteq Statement
  BY DEF StoreOK, Typed
<1>2. RowInv(st.rows[r], st.seen[r])
  BY DEF StoreInv, RowsInv
<1> QED BY <1>1, <1>2 DEF RowInv, RowState, Clk, Statement

\* A write the store settled is not newer than the one its clock names.
LEMMA LatestWrite ==
    ASSUME NEW st, StoreInv(st), StoreOK(st), NEW r \in Row, NEW s \in st.seen[r],
           s.cells # NoCells, st.rows[r].clock # NoClock
    PROVE  ~Beats(s.id, st.rows[r].clock)
<1> DEFINE x == st.rows[r]
<1>1. /\ x.clock \in Clk /\ x.tomb \in Clk /\ s.id \in Clk
      /\ Beats(x.clock, x.tomb) /\ Latest(x, st.seen[r])
  BY RowClocks
<1>2. ~Beats(s.id, x.clock) \/ ~Beats(s.id, x.tomb)
  BY <1>1 DEF Latest, Writes
<1> QED BY <1>1, <1>2, BeatsOrder

\* The row stays carried by a chain that is looked after.
LEMMA AdoptedSettles ==
    ASSUME NEW st, StoreInv(st), StoreOK(st), NEW su, NEW e, NEW part, NEW d,
           Settles(st, su, e, part), Proper(st, su, e, part, d), NEW r \in Row,
           AdoptedRow(st, r), Whole(st)
    PROVE  AdoptedRow(su, r)
<1> DEFINE x == st.rows[r]
           y == su.rows[r]
           id == e.items[r].id
<1>1. /\ \A c : InCharge(st, c) => InCharge(su, c)
      /\ \A w \in st.accepted : w \in su.accepted
      /\ e \in su.accepted /\ Fits(e) /\ st.ver \in Nat /\ part \subseteq Named(e)
      /\ e.dev \in Device /\ e.lam \in Nat
  BY InChargeStays, RowsAssumption DEF Settles, Proper, StoreOK, Typed, Fits, Entry
<1>2. /\ x \in RowState /\ x.clock \in Clk /\ x.tomb \in Clk
      /\ x.clock # NoClock => Beats(x.clock, x.tomb)
      /\ x.carriers \in [Device -> Int] /\ x.tombCarriers \in [Device -> Int]
  BY RowClocks DEF RowState
<1>3. \A w \in st.accepted : w.lam \in Nat /\ w.dev \in Device
  BY DEF StoreOK, Typed, Entry
<1>4. CASE r \notin part
  <2>1. y = x
    BY <1>4 DEF Settles
  <2>2. \A w : Carries(st, r, w) => Carries(su, r, w)
    BY <2>1 DEF Carries
  <2> QED BY <1>1, <2>1, <2>2 DEF AdoptedRow
<1>5. CASE r \in part /\ Rewrites(e)
  <2>0. r \in Named(e) /\ y = Settle(x, e, r, st.ver)
    BY <1>1, <1>5 DEF Settles
  <2>1. /\ y.tomb = x.tomb /\ y.tombCarriers = x.tombCarriers
        /\ Takes(x, id) => y.clock = id /\ y.carriers = OnlyCarrier(EntryId(e))
        /\ ~Takes(x, id) => /\ y.clock = x.clock
                            /\ \/ y.carriers = x.carriers
                               \/ /\ Beats(id, x.tomb) /\ x.clock # NoClock
                                  /\ y.carriers = [x.carriers EXCEPT ![e.dev] =
                                                      IF e.lam > @ THEN e.lam ELSE @]
    BY <1>1, <1>2, <1>5, <2>0, WriteSettles
  <2>2. id \in Clock /\ id \in Clk /\ id # NoClock
    BY <1>1, <2>0, EntryStates DEF Clk, Clock, NoClock
  <2> HIDE DEF y
  <2>3. y.clock # NoClock => \E w \in su.accepted : Carries(su, r, w) /\ InCharge(su, w.dev)
    <3>1. CASE Takes(x, id)
      <4>1. y.carriers[e.dev] = e.lam
        BY <1>1, <2>1, <3>1 DEF OnlyCarrier, EntryId, NoCarriers
      <4>2. Carries(su, r, e)
        BY <1>5, <2>0, <2>1, <3>1, <4>1 DEF Carries, y
      <4>3. InCharge(su, e.dev)
        BY <1>5, <3>1 DEF Proper, Moves
      <4> QED BY <1>1, <4>2, <4>3
    <3>2. CASE ~Takes(x, id) /\ y.carriers = x.carriers
      <4>1. \A w : Carries(st, r, w) => Carries(su, r, w)
        BY <2>1, <3>2 DEF Carries, y
      <4> QED BY <1>1, <2>1, <3>2, <4>1 DEF AdoptedRow
    <3>3. CASE /\ ~Takes(x, id) /\ Beats(id, x.tomb) /\ x.clock # NoClock
               /\ y.carriers = [x.carriers EXCEPT ![e.dev] = IF e.lam > @ THEN e.lam ELSE @]
      <4>1. PICK w \in st.accepted : Carries(st, r, w) /\ InCharge(st, w.dev)
        BY <3>3 DEF AdoptedRow
      <4>2. /\ Rewrites(w) /\ r \in Named(w) /\ w.items[r].id = y.clock
            /\ EntryId(w) = y.clock \/ w.lam = x.carriers[w.dev]
        BY <2>1, <3>3, <4>1 DEF Carries
      <4>3. CASE EntryId(w) = y.clock \/ w.lam = y.carriers[w.dev]
        <5>1. Carries(su, r, w)
          BY <4>2, <4>3 DEF Carries, y
        <5> QED BY <1>1, <4>1, <5>1
      <4>4. CASE w.lam = x.carriers[w.dev] /\ w.lam # y.carriers[w.dev]
        <5>1. w.dev = e.dev
          BY <1>1, <1>2, <1>3, <3>3, <4>4
        <5>2. e.lam > w.lam /\ y.carriers[e.dev] = e.lam
          BY <1>1, <1>2, <1>3, <3>3, <4>4, <5>1
        <5>3. Ordered(w, e)
          BY <5>1 DEF Proper, Follows
        <5>4. r \in Named(w) \cap Named(e)
          BY <2>0, <4>2
        <5>5. w.lam < e.lam
          BY <1>1, <1>3, <5>2
        <5>6. ~Beats(y.clock, id)
          BY <1>5, <4>2, <5>3, <5>4, <5>5 DEF Ordered
        <5>7. ~Beats(id, y.clock)
          BY <2>1, <3>3 DEF Takes
        <5>8. id = y.clock
          BY <1>2, <2>1, <2>2, <3>3, <5>6, <5>7, BeatsOrder
        <5>9. Carries(su, r, e)
          BY <1>5, <2>0, <5>2, <5>8 DEF Carries, y
        <5> QED BY <1>1, <4>1, <5>1, <5>9
      <4> QED BY <4>2, <4>3, <4>4
    <3> QED BY <2>1, <3>1, <3>2, <3>3
  <2>4. y.clock = NoClock => x.clock = NoClock
    BY <2>1, <2>2
  <2> QED BY <1>1, <2>1, <2>3, <2>4 DEF AdoptedRow, y
<1>6. CASE r \in part /\ ~Rewrites(e)
  <2>0. r \in Named(e) /\ y = Settle(x, e, r, st.ver)
    BY <1>1, <1>6 DEF Settles
  <2>1. /\ Beats(x.clock, id) => y.clock = x.clock /\ y.carriers = x.carriers
        /\ ~Beats(x.clock, id) => y.clock = NoClock
        /\ Beats(id, x.tomb) => y.tomb = id /\ y.tombCarriers = OnlyCarrier(EntryId(e))
        /\ ~Beats(id, x.tomb) =>
              /\ y.tomb = x.tomb
              /\ \/ y.tombCarriers = x.tombCarriers
                 \/ id = x.tomb /\ y.tombCarriers = [x.tombCarriers EXCEPT ![e.dev] =
                                                       IF e.lam > @ THEN e.lam ELSE @]
    BY <1>1, <1>2, <1>6, <2>0, DeleteSettles
  <2>2. id \in Clk /\ id # NoClock /\ id = EntryId(e) /\ id.dev = e.dev
    <3>1. id \in Clock
      BY <1>1, <2>0, EntryStates
    <3>2. id = EntryId(e)
      BY <1>1, <1>6, <2>0, DeleteNamesEntry DEF Proper
    <3> QED BY <3>1, <3>2 DEF Clk, Clock, NoClock, EntryId
  <2> HIDE DEF y
  <2>3. \A c \in Device : y.tombCarriers[c] # -1 => c = y.tomb.dev
    <3>1. CASE Beats(id, x.tomb)
      BY <2>1, <2>2, <3>1 DEF OnlyCarrier, NoCarriers, EntryId
    <3>2. CASE ~Beats(id, x.tomb) /\ y.tombCarriers = x.tombCarriers
      BY <2>1, <3>2 DEF AdoptedRow
    <3>3. CASE /\ ~Beats(id, x.tomb) /\ id = x.tomb
               /\ y.tombCarriers = [x.tombCarriers EXCEPT ![e.dev] = IF e.lam > @ THEN e.lam ELSE @]
      BY <1>2, <2>1, <2>2, <3>3 DEF AdoptedRow
    <3> QED BY <2>1, <3>1, <3>2, <3>3
  <2>4. y.clock # NoClock => \E w \in su.accepted : Carries(su, r, w) /\ InCharge(su, w.dev)
    <3> SUFFICES ASSUME y.clock # NoClock
                 PROVE  \E w \in su.accepted : Carries(su, r, w) /\ InCharge(su, w.dev)
      OBVIOUS
    <3>1. y.clock = x.clock /\ y.carriers = x.carriers
      BY <2>1
    <3>2. \A w : Carries(st, r, w) => Carries(su, r, w)
      BY <3>1 DEF Carries, y
    <3> QED BY <1>1, <3>1, <3>2 DEF AdoptedRow
  <2>5. y.clock = NoClock /\ y.tomb # NoClock => InCharge(su, y.tomb.dev)
    <3> SUFFICES ASSUME y.clock = NoClock, y.tomb # NoClock
                 PROVE  InCharge(su, y.tomb.dev)
      OBVIOUS
    <3>1. ~Beats(x.clock, id)
      BY <1>2, <2>1, <2>2, BeatsOrder
    <3>2. InCharge(su, e.dev)
      BY <1>6, <3>1 DEF Proper, Moves
    <3>3. CASE y.tomb = id
      BY <2>2, <3>2, <3>3
    <3>4. CASE y.tomb # id
      <4>1. y.tomb = x.tomb /\ Beats(x.tomb, id)
        BY <1>2, <2>1, <2>2, <3>4, BeatsOrder
      <4>2. x.clock = NoClock
        BY <1>2, <2>2, <3>1, <4>1, BeatsOrder
      <4> QED BY <1>1, <4>1, <4>2 DEF AdoptedRow
    <3> QED BY <3>3, <3>4
  <2> QED BY <2>3, <2>4, <2>5 DEF AdoptedRow, y
<1> QED BY <1>4, <1>5, <1>6

\* The own chain carries what it says it carries.
LEMMA OwnCarrierSettles ==
    ASSUME NEW st, StoreInv(st), StoreOK(st), NEW su, NEW e, NEW part, NEW d \in Device,
           Settles(st, su, e, part), Proper(st, su, e, part, d), NEW r \in Row,
           OwnCarrier(st, d, r)
    PROVE  OwnCarrier(su, d, r)
<1> DEFINE x == st.rows[r]
           y == su.rows[r]
           id == e.items[r].id
<1>1. /\ Chain(st, d) \subseteq Chain(su, d) /\ (e.dev = d => e \in Chain(su, d))
      /\ Fits(e) /\ st.ver \in Nat /\ part \subseteq Named(e)
      /\ e.dev \in Device /\ e.lam \in Nat
  BY RowsAssumption DEF Settles, Proper, StoreOK, Typed, Fits, Entry, Chain
<1>2. /\ x \in RowState /\ x.carriers \in [Device -> Int]
      /\ x.tombCarriers \in [Device -> Int]
  BY RowClocks DEF RowState
<1>3. CASE y.clock = x.clock /\ y.carriers[d] = x.carriers[d]
  BY <1>1, <1>3 DEF OwnCarrier
<1>4. CASE r \in part /\ Rewrites(e) /\ e.dev = d /\ y.clock = id /\ y.carriers[d] = e.lam
  <2>1. e \in Chain(su, d) /\ r \in Named(e)
    BY <1>1, <1>4
  <2> QED BY <1>4, <2>1 DEF OwnCarrier
<1>5. CASE y.carriers[d] = -1
  BY <1>5 DEF OwnCarrier
<1>6. CASE r \notin part
  BY <1>3, <1>6 DEF Settles
<1>7. CASE r \in part /\ Rewrites(e)
  <2>0. r \in Named(e) /\ y = Settle(x, e, r, st.ver)
    BY <1>1, <1>7 DEF Settles
  <2>1. /\ Takes(x, id) => y.clock = id /\ y.carriers = OnlyCarrier(EntryId(e))
        /\ ~Takes(x, id) => /\ y.clock = x.clock
                            /\ \/ y.carriers = x.carriers
                               \/ y.carriers = [x.carriers EXCEPT ![e.dev] =
                                                   IF e.lam > @ THEN e.lam ELSE @]
    BY <1>1, <1>2, <1>7, <2>0, WriteSettles
  <2> HIDE DEF y
  <2>2. CASE Takes(x, id)
    <3>1. y.carriers[d] = IF d = e.dev THEN e.lam ELSE -1
      BY <1>1, <2>1, <2>2 DEF OnlyCarrier, NoCarriers, EntryId
    <3> QED BY <1>4, <1>5, <1>7, <2>1, <2>2, <3>1 DEF y
  <2>3. CASE ~Takes(x, id) /\ e.dev # d
    <3>1. y.carriers[d] = x.carriers[d]
      BY <1>1, <1>2, <2>1, <2>3
    <3> QED BY <1>3, <2>1, <2>3, <3>1 DEF y
  <2>4. CASE ~Takes(x, id) /\ e.dev = d
    <3>1. id = x.clock
      BY <1>7, <2>4 DEF Proper
    <3>2. y.carriers[d] = x.carriers[d] \/ y.carriers[d] = e.lam
      BY <1>1, <1>2, <2>1, <2>4
    <3> QED BY <1>3, <1>4, <1>7, <2>1, <2>4, <3>1, <3>2 DEF y
  <2> QED BY <2>2, <2>3, <2>4
<1>8. CASE r \in part /\ ~Rewrites(e)
  <2>0. r \in Named(e) /\ y = Settle(x, e, r, st.ver)
    BY <1>1, <1>8 DEF Settles
  <2>1. /\ Beats(x.clock, id) => y.clock = x.clock /\ y.carriers = x.carriers
        /\ ~Beats(x.clock, id) => y.carriers[d] = -1
    BY <1>1, <1>2, <1>8, <2>0, DeleteTakes
  <2> QED BY <1>3, <1>5, <2>1
<1> QED BY <1>6, <1>7, <1>8

\* What holds of a store by itself is kept when it settles an entry.
LEMMA KeptSettles ==
    ASSUME NEW st, StoreInv(st), StoreOK(st), NEW su, NEW e, NEW part, NEW d \in Device,
           Settles(st, su, e, part), Proper(st, su, e, part, d), Kept(st, d)
    PROVE  Kept(su, d)
<1>1. Whole(su)
  BY DEF Kept, Whole, Settles, Proper
<1>2. Remembered(su)
  <2>1. ASSUME NEW w \in su.accepted, w \notin Pending(su), NEW r \in Named(w)
        PROVE  w.items[r] \in su.seen[r]
    <3>0. r \in Row
      BY DEF Named
    <3>1. CASE w = e
      <4>1. part = Named(e)
        BY <2>1, <3>1 DEF Settles
      <4> QED BY <3>0, <3>1, <4>1 DEF Settles
    <3>2. CASE w # e
      <4>1. w \in st.accepted /\ w \notin Pending(st)
        BY <2>1, <3>2 DEF Settles
      <4>2. w.items[r] \in st.seen[r]
        BY <4>1 DEF Kept, Remembered
      <4> QED BY <3>0, <4>2 DEF Settles
    <3> QED BY <3>1, <3>2
  <2>2. ASSUME NEW r \in Row, NEW s \in su.seen[r]
        PROVE  \E w \in su.accepted : r \in Named(w) /\ w.items[r] = s
    <3>1. CASE s \in st.seen[r]
      <4>1. PICK w \in st.accepted : r \in Named(w) /\ w.items[r] = s
        BY <3>1 DEF Kept, Remembered
      <4> QED BY <4>1 DEF Settles
    <3>2. CASE r \in part /\ s = e.items[r]
      BY <3>2 DEF Settles
    <3> QED BY <3>1, <3>2 DEF Settles
  <2> QED BY <2>1, <2>2 DEF Remembered
<1>3. \A r \in Row : AdoptedRow(su, r)
  BY AdoptedSettles DEF Kept
<1>4. OwnLog(su, d)
  <2>1. ASSUME NEW w \in Chain(su, d)
        PROVE  w \notin Pending(su)
    <3>1. CASE w = e
      BY <3>1 DEF Chain, Proper
    <3>2. CASE w # e
      <4>1. w \in Chain(st, d)
        BY <3>2 DEF Chain, Settles
      <4>2. w \notin Pending(st)
        BY <4>1 DEF Kept, OwnLog
      <4> QED BY <3>2, <4>2 DEF Settles
    <3> QED BY <3>1, <3>2
  <2>2. \A r \in Row : OwnCarrier(su, d, r)
    BY OwnCarrierSettles DEF Kept, OwnLog
  <2>3. ASSUME NEW w \in Chain(su, d), NEW v \in Chain(su, d)
        PROVE  Ordered(w, v)
    <3>0. /\ w = e \/ w \in Chain(st, d)
          /\ v = e \/ v \in Chain(st, d)
          /\ \A z \in Chain(st, d) : z.lam \in Nat /\ z.dev = d /\ z \in st.accepted
          /\ e.lam \in Nat
      BY DEF Chain, Settles, StoreOK, Typed, Entry, Proper, Fits
    <3>1. CASE w \in Chain(st, d) /\ v \in Chain(st, d)
      BY <3>1 DEF Kept, OwnLog
    <3>2. CASE w \in Chain(st, d) /\ v = e
      <4>1. e.dev = d
        BY <3>2 DEF Chain
      <4> QED BY <3>0, <3>2, <4>1 DEF Proper, Follows
    <3>3. CASE w = e /\ v \in Chain(st, d)
      <4>1. e.dev = d
        BY <3>3 DEF Chain
      <4>2. v.lam < e.lam
        BY <3>0, <3>3, <4>1 DEF Proper
      <4> QED BY <3>0, <3>3, <4>2 DEF Ordered
    <3>4. CASE w = e /\ v = e
      BY <3>0, <3>4 DEF Ordered
    <3> QED BY <3>0, <3>1, <3>2, <3>3, <3>4
  <2> QED BY <2>1, <2>2, <2>3 DEF OwnLog
<1> QED BY <1>1, <1>2, <1>3, <1>4 DEF Kept

\* What holds of a store by itself does not depend on the contents of its
\* rows, its version, or the roster as long as nobody is left alone.
LEMMA KeptBooks ==
    ASSUME NEW st, NEW su, NEW d, Kept(st, d),
           su.accepted = st.accepted, su.seen = st.seen, su.floor = st.floor,
           \A c \in Device : su.owed[c] = -1, Pending(su) = Pending(st),
           \A r \in Row : /\ su.rows[r].clock = st.rows[r].clock
                          /\ su.rows[r].carriers = st.rows[r].carriers
                          /\ su.rows[r].tomb = st.rows[r].tomb
                          /\ su.rows[r].tombCarriers = st.rows[r].tombCarriers,
           \A r \in Row : AdoptedRow(st, r) => AdoptedRow(su, r)
    PROVE  Kept(su, d)
<1>1. Whole(su) /\ Remembered(su)
  BY DEF Kept, Whole, Remembered
<1>2. OwnLog(su, d)
  <2>1. Chain(su, d) = Chain(st, d)
    BY DEF Chain
  <2>2. \A r \in Row : OwnCarrier(su, d, r)
    BY <2>1 DEF OwnCarrier, Kept, OwnLog
  <2> QED BY <2>1, <2>2 DEF OwnLog, Kept
<1> QED BY <1>1, <1>2 DEF Kept

\* The same when the rows' merge state is what the rosters see of it.
LEMMA AdoptedBooks ==
    ASSUME NEW st, NEW su, NEW r \in Row, AdoptedRow(st, r), su.accepted = st.accepted,
           su.rows[r].clock = st.rows[r].clock, su.rows[r].carriers = st.rows[r].carriers,
           su.rows[r].tomb = st.rows[r].tomb, su.rows[r].tombCarriers = st.rows[r].tombCarriers,
           \A c : InCharge(st, c) => InCharge(su, c)
    PROVE  AdoptedRow(su, r)
<1>1. \A w : Carries(st, r, w) => Carries(su, r, w)
  BY DEF Carries
<1> QED BY <1>1 DEF AdoptedRow

\* What a write does to the row itself.
LEMMA WriteTakes ==
    ASSUME NEW x \in RowState, NEW e, Fits(e), NEW r \in Named(e), Rewrites(e), NEW ver \in Nat
    PROVE  LET y == Settle(x, e, r, ver)
               id == e.items[r].id
           IN  /\ y.tomb = x.tomb
               /\ Takes(x, id) => /\ y.clock = id /\ y.pub = y.cells
                                  /\ y.cells = e.items[r].cells
               /\ ~Takes(x, id) => y.clock = x.clock /\ y.cells = x.cells /\ y.pub = x.pub
<1> DEFINE y == Settle(x, e, r, ver)
           id == e.items[r].id
           stated == [x.carriers EXCEPT ![e.dev] = IF e.lam > @ THEN e.lam ELSE @]
<1>1. /\ y.tomb = x.tomb /\ y.tombCarriers = x.tombCarriers
      /\ Takes(x, id) => /\ y.clock = id /\ y.carriers = OnlyCarrier(EntryId(e))
                         /\ y.pub = y.cells /\ y.cells = e.items[r].cells
      /\ ~Takes(x, id) => /\ y.clock = x.clock /\ y.cells = x.cells /\ y.pub = x.pub
                          /\ \/ y.carriers = x.carriers
                             \/ /\ Beats(id, x.tomb) /\ x.clock # NoClock
                                /\ y.carriers = stated
      /\ id = x.clock /\ Beats(id, x.tomb) => y.carriers = stated
  BY WriteSettles
<1> HIDE DEF y, id
<1> QED BY <1>1 DEF y, id

\* The store y is st with e settled on the rows in `part`.
Projects(st, y, e, part) ==
    /\ Shaped(y) /\ SameLog(y, st)
    /\ y.work = st.work /\ y.gap = st.gap /\ y.deferred = st.deferred
    /\ \A r \in Row : y.rows[r] =
          IF r \in part THEN Settle(st.rows[r], e, r, st.ver) ELSE st.rows[r]
    /\ \A r \in Row : y.seen[r] =
          IF r \in part THEN st.seen[r] \cup {e.items[r]} ELSE st.seen[r]

\* Applying an entry to the rows in `part` (apply_row_op_on_stream).
LEMMA ProjectedFields ==
    ASSUME NEW st, StoreInv(st), NEW e, ~StatesAhead(e), ~VersionGap(e, st.ver), NEW part
    PROVE  Projects(st, Projected(st, e, part), e, part)
<1> DEFINE rows == Apply(st.rows, e, part, st.ver)
           seen == [r \in Row |-> st.seen[r] \cup
                      (IF r \in part /\ ~StatesAhead(e) THEN {e.items[r]} ELSE {})]
           y == Projected(st, e, part)
<1>1. y = [st EXCEPT !.rows = rows, !.seen = seen]
  BY DEF Projected
<1>2. \A r \in Row : rows[r] = IF r \in part THEN Settle(st.rows[r], e, r, st.ver) ELSE st.rows[r]
  BY DEF Apply
<1>3. \A r \in Row : seen[r] = IF r \in part THEN st.seen[r] \cup {e.items[r]} ELSE st.seen[r]
  OBVIOUS
<1> HIDE DEF rows, seen, y
<1>4. /\ Shaped(y) /\ SameLog(y, st) /\ y.rows = rows /\ y.seen = seen
      /\ y.work = st.work /\ y.gap = st.gap /\ y.deferred = st.deferred
  BY <1>1 DEF StoreInv, Shaped, SameLog
<1> QED BY <1>2, <1>3, <1>4 DEF y, Projects

\* Evaluating an entry of the log settles it on some of its rows: on all, or
\* on none that is in the way (pre_apply, restate_settleable_now).
LEMMA EvaluatedSettles ==
    ASSUME NEW st, StoreInv(st), StoreOK(st), NEW e \in st.accepted, ~StatesAhead(e), NEW dev,
           NEW live \in BOOLEAN
    PROVE  LET y == Evaluated(st, e, dev, live) IN
           \E part \in SUBSET Named(e) :
               /\ Settles(st, y, e, part)
               /\ y.work = st.work
               /\ e \in Pending(y) => part \subseteq Named(e) \ Blocked(st, e)
               /\ e \in Pending(y) /\ ~Restates(e) => part = {}
               /\ Defers(st, e, dev, live) => part \cap Blocked(st, e) = {}
<1> DEFINE part == IF Restates(e) THEN Named(e) \ Blocked(st, e) ELSE {}
           now == Projected(st, e, part)
           all == Projected(st, e, Named(e))
           y == Evaluated(st, e, dev, live)
<1>0. st.accepted = st.accepted \cup {e}
  OBVIOUS
<1>1. CASE VersionGap(e, st.ver)
  <2>1. y = [st EXCEPT !.gap = @ \cup {e}, !.deferred = @ \ {e}]
    BY <1>1 DEF Evaluated
  <2> HIDE DEF y
  <2>2. /\ SameLog(y, st) /\ y.rows = st.rows /\ y.seen = st.seen /\ y.work = st.work
        /\ y.gap = st.gap \cup {e} /\ y.deferred = st.deferred \ {e}
    BY <2>1 DEF StoreInv, Shaped, SameLog
  <2>3. Settles(st, y, e, {}) /\ e \in Pending(y)
    BY <1>0, <2>2 DEF Settles, SameLog, Pending
  <2> QED BY <2>2, <2>3 DEF y
<1>2. CASE ~VersionGap(e, st.ver) /\ Defers(st, e, dev, live)
  <2>1. y = [now EXCEPT !.deferred = @ \cup {e}, !.gap = @ \ {e}]
    BY <1>2 DEF Evaluated
  <2>2. /\ part \subseteq Named(e) \ Blocked(st, e) /\ part \in SUBSET Named(e)
        /\ ~Restates(e) => part = {}
    OBVIOUS
  <2> HIDE DEF part, y
  <2>3. Projects(st, now, e, part)
    BY <1>2, ProjectedFields
  <2> HIDE DEF now
  <2>4. /\ SameLog(y, now) /\ y.rows = now.rows /\ y.seen = now.seen /\ y.work = now.work
        /\ y.gap = now.gap \ {e} /\ y.deferred = now.deferred \cup {e}
    BY <2>1, <2>3 DEF Shaped, SameLog, Projects, Projects
  <2>5. e \in Pending(y) /\ Pending(y) = Pending(st) \cup {e}
    BY <2>3, <2>4 DEF Pending, Projects, Projects
  <2>6. Settles(st, y, e, part)
    BY <1>0, <2>2, <2>3, <2>4, <2>5 DEF Settles, SameLog, Projects
  <2> QED BY <2>2, <2>3, <2>4, <2>6 DEF y, Projects
<1>3. CASE ~VersionGap(e, st.ver) /\ ~Defers(st, e, dev, live)
  <2>1. y = [all EXCEPT !.deferred = @ \ {e}, !.gap = @ \ {e}]
    BY <1>3 DEF Evaluated
  <2> HIDE DEF y
  <2>3. Projects(st, all, e, Named(e))
    BY <1>3, ProjectedFields
  <2> HIDE DEF all
  <2>4. /\ SameLog(y, all) /\ y.rows = all.rows /\ y.seen = all.seen /\ y.work = all.work
        /\ y.gap = all.gap \ {e} /\ y.deferred = all.deferred \ {e}
    BY <2>1, <2>3 DEF Shaped, SameLog, Projects, Projects
  <2>5. e \notin Pending(y) /\ Pending(y) = Pending(st) \ {e}
    BY <2>3, <2>4 DEF Pending, Projects, Projects
  <2>6. Settles(st, y, e, Named(e))
    BY <1>0, <2>3, <2>4, <2>5 DEF Settles, SameLog, Projects
  <2>7. Named(e) \in SUBSET Named(e)
    OBVIOUS
  <2> QED BY <1>3, <2>3, <2>4, <2>5, <2>6, <2>7 DEF y, Projects
<1> QED BY <1>1, <1>2, <1>3

\* A store with another log.
LEMMA LogFields ==
    ASSUME NEW st, Shaped(st), NEW log
    PROVE  LET y == [st EXCEPT !.accepted = log] IN
           /\ Shaped(y) /\ y.accepted = log /\ y.rows = st.rows
           /\ y.seen = st.seen /\ y.gap = st.gap /\ y.deferred = st.deferred
           /\ y.ver = st.ver /\ y.epoch = st.epoch /\ y.work = st.work
           /\ y.floor = st.floor /\ y.owed = st.owed
  BY DEF Shaped

\* Signing an entry settles it on all its rows.
LEMMA AuthoredSettles ==
    ASSUME NEW st, StoreInv(st), StoreOK(st), NEW id, NEW kind, NEW items, NEW e,
           e = [dev |-> id.dev, lam |-> id.lam, kind |-> kind, ver |-> st.ver, items |-> items],
           ~StatesAhead(e), EntryOK(e), \A x \in st.accepted : x.lam < id.lam
    PROVE  LET y == Authored(st, id, kind, items) IN
           /\ Settles(st, y, e, Named(e))
           /\ y.work = st.work /\ Pending(y) = Pending(st) /\ e \notin Pending(y)
<1> DEFINE base == [st EXCEPT !.accepted = @ \cup {e}]
           y == Authored(st, id, kind, items)
<1>1. y = Projected(base, e, Named(e)) /\ e.ver = st.ver /\ e.lam = id.lam
  BY DEF Authored
<1>2. /\ Shaped(base) /\ base.accepted = st.accepted \cup {e} /\ base.rows = st.rows
      /\ base.seen = st.seen /\ base.gap = st.gap /\ base.deferred = st.deferred
      /\ base.ver = st.ver /\ base.epoch = st.epoch /\ base.work = st.work
      /\ base.floor = st.floor /\ base.owed = st.owed
  BY LogFields DEF StoreInv
<1> HIDE DEF base, y
<1>3. StoreInv(base)
  BY <1>2 DEF StoreInv, EntriesOK
<1>4. ~VersionGap(e, base.ver)
  BY <1>1, <1>2 DEF VersionGap, StoreInv
<1>5. Projects(base, y, e, Named(e))
  BY <1>1, <1>3, <1>4, ProjectedFields
<1>6. e \notin st.accepted
  BY <1>1 DEF StoreOK, Typed, Entry
<1>7. Pending(y) = Pending(st) /\ e \notin Pending(y)
  BY <1>2, <1>5, <1>6 DEF Pending, StoreOK, Typed, Projects
<1>8. Settles(st, y, e, Named(e))
  BY <1>2, <1>5, <1>7 DEF Settles, SameLog, Projects
<1> QED BY <1>2, <1>5, <1>7, <1>8 DEF y, Projects

-----------------------------------------------------------------------------
(* All stores *)

\* What the earlier invariants say of each store of a world.
Sane(W) == \A d \in Device : StoreInv(W[d]) /\ StoreOK(W[d])

\* The world V is W with su as the store of d.
Replaces(V, W, d, su) == \A c \in Device : V[c] = IF c = d THEN su ELSE W[c]

\* The devices an entry of a log names.
LEMMA EntryDevices ==
    ASSUME NEW st, StoreInv(st), StoreOK(st), NEW e \in st.accepted
    PROVE  /\ Fits(e) /\ e.dev \in Device /\ e.lam \in Nat
           /\ \A r \in Named(e) : e.items[r].id.dev \in Device /\ e.items[r].id.lam \in Nat
<1>1. Fits(e)
  BY AcceptedFits
<1>2. \A r \in Named(e) : e.items[r].id \in Clock
  BY <1>1, EntryStates
<1> QED BY <1>1, <1>2 DEF Fits, Entry, Clock

\* Logs that stay as they are stay copies.
LEMMA CopiesSame ==
    ASSUME NEW W, Sane(W), Copies(W), NEW d \in Device, NEW su, NEW V, Replaces(V, W, d, su),
           su.accepted = W[d].accepted
    PROVE  Copies(V)
<1>1. \A c \in Device : V[c].accepted = W[c].accepted
  BY DEF Replaces
<1> SUFFICES ASSUME NEW c \in Device, NEW e \in W[c].accepted
             PROVE  Copied(V, V[c], e)
  BY <1>1 DEF Copies
<1>2. Copied(W, W[c], e)
  BY DEF Copies
<1>3. e.dev \in Device /\ \A r \in Named(e) : e.items[r].id.dev \in Device
  BY EntryDevices DEF Sane
<1>4. Chain(V[e.dev], e.dev) = Chain(W[e.dev], e.dev)
  BY <1>1, <1>3 DEF Chain
<1> QED BY <1>1, <1>2, <1>3, <1>4 DEF Copied

\* One log grows by an entry: a copy, or the signer's newest.
LEMMA CopiesGrow ==
    ASSUME NEW W, Sane(W), Copies(W), NEW d \in Device, NEW su, NEW V, Replaces(V, W, d, su),
           NEW e, su.accepted = W[d].accepted \cup {e}, e.lam \in Nat, Copied(V, su, e),
           e.dev = d => \A x \in W[d].accepted : x.lam < e.lam
    PROVE  Copies(V)
<1>1. \A c \in Device : /\ W[c].accepted \subseteq V[c].accepted
                        /\ V[c].accepted \subseteq W[c].accepted \cup {e}
                        /\ c # d => V[c].accepted = W[c].accepted
  BY DEF Replaces
<1> SUFFICES ASSUME NEW c \in Device, NEW w \in V[c].accepted
             PROVE  Copied(V, V[c], w)
  BY DEF Copies
<1>2. CASE w = e /\ c = d
  BY <1>2 DEF Replaces
<1>3. CASE w \in W[c].accepted
  <2>1. Copied(W, W[c], w)
    BY <1>3 DEF Copies
  <2>2. w.dev \in Device /\ w.lam \in Nat /\ \A r \in Named(w) : w.items[r].id.dev \in Device
    BY <1>3, EntryDevices DEF Sane
  <2>3. w \in V[w.dev].accepted /\ w \in W[w.dev].accepted
    BY <1>1, <2>1, <2>2 DEF Copied
  <2>4. ASSUME NEW x \in Chain(V[w.dev], w.dev), x.lam <= w.lam
        PROVE  x \in V[c].accepted
    <3>1. CASE x \in W[w.dev].accepted
      <4>1. x \in Chain(W[w.dev], w.dev)
        BY <3>1 DEF Chain
      <4>2. x \in W[c].accepted
        BY <2>1, <2>4, <4>1 DEF Copied
      <4> QED BY <1>1, <4>2
    <3>2. CASE x \notin W[w.dev].accepted
      <4>1. x = e /\ w.dev = d /\ e.dev = d
        BY <1>1, <2>2, <3>2 DEF Chain
      <4>2. w.lam < e.lam
        BY <2>3, <4>1
      <4> QED BY <2>2, <2>4, <4>1, <4>2
    <3> QED BY <3>1, <3>2
  <2>5. ASSUME NEW r \in Named(w)
        PROVE  \E o \in V[w.items[r].id.dev].accepted :
                  EntryId(o) = w.items[r].id /\ ~Restates(o) /\ o.items[r] = w.items[r]
    BY <1>1, <2>1, <2>2 DEF Copied
  <2> QED BY <2>3, <2>4, <2>5 DEF Copied
<1> QED BY <1>1, <1>2, <1>3

\* Fewer upserts and changed rows.
LEMMA CountedShrinks ==
    ASSUME NEW W, NEW V, NEW n \in Nat, Counted(W, n),
           Upserts(V) \subseteq Upserts(W), Changed(V) \subseteq Changed(W)
    PROVE  Counted(V, n)
<1>1. /\ IsFiniteSet(Upserts(V)) /\ Cardinality(Upserts(V)) <= Cardinality(Upserts(W))
      /\ IsFiniteSet(Changed(V)) /\ Cardinality(Changed(V)) <= Cardinality(Changed(W))
  BY FS_Subset DEF Counted
<1>2. /\ Cardinality(Upserts(V)) \in Nat /\ Cardinality(Upserts(W)) \in Nat
      /\ Cardinality(Changed(V)) \in Nat /\ Cardinality(Changed(W)) \in Nat
      /\ Cardinality(Upserts(W)) + Cardinality(Changed(W)) <= n
  BY <1>1, FS_CardinalityType DEF Counted
<1>3. Cardinality(Upserts(V)) + Cardinality(Changed(V)) <= n
  BY <1>1, <1>2
<1> QED BY <1>1, <1>3 DEF Counted

\* A raw write changes one row.
LEMMA CountedEdit ==
    ASSUME NEW W, NEW V, NEW n \in Nat, Counted(W, n), NEW p,
           Upserts(V) \subseteq Upserts(W), Changed(V) \subseteq Changed(W) \cup {p}
    PROVE  Counted(V, n + 1)
<1> DEFINE more == Changed(W) \cup {p}
<1>1. /\ IsFiniteSet(more) /\ Cardinality(Changed(W)) \in Nat
      /\ Cardinality(more) = Cardinality(Changed(W)) \/ Cardinality(more) = Cardinality(Changed(W)) + 1
  BY FS_AddElement, FS_CardinalityType DEF Counted
<1> HIDE DEF more
<1>2. /\ IsFiniteSet(Upserts(V)) /\ Cardinality(Upserts(V)) <= Cardinality(Upserts(W))
      /\ IsFiniteSet(Changed(V)) /\ Cardinality(Changed(V)) <= Cardinality(more)
  BY <1>1, FS_Subset DEF Counted, more
<1>3. /\ Cardinality(Upserts(V)) \in Nat /\ Cardinality(Upserts(W)) \in Nat
      /\ Cardinality(Changed(V)) \in Nat
      /\ Cardinality(Upserts(W)) + Cardinality(Changed(W)) <= n
  BY <1>2, FS_CardinalityType DEF Counted
<1>4. Cardinality(Upserts(V)) + Cardinality(Changed(V)) <= n + 1
  BY <1>1, <1>2, <1>3
<1> QED BY <1>2, <1>4 DEF Counted

\* Signing a changed row makes one upsert of it.
LEMMA CountedUpsert ==
    ASSUME NEW W, NEW V, NEW n \in Nat, Counted(W, n), NEW e, NEW p \in Changed(W),
           Upserts(V) \subseteq Upserts(W) \cup {e}, Changed(V) \subseteq Changed(W) \ {p}
    PROVE  Counted(V, n)
<1> DEFINE more == Upserts(W) \cup {e}
           less == Changed(W) \ {p}
<1>1. /\ IsFiniteSet(more) /\ Cardinality(Upserts(W)) \in Nat
      /\ Cardinality(more) = Cardinality(Upserts(W)) \/ Cardinality(more) = Cardinality(Upserts(W)) + 1
      /\ IsFiniteSet(less) /\ Cardinality(Changed(W)) \in Nat
      /\ Cardinality(less) = Cardinality(Changed(W)) - 1
  BY FS_AddElement, FS_RemoveElement, FS_CardinalityType DEF Counted
<1> HIDE DEF more, less
<1>2. /\ IsFiniteSet(Upserts(V)) /\ Cardinality(Upserts(V)) <= Cardinality(more)
      /\ IsFiniteSet(Changed(V)) /\ Cardinality(Changed(V)) <= Cardinality(less)
  BY <1>1, FS_Subset DEF more, less
<1>3. /\ Cardinality(Upserts(V)) \in Nat /\ Cardinality(Changed(V)) \in Nat
      /\ Cardinality(Upserts(W)) + Cardinality(Changed(W)) <= n
  BY <1>2, FS_CardinalityType DEF Counted
<1>4. Cardinality(Upserts(V)) + Cardinality(Changed(V)) <= n
  BY <1>1, <1>2, <1>3
<1> QED BY <1>2, <1>4 DEF Counted

\* The rows of the replaced store decide which rows changed.
LEMMA ChangedReplaces ==
    ASSUME NEW W, NEW d \in Device, NEW su, NEW V, Replaces(V, W, d, su)
    PROVE  \A p \in Changed(V) : p \in Changed(W) \/
              \E r \in Row : /\ p = <<d, r>> /\ Unsigned(su.rows[r])
                             /\ p \in Changed(W) <=> Unsigned(W[d].rows[r])
<1> SUFFICES ASSUME NEW p \in Changed(V)
             PROVE  p \in Changed(W) \/
                       \E r \in Row : /\ p = <<d, r>> /\ Unsigned(su.rows[r])
                                      /\ p \in Changed(W) <=> Unsigned(W[d].rows[r])
  OBVIOUS
<1>1. PICK c \in Device, r \in Row : p = <<c, r>>
  BY DEF Changed
<1>2. Unsigned(V[c].rows[r])
  BY <1>1 DEF Changed
<1>3. p \in Changed(W) <=> Unsigned(W[c].rows[r])
  BY <1>1 DEF Changed
<1> QED BY <1>1, <1>2, <1>3 DEF Replaces

\* Settling an entry changes no row away from its record.
LEMMA SettlesSigned ==
    ASSUME NEW st, StoreInv(st), StoreOK(st), NEW su, NEW e, NEW part, Fits(e),
           Settles(st, su, e, part), NEW r \in Row, Unsigned(su.rows[r])
    PROVE  Unsigned(st.rows[r]) /\ ~(r \in part /\ Moves(st.rows[r], e, r))
<1> DEFINE x == st.rows[r]
           y == su.rows[r]
<1>1. x \in RowState /\ st.ver \in Nat /\ part \subseteq Named(e)
  BY RowClocks, RowsAssumption DEF StoreOK, Typed, Settles
<1>2. CASE r \notin part
  BY <1>2 DEF Settles
<1>3. CASE r \in part /\ Rewrites(e)
  <2>1. y = Settle(x, e, r, st.ver) /\ r \in Named(e)
    BY <1>1, <1>3 DEF Settles
  <2>2. /\ Takes(x, e.items[r].id) => y.pub = y.cells
        /\ ~Takes(x, e.items[r].id) => y.cells = x.cells /\ y.pub = x.pub
    BY <1>1, <1>3, <2>1, WriteTakes
  <2> HIDE DEF y
  <2> QED BY <1>3, <2>2 DEF Unsigned, Moves, y
<1>4. CASE r \in part /\ ~Rewrites(e)
  <2>1. y = Settle(x, e, r, st.ver) /\ r \in Named(e)
    BY <1>1, <1>4 DEF Settles
  <2>2. /\ Beats(x.clock, e.items[r].id) => y.cells = x.cells /\ y.pub = x.pub
        /\ ~Beats(x.clock, e.items[r].id) => y.cells = Absent
    BY <1>1, <1>4, <2>1, DeleteTakes
  <2>3. Absent \notin Cells
    BY MergeAssumption
  <2> HIDE DEF y
  <2> QED BY <1>4, <2>2, <2>3 DEF Unsigned, Moves, y
<1> QED BY <1>2, <1>3, <1>4

\* The upserts of a world are those of its logs.
LEMMA UpsertsReplace ==
    ASSUME NEW W, NEW d \in Device, NEW su, NEW V, Replaces(V, W, d, su),
           NEW e, NEW part, Settles(W[d], su, e, part)
    PROVE  \A u \in Upserts(V) : u \in Upserts(W) \/ (u = e /\ u.kind = "upsert")
<1> SUFFICES ASSUME NEW u \in Upserts(V)
             PROVE  u \in Upserts(W) \/ (u = e /\ u.kind = "upsert")
  OBVIOUS
<1>1. PICK c \in Device : u \in V[c].accepted
  BY DEF Upserts
<1>2. u.kind = "upsert"
  BY DEF Upserts
<1>3. u = e \/ u \in W[c].accepted
  BY <1>1 DEF Replaces, Settles
<1> QED BY <1>2, <1>3 DEF Upserts

\* A store of the world takes in what another one holds, or settles what it
\* has itself.
LEMMA WorldEvaluates ==
    ASSUME NEW W, Sane(W), NEW n \in Nat, World(W, n), NEW d \in Device, NEW su, NEW V,
           Replaces(V, W, d, su), NEW p \in Device, NEW e \in W[p].accepted, NEW part,
           Settles(W[d], su, e, part), Proper(W[d], su, e, part, d),
           e \in W[d].accepted \/ (e.dev # d /\ Copied(V, su, e))
    PROVE  World(V, n)
<1>1. \A c \in Device : Kept(V[c], c)
  <2>1. Kept(su, d)
    BY KeptSettles DEF Sane, World
  <2> QED BY <2>1 DEF Replaces, World
<1>2. Copies(V)
  <2>1. su.accepted = W[d].accepted \cup {e} /\ e.lam \in Nat
    BY EntryDevices DEF Settles, Sane
  <2>2. CASE e \in W[d].accepted
    <3>1. su.accepted = W[d].accepted
      BY <2>1, <2>2
    <3> QED BY <3>1, CopiesSame DEF World
  <2>3. CASE e.dev # d /\ Copied(V, su, e)
    BY <2>1, <2>3, CopiesGrow DEF World
  <2> QED BY <2>2, <2>3
<1>3. Upserts(V) \subseteq Upserts(W)
  <2>1. \A u \in Upserts(V) : u \in Upserts(W) \/ (u = e /\ u.kind = "upsert")
    BY UpsertsReplace
  <2>2. e.kind = "upsert" => e \in Upserts(W)
    BY DEF Upserts
  <2> QED BY <2>1, <2>2
<1>4. Changed(V) \subseteq Changed(W)
  <2>1. \A r \in Row : Unsigned(su.rows[r]) => Unsigned(W[d].rows[r])
    BY SettlesSigned DEF Sane, Proper
  <2> QED BY <2>1, ChangedReplaces
<1>5. Counted(V, n)
  BY <1>3, <1>4, CountedShrinks DEF World
<1> QED BY <1>1, <1>2, <1>5 DEF World

\* A store of the world signs an entry: an upsert only of a changed row.
LEMMA WorldSigns ==
    ASSUME NEW W, Sane(W), NEW n \in Nat, World(W, n), NEW d \in Device, NEW su, NEW V,
           Replaces(V, W, d, su), NEW e, e.dev = d, Settles(W[d], su, e, Named(e)),
           Proper(W[d], su, e, Named(e), d), Copied(V, su, e),
           e.kind = "upsert" =>
              \E r \in Named(e) : Moves(W[d].rows[r], e, r) /\ Unsigned(W[d].rows[r])
    PROVE  World(V, n)
<1>1. \A c \in Device : Kept(V[c], c)
  <2>1. Kept(su, d)
    BY KeptSettles DEF Sane, World
  <2> QED BY <2>1 DEF Replaces, World
<1>2. Copies(V)
  <2>1. su.accepted = W[d].accepted \cup {e} /\ e.lam \in Nat
    BY DEF Settles, Proper, Fits, Entry
  <2>2. \A x \in W[d].accepted : x.lam < e.lam
    BY DEF Proper
  <2> QED BY <2>1, <2>2, CopiesGrow DEF World
<1>3. \A u \in Upserts(V) : u \in Upserts(W) \/ (u = e /\ u.kind = "upsert")
  <2>1. Settles(W[d], su, e, Named(e))
    OBVIOUS
  <2> DEFINE part == Named(e)
  <2> HIDE DEF part
  <2>2. Settles(W[d], su, e, part)
    BY <2>1 DEF part
  <2> QED BY <2>2, UpsertsReplace
<1>4. \A r \in Row : Unsigned(su.rows[r]) =>
         Unsigned(W[d].rows[r]) /\ ~(r \in Named(e) /\ Moves(W[d].rows[r], e, r))
  BY SettlesSigned DEF Sane, Proper
<1>5. Changed(V) \subseteq Changed(W)
  BY <1>4, ChangedReplaces
<1>6. Counted(V, n)
  <2>1. CASE e.kind # "upsert"
    <3>1. Upserts(V) \subseteq Upserts(W)
      BY <1>3, <2>1
    <3> QED BY <1>5, <3>1, CountedShrinks DEF World
  <2>2. CASE e.kind = "upsert"
    <3>1. PICK r \in Named(e) : Moves(W[d].rows[r], e, r) /\ Unsigned(W[d].rows[r])
      BY <2>2
    <3>2. r \in Row
      BY DEF Named
    <3>3. <<d, r>> \in Changed(W)
      BY <3>1, <3>2 DEF Changed
    <3>4. <<d, r>> \notin Changed(V)
      <4>1. ~Unsigned(su.rows[r])
        BY <1>4, <3>1, <3>2
      <4> QED BY <3>2, <4>1 DEF Changed, Replaces
    <3>5. Upserts(V) \subseteq Upserts(W) \cup {e}
      BY <1>3
    <3>6. Changed(V) \subseteq Changed(W) \ {<<d, r>>}
      BY <1>5, <3>4
    <3> QED BY <3>3, <3>5, <3>6, CountedUpsert DEF World
  <2> QED BY <2>1, <2>2
<1> QED BY <1>1, <1>2, <1>6 DEF World

\* A store of the world changes without its log.
LEMMA WorldBooks ==
    ASSUME NEW W, Sane(W), NEW n \in Nat, World(W, n), NEW d \in Device, NEW su, NEW V,
           Replaces(V, W, d, su), Kept(su, d), su.accepted = W[d].accepted,
           \A r \in Row : Unsigned(su.rows[r]) => Unsigned(W[d].rows[r])
    PROVE  World(V, n)
<1>1. \A c \in Device : Kept(V[c], c)
  BY DEF Replaces, World
<1>2. Copies(V)
  BY CopiesSame DEF World
<1>3. Upserts(V) \subseteq Upserts(W)
  BY DEF Upserts, Replaces
<1>4. Changed(V) \subseteq Changed(W)
  BY ChangedReplaces
<1> QED BY <1>1, <1>2, <1>3, <1>4, CountedShrinks DEF World

-----------------------------------------------------------------------------
(* Steps on a committed store *)

\* The Lamport time of a chain's tail is that of its newest entry.
LEMMA TipIsNewest ==
    ASSUME NEW st, StoreOK(st), NEW d \in Device
    PROVE  /\ Tip(st, d) \in Int /\ Tip(st, d) >= -1
           /\ \A x \in Chain(st, d) : x.lam <= Tip(st, d)
           /\ Tip(st, d) # -1 => \E x \in Chain(st, d) : x.lam = Tip(st, d)
<1> DEFINE S == {-1} \cup Lams(Chain(st, d))
<1>1. \A x \in st.accepted : x.lam \in Nat /\ x.lam <= MaxLamport
  BY DEF StoreOK, Typed, Sound, Entry
<1>2. S \in SUBSET Int /\ S # {} /\ MaxLamport \in Int /\ -1 <= MaxLamport
  BY <1>1, RowsAssumption DEF Lams, Chain
<1>3. \A x \in S : x <= MaxLamport
  BY <1>1, <1>2 DEF Lams, Chain
<1>4. /\ -1 \in S /\ \A x \in Chain(st, d) : x.lam \in S /\ x.lam \in Int
      /\ \A m \in S : m = -1 \/ \E x \in Chain(st, d) : x.lam = m
  BY <1>1 DEF Lams, Chain
<1> HIDE DEF S
<1>5. Max(S) \in S /\ \A y \in S : Max(S) >= y
  BY <1>2, <1>3, MaxExists
<1>6. Tip(st, d) = Max(S)
  BY DEF Tip, S
<1>7. Max(S) \in Int
  BY <1>2, <1>5
<1> QED BY <1>4, <1>5, <1>6, <1>7

\* Every entry follows what a store holds of its chain.
LEMMA FollowsCopies ==
    ASSUME NEW W, Sane(W), NEW n, World(W, n), NEW d \in Device, NEW p \in Device,
           NEW e \in W[p].accepted
    PROVE  Follows(W[d], e)
<1> SUFFICES ASSUME NEW w \in W[d].accepted, w.dev = e.dev
             PROVE  Ordered(w, e)
  BY DEF Follows
<1>1. e.dev \in Device
  BY EntryDevices DEF Sane
<1>2. e \in Chain(W[e.dev], e.dev) /\ w \in Chain(W[e.dev], e.dev)
  BY DEF World, Copies, Copied, Chain
<1> QED BY <1>1, <1>2 DEF World, Kept, OwnLog

\* A store without floors takes an entry in sequence.
LEMMA RootedWhole ==
    ASSUME NEW st, StoreInv(st), StoreOK(st), Whole(st), NEW from, Whole(from),
           NEW e, e.dev \in Device, e.lam \in Nat
    PROVE  Rooted(st, e, from) = [st EXCEPT !.accepted = @ \cup {e}]
<1>1. from.floor[e.dev] = -1 /\ st.owed[e.dev] = -1 /\ st.floor[e.dev] = -1
  BY DEF Whole
<1>2. Tip(st, e.dev) \in Int /\ Tip(st, e.dev) >= -1
  BY TipIsNewest
<1>3. ~(Tip(st, e.dev) < from.floor[e.dev]) /\ e.lam >= st.owed[e.dev]
  BY <1>1, <1>2
<1>4. Rooted(st, e, from) = [st EXCEPT !.accepted = @ \cup {e}, !.floor[e.dev] = st.floor[e.dev],
                                       !.owed[e.dev] = -1]
  BY <1>3 DEF Rooted
<1>5. st.floor \in [Device -> Int] /\ st.owed \in [Device -> Int]
  BY DEF StoreOK, Typed
<1>6. /\ [st.floor EXCEPT ![e.dev] = st.floor[e.dev]] = st.floor
      /\ [st.owed EXCEPT ![e.dev] = -1] = st.owed
  BY <1>1, <1>5
<1>7. st = [rows |-> st.rows, accepted |-> st.accepted, gap |-> st.gap,
            deferred |-> st.deferred, ver |-> st.ver, floor |-> st.floor,
            owed |-> st.owed, epoch |-> st.epoch, work |-> st.work, seen |-> st.seen]
  BY DEF StoreInv, Shaped
<1> QED BY <1>4, <1>6, <1>7

\* A received entry comes with everything before it in its chain.
LEMMA OfferedIsCopy ==
    ASSUME NEW W, Sane(W), NEW n, World(W, n), NEW d \in Device, NEW p \in Device, NEW su,
           NEW V, Replaces(V, W, d, su), NEW e \in W[p].accepted,
           su.accepted = W[d].accepted \cup {e},
           IsOffered(W[p], e.dev, Tip(W[d], e.dev), e)
    PROVE  e.dev # d /\ Copied(V, su, e)
<1> DEFINE tip == Tip(W[d], e.dev)
<1>1. e.dev \in Device /\ e.lam \in Nat /\ \A r \in Named(e) : e.items[r].id.dev \in Device
  BY EntryDevices DEF Sane
<1>2. /\ tip \in Int /\ tip >= -1
      /\ \A x \in Chain(W[d], e.dev) : x.lam <= tip
      /\ tip # -1 => \E x \in Chain(W[d], e.dev) : x.lam = tip
  BY <1>1, TipIsNewest DEF Sane
<1>3. Copied(W, W[p], e)
  BY DEF World, Copies
<1>4. W[p].floor[e.dev] = -1
  BY <1>1 DEF World, Kept, Whole
<1>5. e.lam > tip /\ \A x \in Chain(W[p], e.dev) : x.lam > tip => x.lam >= e.lam
  BY <1>2, <1>4 DEF IsOffered
<1> HIDE DEF tip
<1>6. e \notin W[d].accepted
  <2>1. e \in W[d].accepted => e.lam <= tip
    BY <1>2 DEF Chain
  <2> QED BY <1>1, <1>2, <1>5, <2>1
<1>7. e.dev # d
  BY <1>3, <1>6 DEF Copied
<1>8. V[e.dev] = W[e.dev]
  BY <1>1, <1>7 DEF Replaces
<1>9. ASSUME NEW x \in Chain(W[e.dev], e.dev), x.lam <= e.lam
      PROVE  x \in su.accepted
  <2>0. x \in W[e.dev].accepted /\ x.dev = e.dev /\ x.lam \in Nat
    BY <1>1, EntryDevices DEF Chain, Sane
  <2>1. CASE x.lam <= tip
    <3>1. tip # -1
      BY <1>2, <2>0, <2>1
    <3>2. PICK z \in Chain(W[d], e.dev) : z.lam = tip
      BY <1>2, <3>1
    <3>3. z \in W[d].accepted /\ z.dev = e.dev
      BY DEF Chain
    <3>4. Copied(W, W[d], z)
      BY <3>3 DEF World, Copies
    <3>5. x \in W[d].accepted
      BY <2>1, <3>2, <3>3, <3>4 DEF Copied
    <3> QED BY <3>5
  <2>2. CASE ~(x.lam <= tip)
    <3>1. x \in W[p].accepted
      BY <1>3, <1>9 DEF Copied
    <3>2. x \in Chain(W[p], e.dev) /\ x.lam > tip
      BY <1>2, <2>0, <2>2, <3>1 DEF Chain
    <3>3. x.lam = e.lam
      BY <1>1, <1>5, <1>9, <2>0, <3>2
    <3>4. e \in Chain(W[e.dev], e.dev)
      BY <1>3 DEF Copied, Chain
    <3>5. Ordered(x, e)
      BY <1>1, <3>4 DEF World, Kept, OwnLog
    <3>6. x = e
      BY <3>3, <3>5 DEF Ordered
    <3> QED BY <3>6
  <2> QED BY <2>1, <2>2
<1>10. ASSUME NEW r \in Named(e)
       PROVE  \E o \in V[e.items[r].id.dev].accepted :
                 EntryId(o) = e.items[r].id /\ ~Restates(o) /\ o.items[r] = e.items[r]
  <2>1. PICK o \in W[e.items[r].id.dev].accepted :
           EntryId(o) = e.items[r].id /\ ~Restates(o) /\ o.items[r] = e.items[r]
    BY <1>3 DEF Copied
  <2>2. o \in V[e.items[r].id.dev].accepted
    BY <1>1 DEF Replaces
  <2> QED BY <2>1, <2>2
<1>11. e \in W[e.dev].accepted
  BY <1>3 DEF Copied
<1> QED BY <1>7, <1>8, <1>9, <1>10, <1>11 DEF Copied

\* The worlds of the invariant are made of stores it holds of.
LEMMA SaneWorlds ==
    ASSUME IInv, PInv
    PROVE  /\ Sane(store) /\ Sane(Now) /\ edits \in Nat
           /\ tx = NoTx => Now = store
           /\ tx # NoTx => /\ tx.dev \in Device
                           /\ Replaces(Now, store, tx.dev, tx.st)
                           /\ Now[tx.dev] = tx.st
<1>1. Sane(store) /\ edits \in Nat
  BY RowsAssumption DEF IInv, PInv, Sane
<1>2. CASE tx = NoTx
  BY <1>1, <1>2 DEF Now
<1>3. CASE tx # NoTx
  <2>1. tx.dev \in Device /\ StoreInv(tx.st) /\ StoreOK(tx.st)
    BY <1>3 DEF IInv, PInv, TxInv, TxOK
  <2>2. Replaces(Now, store, tx.dev, tx.st)
    BY <1>3, <2>1 DEF Now, Replaces, IInv
  <2>3. Sane(Now) /\ Now[tx.dev] = tx.st
    BY <1>1, <2>1, <2>2 DEF Sane, Replaces
  <2> QED BY <1>1, <1>3, <2>1, <2>2, <2>3
<1> QED BY <1>2, <1>3

\* Outside a transaction there is one world.
LEMMA StoreStepKept ==
    ASSUME tx' = NoTx, World(store', edits')
    PROVE  KInv'
  BY DEF KInv, Now

\* An entry of a peer is received (ingest_one).
LEMMA IngestKept ==
    ASSUME IInv, PInv, KInv, NEW d \in Device, NEW p \in Device, NEW e \in store[p].accepted,
           Ingest(d, p, e)
    PROVE  KInv'
<1> DEFINE st == store[d]
           base == [st EXCEPT !.accepted = @ \cup {e}]
           su == Evaluated(base, e, d, TRUE)
<1>1. Sane(store) /\ World(store, edits) /\ edits \in Nat
  BY SaneWorlds DEF KInv
<1>2. /\ StoreInv(st) /\ StoreOK(st) /\ StoreInv(store[p]) /\ StoreOK(store[p])
      /\ Kept(st, d) /\ Kept(store[p], p)
  BY <1>1 DEF Sane, World
<1>3. /\ Fits(e) /\ e.dev \in Device /\ e.lam \in Nat
      /\ e.kind # "restate" /\ e.dev \in Writers /\ ~StatesAhead(e)
  BY <1>2, EntryDevices DEF Kept, Whole
<1>4. Rooted(st, e, store[p]) = base
  BY <1>2, <1>3, RootedWhole DEF Kept
<1>5. /\ tx = NoTx /\ tx' = NoTx /\ edits' = edits /\ store' = [store EXCEPT ![d] = su]
      /\ Effective(st, e.dev) /\ IsOffered(store[p], e.dev, Tip(st, e.dev), e)
  BY <1>4 DEF Ingest
<1>6. StoreInv(base) /\ StoreOK(base)
  BY <1>2, <1>4, RootedOK
<1>7. /\ base.accepted = st.accepted \cup {e} /\ base.rows = st.rows
      /\ base.seen = st.seen /\ base.gap = st.gap /\ base.deferred = st.deferred
      /\ base.ver = st.ver /\ base.epoch = st.epoch /\ base.work = st.work
      /\ base.floor = st.floor /\ base.owed = st.owed
  BY <1>2, LogFields DEF StoreInv
<1> HIDE DEF base
<1>8. PICK part \in SUBSET Named(e) : Settles(base, su, e, part) /\ su.work = base.work
  <2>1. e \in base.accepted
    BY <1>7
  <2> QED BY <1>3, <1>6, <2>1, EvaluatedSettles
<1> HIDE DEF su
<1>9. Settles(st, su, e, part)
  <2>1. Pending(base) = Pending(st) /\ base.accepted \cup {e} = st.accepted \cup {e}
    BY <1>7 DEF Pending
  <2> QED BY <1>7, <1>8, <2>1 DEF Settles
<1>10. Replaces(store', store, d, su)
  BY <1>5 DEF Replaces, IInv
<1>11. e.dev # d /\ Copied(store', su, e)
  <2>1. su.accepted = store[d].accepted \cup {e}
    BY <1>9 DEF Settles
  <2> QED BY <1>1, <1>5, <1>10, <2>1, OfferedIsCopy
<1>12. Proper(st, su, e, part, d)
  <2>1. Follows(st, e)
    BY <1>1, FollowsCopies
  <2>2. InCharge(su, e.dev)
    BY <1>5, <1>9 DEF Settles, InCharge, Effective, Removed
  <2> QED BY <1>3, <1>11, <2>1, <2>2 DEF Proper
<1>13. World(store', edits)
  BY <1>1, <1>9, <1>10, <1>11, <1>12, WorldEvaluates
<1> QED BY <1>5, <1>13, StoreStepKept

\* A raw write of a row.
LEMMA EditKept ==
    ASSUME IInv, PInv, KInv, NEW d \in Device, NEW r \in Row, NEW c, Edit(d, r, c)
    PROVE  KInv'
<1> DEFINE st == store[d]
           row == [st.rows[r] EXCEPT !.cells = c]
           rows == [st.rows EXCEPT ![r] = row]
           su == [st EXCEPT !.rows = rows]
<1>1. Sane(store) /\ World(store, edits) /\ edits \in Nat /\ StoreInv(st) /\ StoreOK(st)
  BY SaneWorlds DEF KInv, Sane
<1>2. /\ store' = [store EXCEPT ![d] = su] /\ tx' = NoTx /\ edits' = edits + 1
  BY DEF Edit
<1>3. st.rows \in [Row -> RowState]
  BY <1>1 DEF StoreOK, Typed
<1>4. /\ row.clock = st.rows[r].clock /\ row.carriers = st.rows[r].carriers
      /\ row.tomb = st.rows[r].tomb /\ row.tombCarriers = st.rows[r].tombCarriers
  BY <1>3 DEF RowState
<1> HIDE DEF row
<1>5. \A x \in Row : rows[x] = IF x = r THEN row ELSE st.rows[x]
  BY <1>3
<1> HIDE DEF rows
<1>6. /\ su.rows = rows /\ su.seen = st.seen /\ su.work = st.work /\ su.gap = st.gap
      /\ su.deferred = st.deferred /\ SameLog(su, st)
  BY <1>1 DEF StoreInv, Shaped, SameLog
<1> HIDE DEF su
<1>7. \A x \in Row : /\ su.rows[x].clock = st.rows[x].clock
                     /\ su.rows[x].carriers = st.rows[x].carriers
                     /\ su.rows[x].tomb = st.rows[x].tomb
                     /\ su.rows[x].tombCarriers = st.rows[x].tombCarriers
                     /\ x # r => su.rows[x] = st.rows[x]
  BY <1>4, <1>5, <1>6
<1>8. Kept(su, d)
  <2>1. Kept(st, d)
    BY <1>1 DEF World
  <2>2. \A b : InCharge(st, b) => InCharge(su, b)
    BY <1>6 DEF InCharge, Effective, Removed, SameLog
  <2>3. \A x \in Row : AdoptedRow(st, x) => AdoptedRow(su, x)
    BY <1>6, <1>7, <2>2, AdoptedBooks DEF SameLog
  <2>4. /\ su.accepted = st.accepted /\ su.floor = st.floor /\ Pending(su) = Pending(st)
        /\ \A b \in Device : su.owed[b] = -1
    BY <1>6, <2>1 DEF SameLog, Pending, Kept, Whole
  <2> QED BY <1>6, <1>7, <2>1, <2>3, <2>4, KeptBooks
<1>9. Replaces(store', store, d, su)
  BY <1>2 DEF Replaces, IInv
<1>10. su.accepted = store[d].accepted
  BY <1>6 DEF SameLog
<1>11. /\ \A b \in Device : Kept(store'[b], b)
       /\ Copies(store')
       /\ Upserts(store') \subseteq Upserts(store)
  <2>1. \A b \in Device : Kept(store'[b], b)
    BY <1>1, <1>8, <1>9 DEF Replaces, World
  <2>2. Copies(store')
    BY <1>1, <1>9, <1>10, CopiesSame DEF World
  <2>3. Upserts(store') \subseteq Upserts(store)
    BY <1>9, <1>10 DEF Upserts, Replaces
  <2> QED BY <2>1, <2>2, <2>3
<1>12. Changed(store') \subseteq Changed(store) \cup {<<d, r>>}
  <2>1. \A p \in Changed(store') : p \in Changed(store) \/
           \E x \in Row : /\ p = <<d, x>> /\ Unsigned(su.rows[x])
                          /\ p \in Changed(store) <=> Unsigned(store[d].rows[x])
    BY <1>9, ChangedReplaces
  <2> QED BY <1>7, <2>1
<1>13. Counted(store', edits + 1)
  BY <1>1, <1>11, <1>12, CountedEdit DEF World
<1>14. World(store', edits')
  BY <1>2, <1>11, <1>13 DEF World
<1> QED BY <1>2, <1>14, StoreStepKept

\* Folding a change of x's enrolment leaves nobody alone: a removal is
\* enqueued (enqueue_readoption_work).
LEMMA FoldKept ==
    ASSUME IInv, PInv, KInv, NEW d \in Device, NEW x \in Device, Fold(d, x)
    PROVE  KInv'
<1> DEFINE st == store[d]
           su == Folded(st, x)
           owed == IF Removed(st, x) THEN st.owed[x] ELSE -1
           work == IF Removed(st, x) THEN st.work ELSE st.work \cup {x}
<1>1. Sane(store) /\ World(store, edits) /\ edits \in Nat /\ StoreInv(st) /\ StoreOK(st)
  BY SaneWorlds DEF KInv, Sane
<1>2. store' = [store EXCEPT ![d] = su] /\ tx' = NoTx /\ edits' = edits
  BY DEF Fold
<1>3. su = [st EXCEPT !.epoch[x] = st.epoch[x] + 1, !.work = work, !.owed[x] = owed]
  BY DEF Folded
<1>4. st.epoch \in [Device -> Nat] /\ st.owed \in [Device -> Int]
  BY <1>1 DEF StoreOK, Typed
<1>5. Kept(st, d)
  BY <1>1 DEF World
<1>6. owed = -1
  BY <1>5 DEF Kept, Whole
<1>7. st.work \subseteq work /\ (Removed(st, x) \/ x \in work)
  OBVIOUS
<1> HIDE DEF su, owed, work
<1>8. /\ su.rows = st.rows /\ su.seen = st.seen /\ su.accepted = st.accepted
      /\ su.gap = st.gap /\ su.deferred = st.deferred /\ su.ver = st.ver
      /\ su.floor = st.floor /\ su.work = work
      /\ su.owed = [st.owed EXCEPT ![x] = owed]
      /\ su.epoch = [st.epoch EXCEPT ![x] = st.epoch[x] + 1]
  BY <1>1, <1>3 DEF StoreInv, Shaped
<1>9. ASSUME NEW b, InCharge(st, b)
      PROVE  InCharge(su, b)
  <2>1. CASE b \in st.work
    BY <1>7, <1>8, <2>1 DEF InCharge
  <2>2. CASE Effective(st, b) /\ b = x
    BY <1>7, <1>8, <2>2 DEF InCharge, Effective
  <2>3. CASE Effective(st, b) /\ b # x
    <3>1. b \in Device
      BY <2>3, RowsAssumption DEF Effective
    <3>2. su.epoch[b] = st.epoch[b]
      BY <1>4, <1>8, <2>3, <3>1
    <3> QED BY <2>3, <3>2 DEF InCharge, Effective, Removed
  <2> QED BY <1>9, <2>1, <2>2, <2>3 DEF InCharge
<1>10. Kept(su, d)
  <2>1. \A b \in Device : su.owed[b] = -1
    BY <1>4, <1>5, <1>6, <1>8 DEF Kept, Whole
  <2>2. \A r \in Row : AdoptedRow(st, r) => AdoptedRow(su, r)
    BY <1>8, <1>9, AdoptedBooks
  <2>3. Pending(su) = Pending(st)
    BY <1>8 DEF Pending
  <2> QED BY <1>5, <1>8, <2>1, <2>2, <2>3, KeptBooks
<1>11. Replaces(store', store, d, su)
  BY <1>2 DEF Replaces, IInv
<1>12. World(store', edits)
  BY <1>1, <1>8, <1>10, <1>11, WorldBooks
<1> QED BY <1>2, <1>12, StoreStepKept

-----------------------------------------------------------------------------
(* Beginning a transaction *)

\* A transaction begins: the world it works on is the committed one with its
\* store.
LEMMA BeginKept ==
    ASSUME IInv, PInv, KInv, NEW t, tx' = t, t # NoTx, store' = store, edits' = edits,
           t.dev \in Device, Kept(t.st, t.dev), t.st.accepted = store[t.dev].accepted,
           \A r \in Row : t.st.rows[r].cells = store[t.dev].rows[r].cells
                          /\ t.st.rows[r].pub = store[t.dev].rows[r].pub,
           TxKept(t)
    PROVE  KInv'
<1>1. Sane(store) /\ World(store, edits) /\ edits \in Nat
  BY SaneWorlds DEF KInv
<1>2. Now' = [store EXCEPT ![t.dev] = t.st]
  BY DEF Now
<1>3. Replaces(Now', store, t.dev, t.st)
  BY <1>2 DEF Replaces, IInv
<1>4. \A r \in Row : Unsigned(t.st.rows[r]) => Unsigned(store[t.dev].rows[r])
  BY DEF Unsigned
<1>5. World(Now', edits)
  BY <1>1, <1>3, <1>4, WorldBooks
<1>6. WorkKept(store[t.dev], t)
  BY DEF WorkKept, Dirty, PublishedCells
<1> QED BY <1>1, <1>5, <1>6 DEF KInv

\* What the scan's restamping leaves alone.
LEMMA RestampedFields ==
    ASSUME NEW st, StoreInv(st), StoreOK(st), OneName(st)
    PROVE  LET y == Restamped(st) IN
           /\ SameLog(y, st) /\ y.seen = st.seen /\ y.work = st.work
           /\ y.gap = st.gap /\ y.deferred = st.deferred
           /\ \A r \in Row : /\ y.rows[r].clock = st.rows[r].clock
                             /\ y.rows[r].carriers = st.rows[r].carriers
                             /\ y.rows[r].tomb = st.rows[r].tomb
                             /\ y.rows[r].tombCarriers = st.rows[r].tombCarriers
                             /\ y.rows[r].cells = st.rows[r].cells
                             /\ y.rows[r].pub = st.rows[r].pub
<1> DEFINE rows == [r \in Row |->
               IF Stale(st, r) /\ st.rows[r].cells \in WinningCells(st, r)
               THEN [st.rows[r] EXCEPT !.pub = st.rows[r].cells, !.pubVer = st.ver]
               ELSE st.rows[r]]
           y == Restamped(st)
<1>1. y = [st EXCEPT !.rows = rows]
  BY DEF Restamped
<1>2. ASSUME NEW r \in Row
      PROVE  /\ rows[r].clock = st.rows[r].clock /\ rows[r].carriers = st.rows[r].carriers
             /\ rows[r].tomb = st.rows[r].tomb
             /\ rows[r].tombCarriers = st.rows[r].tombCarriers
  <2>1. st.rows[r] \in RowState
    BY DEF StoreOK, Typed
  <2>2. \/ rows[r] = st.rows[r]
        \/ rows[r] = [st.rows[r] EXCEPT !.pub = st.rows[r].cells, !.pubVer = st.ver]
    OBVIOUS
  <2> HIDE DEF rows
  <2> QED BY <2>1, <2>2 DEF RowState
<1> HIDE DEF rows
<1>3. \A r \in Row : y.rows[r].cells = st.rows[r].cells /\ y.rows[r].pub = st.rows[r].pub
  BY RestampedOK
<1> HIDE DEF y
<1>4. /\ SameLog(y, st) /\ y.seen = st.seen /\ y.work = st.work /\ y.gap = st.gap
      /\ y.deferred = st.deferred /\ y.rows = rows
  BY <1>1 DEF StoreInv, Shaped, SameLog
<1> QED BY <1>2, <1>3, <1>4 DEF y

\* While everything is retained the winner of a row is always at hand, so a
\* stale record never hides whether the row changed (compare_stale_row).
LEMMA WinnerAtHand ==
    ASSUME NEW st, StoreOK(st), NEW r \in Row, AdoptedRow(st, r)
    PROVE  ~UnresolvedWinner(st, r)
<1> SUFFICES ASSUME UnresolvedWinner(st, r)
             PROVE  FALSE
  OBVIOUS
<1>1. st.rows[r].pub # Unpublished /\ WinningCells(st, r) = {}
  BY DEF UnresolvedWinner, Stale
<1>2. st.rows[r].clock # NoClock
  BY <1>1, RecordIsClaim
<1>3. PICK e \in st.accepted : Carries(st, r, e)
  BY <1>2 DEF AdoptedRow
<1>4. e.items[r].cells \in WinningCells(st, r)
  BY <1>3 DEF Carries, WinningCells
<1> QED BY <1>1, <1>4

\* What the producer signs as an upsert is a changed row.
LEMMA OwedIsUnsigned ==
    ASSUME NEW st, StoreInv(st), StoreOK(st), OneName(st), NEW r \in Row, AdoptedRow(st, r),
           OwesUpsert(st, r)
    PROVE  Unsigned(st.rows[r])
<1> DEFINE x == st.rows[r]
<1>1. LocallyChanged(st, r)
  BY WinnerAtHand DEF OwesUpsert
<1>2. x.cells \in Cells
  BY <1>1 DEF LocallyChanged
<1>3. CASE x.pub = Unpublished
  BY <1>2, <1>3, MergeAssumption DEF Unsigned
<1>4. CASE x.pub # x.cells
  BY <1>2, <1>4 DEF Unsigned
<1>5. CASE /\ x.pub # Unpublished
           /\ WinningCells(st, r) # {} /\ x.cells \notin WinningCells(st, r)
  <2>1. PICK c \in WinningCells(st, r) : TRUE
    BY <1>5
  <2>2. c = x.pub
    BY <1>5, WinnerIsRecord
  <2> QED BY <1>2, <1>5, <2>1, <2>2 DEF Unsigned
<1> QED BY <1>1, <1>3, <1>4, <1>5 DEF LocallyChanged, Stale

\* The producer's pass begins.
LEMMA BeginProduceKept ==
    ASSUME IInv, PInv, KInv, NEW d \in Device, BeginProduce(d)
    PROVE  KInv'
<1> DEFINE st == store[d]
           su == Restamped(st)
           owed == {r \in Row : OwesUpsert(st, r) \/ LocallyDeleted(st, r)}
           t == [kind |-> "produce", dev |-> d, who |-> d, st |-> su, rows |-> owed,
                 replay |-> st.deferred]
<1>1. /\ Sane(store) /\ World(store, edits) /\ StoreInv(st) /\ StoreOK(st) /\ OneName(st)
  BY SaneWorlds, OneNameHolds, StatesAre DEF KInv, Sane, PInv
<1>2. Kept(st, d)
  BY <1>1 DEF World
<1>3. ~StreamPending(st)
  BY <1>2 DEF StreamPending, Kept, Whole
<1>4. tx' = t /\ store' = store /\ edits' = edits /\ Effective(st, d)
  BY <1>3 DEF BeginProduce
<1>5. /\ SameLog(su, st) /\ su.seen = st.seen /\ su.work = st.work
      /\ su.gap = st.gap /\ su.deferred = st.deferred
      /\ \A r \in Row : /\ su.rows[r].clock = st.rows[r].clock
                        /\ su.rows[r].carriers = st.rows[r].carriers
                        /\ su.rows[r].tomb = st.rows[r].tomb
                        /\ su.rows[r].tombCarriers = st.rows[r].tombCarriers
                        /\ su.rows[r].cells = st.rows[r].cells
                        /\ su.rows[r].pub = st.rows[r].pub
  BY <1>1, RestampedFields
<1> HIDE DEF su
<1>6. Kept(su, d)
  <2>1. \A b : InCharge(st, b) => InCharge(su, b)
    BY <1>5 DEF InCharge, Effective, Removed, SameLog
  <2>2. \A r \in Row : AdoptedRow(st, r) => AdoptedRow(su, r)
    BY <1>5, <2>1, AdoptedBooks DEF SameLog
  <2>3. /\ su.accepted = st.accepted /\ su.floor = st.floor /\ Pending(su) = Pending(st)
        /\ \A b \in Device : su.owed[b] = -1
    BY <1>2, <1>5 DEF SameLog, Pending, Kept, Whole
  <2> QED BY <1>2, <1>5, <2>2, <2>3, KeptBooks
<1>7. \A r \in owed : r \in Row /\ (su.rows[r].cells = Absent \/ Unsigned(su.rows[r]))
  <2> SUFFICES ASSUME NEW r \in owed
               PROVE  su.rows[r].cells = Absent \/ Unsigned(su.rows[r])
    OBVIOUS
  <2>1. CASE LocallyDeleted(st, r)
    BY <1>5, <2>1 DEF LocallyDeleted
  <2>2. CASE OwesUpsert(st, r)
    <3>1. Unsigned(st.rows[r])
      BY <1>1, <1>2, <2>2, OwedIsUnsigned DEF Kept
    <3> QED BY <1>5, <3>1 DEF Unsigned
  <2> QED BY <2>1, <2>2
<1>8. \A e \in st.deferred : e.dev # d
  BY <1>1, <1>2 DEF Kept, OwnLog, Chain, Pending, StoreOK, Typed
<1>9. Effective(su, d)
  BY <1>4, <1>5 DEF Effective, Removed, SameLog
<1> HIDE DEF owed
<1>10. TxKept(t)
  BY <1>7, <1>8, <1>9 DEF TxKept
<1>11. t # NoTx
  BY KindIsTx
<1>12. t.dev = d /\ t.st = su
  OBVIOUS
<1> HIDE DEF t
<1>13. su.accepted = st.accepted
  BY <1>5 DEF SameLog
<1> QED BY <1>4, <1>5, <1>6, <1>10, <1>11, <1>12, <1>13, BeginKept

\* Opening the store begins the refold.
LEMMA OpenKept ==
    ASSUME IInv, PInv, KInv, NEW d \in Device, NEW v, Open(d, v)
    PROVE  KInv'
<1> DEFINE st == store[d]
           su == [st EXCEPT !.ver = v]
           replay == IF v > st.ver THEN Pending(st) ELSE st.deferred
           t == [kind |-> "open", dev |-> d, who |-> d, st |-> su, rows |-> {}, replay |-> replay]
<1>1. /\ Sane(store) /\ World(store, edits) /\ StoreInv(st) /\ StoreOK(st)
  BY SaneWorlds DEF KInv, Sane
<1>2. Kept(st, d)
  BY <1>1 DEF World
<1>3. tx' = t /\ store' = store /\ edits' = edits
  BY DEF Open
<1>4. /\ su.rows = st.rows /\ su.seen = st.seen /\ su.accepted = st.accepted
      /\ su.gap = st.gap /\ su.deferred = st.deferred /\ su.floor = st.floor
      /\ su.owed = st.owed /\ su.epoch = st.epoch /\ su.work = st.work
  BY <1>1 DEF StoreInv, Shaped
<1> HIDE DEF su
<1>5. Kept(su, d)
  <2>1. \A b : InCharge(st, b) => InCharge(su, b)
    BY <1>4 DEF InCharge, Effective, Removed
  <2>2. \A r \in Row : AdoptedRow(st, r) => AdoptedRow(su, r)
    BY <1>4, <2>1, AdoptedBooks
  <2>3. Pending(su) = Pending(st) /\ \A b \in Device : su.owed[b] = -1
    BY <1>2, <1>4 DEF Pending, Kept, Whole
  <2> QED BY <1>2, <1>4, <2>2, <2>3, KeptBooks
<1>6. \A e \in replay : e.dev # d
  BY <1>1, <1>2 DEF Kept, OwnLog, Chain, Pending, StoreOK, Typed
<1> HIDE DEF replay
<1>7. TxKept(t)
  BY <1>6 DEF TxKept
<1>8. t # NoTx
  BY KindIsTx
<1>9. t.dev = d /\ t.st = su
  OBVIOUS
<1> HIDE DEF t
<1> QED BY <1>3, <1>4, <1>5, <1>7, <1>8, <1>9, BeginKept

-----------------------------------------------------------------------------
(* A scope that retains everything is never compacted *)

\* No budget: no floor advances, so there is nothing to begin.
LEMMA BeginCompactNever ==
    ASSUME IInv, PInv, KInv, Keep = 0, NEW d \in Device, NEW run \in SUBSET Row
    PROVE  ~BeginCompact(d, run)
<1> DEFINE st == store[d]
<1>1. StoreOK(st) /\ Whole(st)
  BY DEF PInv, KInv, World, Kept
<1>2. ASSUME NEW c \in Device
      PROVE  Target(st, c) = -1 /\ PinnedRows(st, c, -1) = {} /\ From(st, c) = 0
  <2>1. Target(st, c) = -1
    BY DEF Target
  <2>2. From(st, c) = Max({0, -1})
    BY <1>1 DEF From, Whole
  <2>3. Max({0, -1}) = 0
    <3> DEFINE S == {0, -1}
    <3>1. S \in SUBSET Int /\ 0 \in Int /\ (\A x \in S : x <= 0) /\ S # {}
      OBVIOUS
    <3>2. Max(S) \in S /\ \A y \in S : Max(S) >= y
      BY <3>1, MaxExists
    <3> QED BY <3>2
  <2>4. \A r \in Row : PinOf(st, c, r) \in Int
    BY <1>1 DEF StoreOK, Typed, RowState, PinOf
  <2>5. PinnedRows(st, c, -1) = {}
    BY <2>2, <2>3, <2>4 DEF PinnedRows
  <2> QED BY <2>1, <2>2, <2>3, <2>5
<1>3. ASSUME NEW c \in Device
      PROVE  FloorOf(st, c) = st.floor[c]
  <2>1. {-1} \cup {PinOf(st, c, r) : r \in PinnedRows(st, c, -1)} = {-1}
    BY <1>2
  <2>2. Min({-1}) = -1
    BY DEF Min
  <2> QED BY <1>2, <2>1, <2>2 DEF FloorOf, FloorBelow
<1>4. st.floor \in [Device -> Int]
  BY <1>1 DEF StoreOK, Typed
<1>5. \A c \in Device : ~(FloorOf(st, c) > st.floor[c])
  <2> SUFFICES ASSUME NEW c \in Device
               PROVE  ~(FloorOf(st, c) > st.floor[c])
    OBVIOUS
  <2>1. st.floor[c] \in Int /\ FloorOf(st, c) = st.floor[c]
    BY <1>3, <1>4
  <2> QED BY <2>1
<1> QED BY <1>2, <1>5 DEF BeginCompact, IsRun

-----------------------------------------------------------------------------
(* A step of a transaction *)

\* The world the transaction works on gets its next store.
LEMMA TxReplaces ==
    ASSUME IInv, PInv, tx # NoTx, NEW t, tx' = t, t # NoTx, store' = store, t.dev = tx.dev
    PROVE  Replaces(Now', Now, tx.dev, t.st)
<1>1. tx.dev \in Device /\ Replaces(Now, store, tx.dev, tx.st)
  BY SaneWorlds
<1>2. Now' = [store EXCEPT ![tx.dev] = t.st]
  BY DEF Now
<1>3. Replaces(Now', store, tx.dev, t.st)
  BY <1>1, <1>2 DEF Replaces, IInv
<1> QED BY <1>1, <1>3 DEF Replaces

LEMMA TxStepKept ==
    ASSUME IInv, PInv, KInv, NEW t, tx' = t, t # NoTx, store' = store, edits' = edits,
           t.dev = tx.dev, World(Now', edits), TxKept(t), WorkKept(store[t.dev], t)
    PROVE  KInv'
  BY DEF KInv

\* A row with unsent local work is not overwritten: the entry is parked, or
\* leaves this row as it is (pre_apply).
LEMMA DirtyUntouched ==
    ASSUME NEW st, StoreInv(st), StoreOK(st), OneName(st), NEW e \in st.accepted,
           ~StatesAhead(e), e.kind # "restate", NEW dev \in Writers, NEW live \in BOOLEAN,
           NEW r \in Row, AdoptedRow(st, r), Dirty(st, r)
    PROVE  LET y == Evaluated(st, e, dev, live) IN
           y.rows[r].cells = st.rows[r].cells /\ y.rows[r].pub = st.rows[r].pub
<1> DEFINE y == Evaluated(st, e, dev, live)
<1>1. PICK part \in SUBSET Named(e) :
         /\ Settles(st, y, e, part)
         /\ Defers(st, e, dev, live) => part \cap Blocked(st, e) = {}
  BY EvaluatedSettles
<1> HIDE DEF y
<1>2. y.rows[r] = IF r \in part THEN Settle(st.rows[r], e, r, st.ver) ELSE st.rows[r]
  BY <1>1 DEF Settles
<1>3. CASE r \notin part
  BY <1>2, <1>3 DEF y
<1>4. CASE r \in part
  <2>1. r \in Named(e) /\ Fits(e)
    BY <1>1, <1>4, AcceptedFits
  <2>2. OwesUpsert(st, r) \/ LocallyDeleted(st, r)
    BY UnsentIsOwed
  <2>3. ProvenUnsent(st, r, ~Rewrites(e))
    BY <2>2, WinnerAtHand DEF OwesUpsert, ProvenUnsent
  <2>4. r \notin Touched(st, e)
    <3> SUFFICES ASSUME r \in Touched(st, e)
                 PROVE  FALSE
      OBVIOUS
    <3>1. r \in Proven(st, e) /\ r \in Blocked(st, e)
      BY <2>3 DEF Proven, Blocked
    <3>2. Defers(st, e, dev, live)
      BY <3>1 DEF Defers
    <3> QED BY <1>1, <1>4, <3>1, <3>2
  <2>5. e.kind = "restaterows" /\ ~Takes(st.rows[r], e.items[r].id)
    BY <2>1, <2>4 DEF Touched
  <2>6. st.rows[r] \in RowState /\ st.ver \in Nat /\ Rewrites(e)
    BY <2>5 DEF StoreOK, Typed, Rewrites
  <2>7. LET z == Settle(st.rows[r], e, r, st.ver) IN
        z.cells = st.rows[r].cells /\ z.pub = st.rows[r].pub
    BY <2>1, <2>5, <2>6, WriteTakes
  <2> QED BY <1>2, <1>4, <2>7 DEF y
<1> QED BY <1>3, <1>4

\* What has lost to the row's merge state leaves the row as it is.
LEMMA BeatenUntouched ==
    ASSUME NEW st, StoreInv(st), StoreOK(st), NEW su, NEW e, Fits(e), NEW part,
           Settles(st, su, e, part), NEW r \in Row,
           st.rows[r].clock = NoClock => st.rows[r].cells = Absent,
           LET x == st.rows[r] IN
           r \in Named(e) => Beats(IF x.clock = NoClock THEN x.tomb ELSE x.clock, e.items[r].id)
    PROVE  /\ su.rows[r].cells = st.rows[r].cells /\ su.rows[r].clock = st.rows[r].clock
           /\ st.rows[r].clock = NoClock => su.rows[r].tomb = st.rows[r].tomb
<1> DEFINE x == st.rows[r]
           z == Settle(x, e, r, st.ver)
<1>1. su.rows[r] = IF r \in part THEN z ELSE x
  BY DEF Settles
<1>2. CASE r \notin part
  BY <1>1, <1>2
<1>3. CASE r \in part
  <2> DEFINE id == e.items[r].id
  <2>1. r \in Named(e) /\ x \in RowState /\ st.ver \in Nat
    BY <1>3 DEF Settles, StoreOK, Typed
  <2>2. /\ id \in Clk /\ x.clock \in Clk /\ x.tomb \in Clk /\ id # NoClock
        /\ Beats(IF x.clock = NoClock THEN x.tomb ELSE x.clock, id)
    BY <2>1, EntryStates, RowClocks DEF Clk, Clock, NoClock
  <2>3. x.clock # NoClock => ~Beats(id, x.clock)
    BY <2>2, BeatsOrder
  <2>4. x.clock = NoClock => ~Beats(id, x.tomb)
    BY <2>2, BeatsOrder
  <2>6. CASE Rewrites(e)
    <3>1. ~Takes(x, id)
      BY <2>3, <2>4 DEF Takes
    <3>2. z.tomb = x.tomb /\ z.clock = x.clock /\ z.cells = x.cells
      BY <2>1, <2>6, <3>1, WriteTakes
    <3> QED BY <1>1, <1>3, <2>6, <3>2
  <2>7. CASE ~Rewrites(e)
    <3> DEFINE wins == Beats(x.clock, id)
    <3>1. /\ wins => z.clock = x.clock /\ z.cells = x.cells
          /\ ~wins => z.clock = NoClock /\ z.cells = Absent
          /\ z.tomb = IF Beats(id, x.tomb) THEN id ELSE x.tomb
      BY <2>1, <2>7, DeleteTakes
    <3> HIDE DEF z, id
    <3>2. CASE x.clock = NoClock
      <4>1. ~wins
        BY <2>2, <3>2, BeatsOrder
      <4> QED BY <1>1, <1>3, <2>4, <2>7, <3>1, <3>2, <4>1
    <3>3. CASE x.clock # NoClock
      <4>1. wins
        BY <2>2, <3>3
      <4> QED BY <1>1, <1>3, <3>1, <3>3, <4>1
    <3> QED BY <3>2, <3>3
  <2> QED BY <2>6, <2>7
<1> QED BY <1>2, <1>3

\* What replaying an entry does to the transaction's store: the entry is
\* settled on some rows, and if that moved one of them, its signer is looked
\* after again (rearm_removed_writers).
LEMMA ReplaySettles ==
    ASSUME NEW st, StoreInv(st), StoreOK(st), NEW e \in st.accepted, ~StatesAhead(e),
           e.dev \in Writers, e.kind # "restate", NEW dev
    PROVE  LET done == Evaluated(st, e, dev, FALSE)
               su == Rearmed(done, st, e)
           IN  /\ su.rows = done.rows
               /\ \E part \in SUBSET Named(e) :
                     /\ Settles(st, su, e, part)
                     /\ \A r \in part : Moves(st.rows[r], e, r) => InCharge(su, e.dev)
<1> DEFINE done == Evaluated(st, e, dev, FALSE)
           su == Rearmed(done, st, e)
           named == {e.dev} \cup {e.items[r].id.dev : r \in
                       IF e \in Pending(done) THEN Named(e) \ Blocked(st, e) ELSE Named(e)}
           w == {x \in Device : x \in named /\ Removed(done, x)}
<1>1. PICK part \in SUBSET Named(e) :
         /\ Settles(st, done, e, part) /\ done.work = st.work
         /\ e \in Pending(done) /\ ~Restates(e) => part = {}
  BY EvaluatedSettles
<1>2. StoreInv(done) /\ Fits(e) /\ e.dev \in Device
  BY EvaluatedKeeps, EntryDevices DEF StoreInv, EntriesOK
<1>3. su = IF Moved(done, st, e) THEN [done EXCEPT !.work = @ \cup w] ELSE done
  BY DEF Rearmed
<1>4. Removed(done, e.dev) => e.dev \in w
  BY <1>2
<1> HIDE DEF done, su, w
<1>5. /\ su.rows = done.rows /\ su.seen = done.seen /\ su.accepted = done.accepted
      /\ su.gap = done.gap /\ su.deferred = done.deferred /\ su.ver = done.ver
      /\ su.floor = done.floor /\ su.owed = done.owed /\ su.epoch = done.epoch
      /\ su.work = IF Moved(done, st, e) THEN done.work \cup w ELSE done.work
  BY <1>2, <1>3 DEF StoreInv, Shaped
<1>6. Settles(st, su, e, part)
  <2>1. Pending(su) = Pending(done)
    BY <1>5 DEF Pending
  <2> QED BY <1>1, <1>5, <2>1 DEF Settles
<1>7. ASSUME NEW r \in part, Moves(st.rows[r], e, r)
      PROVE  InCharge(su, e.dev)
  <2>1. r \in Named(e) /\ r \in Row
    BY <1>1 DEF Named
  <2>2. Moved(done, st, e)
    <3>1. CASE ~Restates(e)
      BY <1>1, <1>7, <2>1, <3>1 DEF Moved, Moves
    <3>2. CASE Restates(e)
      <4>1. Rewrites(e) /\ st.rows[r] \in RowState /\ st.ver \in Nat
        BY <2>1, <3>2 DEF Restates, Rewrites, StoreOK, Typed
      <4>2. Takes(st.rows[r], e.items[r].id)
        BY <1>7, <4>1 DEF Moves
      <4>3. Settle(st.rows[r], e, r, st.ver).clock = e.items[r].id
        BY <1>2, <2>1, <4>1, <4>2, WriteTakes
      <4>4. done.rows[r].clock = e.items[r].id
        BY <1>1, <1>7, <2>1, <4>3 DEF Settles
      <4>5. st.rows[r].clock \in Clk /\ Beats(e.items[r].id, st.rows[r].clock)
        BY <2>1, <4>2, RowClocks DEF Takes
      <4>6. done.rows[r].clock # st.rows[r].clock
        BY <4>4, <4>5, BeatsOrder
      <4> QED BY <3>2, <4>6 DEF Moved
    <3> QED BY <3>1, <3>2
  <2> QED BY <1>4, <1>5, <2>2 DEF InCharge, Effective, Removed
<1> QED BY <1>5, <1>6, <1>7 DEF su, done

\* The refold replays the next entry it owes (replay_pending_entry).
LEMMA ReplayKept ==
    ASSUME IInv, PInv, KInv, tx # NoTx, NEW e \in tx.replay, ReplayNext(e)
    PROVE  KInv'
<1> DEFINE st == tx.st
           d == tx.dev
           done == Evaluated(st, e, d, FALSE)
           su == Rearmed(done, st, e)
           t == [tx EXCEPT !.st = su, !.replay = @ \ {e}]
<1>1. /\ TxInv(tx) /\ TxOK(tx) /\ TxKept(tx) /\ WorkKept(store[d], tx)
      /\ StoreInv(st) /\ StoreOK(st) /\ e \in st.accepted /\ d \in Device
  BY DEF IInv, PInv, KInv, TxInv, TxOK
<1>2. Sane(Now) /\ World(Now, edits) /\ edits \in Nat /\ Now[d] = st
  BY SaneWorlds DEF KInv
<1>3. Kept(st, d)
  BY <1>1, <1>2 DEF World
<1>4. /\ Fits(e) /\ e.kind # "restate" /\ e.dev \in Writers /\ ~StatesAhead(e) /\ e.dev # d
  BY <1>1, <1>3, EntryDevices DEF Kept, Whole, TxKept
<1>5. tx' = t /\ store' = store /\ edits' = edits /\ tx.rows = {}
  BY DEF ReplayNext
<1>6. PICK part \in SUBSET Named(e) :
         /\ Settles(st, su, e, part) /\ su.rows = done.rows
         /\ \A r \in part : Moves(st.rows[r], e, r) => InCharge(su, e.dev)
  BY <1>1, <1>4, ReplaySettles
<1>7. ASSUME d \in Writers, NEW r \in Row, Dirty(st, r)
      PROVE  done.rows[r].cells = st.rows[r].cells /\ done.rows[r].pub = st.rows[r].pub
  <2>1. OneName(st) /\ AdoptedRow(st, r)
    BY <1>3, OneNameHolds, StatesAre DEF PInv, Kept
  <2> QED BY <1>1, <1>4, <1>7, <2>1, DirtyUntouched
<1> HIDE DEF su, done
<1>8. /\ t.kind = tx.kind /\ t.dev = d /\ t.who = tx.who /\ t.st = su
      /\ t.rows = {} /\ t.replay = tx.replay \ {e}
  BY <1>1, <1>5 DEF TxInv
<1> HIDE DEF t
<1>9. t # NoTx
  BY <1>1, <1>8, KindIsTx DEF TxOK
<1>10. Replaces(Now', Now, d, su)
  BY <1>5, <1>8, <1>9, TxReplaces
<1>11. World(Now', edits)
  <2>1. Follows(st, e)
    BY <1>1, <1>2, FollowsCopies
  <2>2. Proper(st, su, e, part, d)
    BY <1>4, <1>6, <2>1 DEF Proper
  <2> QED BY <1>1, <1>2, <1>6, <1>10, <2>2, WorldEvaluates
<1>12. TxKept(t)
  <2>1. Effective(st, d) => Effective(su, d)
    BY <1>6 DEF Settles, Effective, Removed
  <2>2. tx.kind # "readopt"
    BY <1>1 DEF TxKept
  <2> QED BY <1>1, <1>8, <2>1, <2>2 DEF TxKept
<1>13. WorkKept(store[d], t)
  <2> SUFFICES ASSUME d \in Writers, NEW r \in Row, Dirty(store[d], r)
               PROVE  /\ su.rows[r].cells = store[d].rows[r].cells
                      /\ Dirty(su, r) \/ Sealed(t, r)
    BY <1>8 DEF WorkKept
  <2>1. st.rows[r].cells = store[d].rows[r].cells /\ (Dirty(st, r) \/ Sealed(tx, r))
    BY <1>1 DEF WorkKept
  <2>2. CASE Dirty(st, r)
    BY <1>6, <1>7, <2>1, <2>2 DEF Dirty, PublishedCells
  <2>3. CASE Sealed(tx, r)
    <3>1. /\ st.rows[r].clock = NoClock => st.rows[r].cells = Absent
          /\ r \in Named(e) => Beats(IF st.rows[r].clock = NoClock THEN st.rows[r].tomb
                                     ELSE st.rows[r].clock, e.items[r].id)
      BY <2>3 DEF Sealed
    <3>2. /\ su.rows[r].cells = st.rows[r].cells /\ su.rows[r].clock = st.rows[r].clock
          /\ st.rows[r].clock = NoClock => su.rows[r].tomb = st.rows[r].tomb
      BY <1>1, <1>4, <1>6, <3>1, BeatenUntouched
    <3>3. Sealed(t, r)
      BY <1>8, <2>3, <3>2 DEF Sealed
    <3> QED BY <2>1, <3>2, <3>3
  <2> QED BY <2>1, <2>2, <2>3
<1> QED BY <1>5, <1>8, <1>9, <1>11, <1>12, <1>13, TxStepKept

-----------------------------------------------------------------------------
(* Signing *)

\* The op of one row: a write of its contents or a delete, under the
\* entry's own name.
LEMMA RowOpSettles ==
    ASSUME NEW st, StoreInv(st), StoreOK(st), NEW n \in 0..MaxLamport, NEW dev \in Device,
           NEW r \in Row, st.rows[r].cells # Unreadable, \A x \in st.accepted : x.lam < n
    PROVE  LET id == [lam |-> n, dev |-> dev]
               y == RowOp(st, id, r)
           IN  \E e : /\ Fits(e) /\ EntryId(e) = id /\ e.dev = dev /\ e.lam = n
                      /\ e.kind = IF st.rows[r].cells = Absent THEN "remove" ELSE "upsert"
                      /\ Named(e) = {r} /\ e.items[r].id = id
                      /\ Rewrites(e) => e.items[r].cells = st.rows[r].cells
                      /\ Settles(st, y, e, Named(e))
                      /\ y.work = st.work /\ e \notin Pending(y)
<1> DEFINE id == [lam |-> n, dev |-> dev]
           y == RowOp(st, id, r)
           gone == st.rows[r].cells = Absent
           item == [id |-> id, cells |-> IF gone THEN NoCells ELSE st.rows[r].cells]
           kind == IF gone THEN "remove" ELSE "upsert"
           items == [x \in Row |-> IF x = r THEN item ELSE NoItem]
           e == [dev |-> id.dev, lam |-> id.lam, kind |-> kind, ver |-> st.ver,
                 items |-> items]
<1>1. y = Authored(st, id, kind, items)
  BY DEF RowOp
<1>2. /\ st.rows[r] \in RowState /\ st.ver \in 1..MaxVersion
      /\ gone \/ st.rows[r].cells \in Cells
      /\ id \in Clock /\ n \in Nat /\ n <= MaxLamport
  BY RowsAssumption DEF StoreOK, Typed, RowState, Clock
<1>3. item \in Statement /\ item # NoItem
  <2>1. id # NoClock
    BY <1>2 DEF NoClock
  <2> QED BY <1>2, <2>1 DEF Statement, NoItem
<1>4. /\ e.items = items /\ e.dev = dev /\ e.lam = n /\ e.kind = kind /\ e.ver = st.ver
      /\ EntryId(e) = id /\ id.lam = n /\ id.dev = dev
  BY DEF EntryId
<1>5. \A x \in Row : items[x] = IF x = r THEN item ELSE NoItem
  OBVIOUS
<1>6. Named(e) = {r}
  BY <1>3, <1>4, <1>5 DEF Named
<1>7. (Rewrites(e) <=> ~gone) /\ ~Restates(e)
  BY DEF Rewrites, Restates
<1>8. e \in Entry
  <2>1. items \in [Row -> Statement \cup {NoItem}]
    BY <1>3
  <2> QED BY <1>2, <2>1 DEF Entry
<1>9. /\ item.id = id /\ item.cells = IF gone THEN NoCells ELSE st.rows[r].cells
      /\ item = [id |-> item.id, cells |-> item.cells]
  OBVIOUS
<1>10. \A x \in Named(e) : e.items[x] = item
  BY <1>4, <1>5, <1>6
<1> HIDE DEF e, items, item, kind
<1>11. Fits(e)
  <2>1. EntryOK(e)
    <3>1. IF Rewrites(e) THEN item.cells \in Content ELSE item.cells = NoCells
      BY <1>2, <1>7, <1>9 DEF Content
    <3> QED BY <1>2, <1>4, <1>9, <1>10, <3>1 DEF EntryOK
  <2>2. Sound(e)
    BY <1>2, <1>4, <1>9, <1>10 DEF Sound
  <2> QED BY <1>8, <2>1, <2>2 DEF Fits
<1>12. e = [dev |-> id.dev, lam |-> id.lam, kind |-> kind, ver |-> st.ver, items |-> items]
  BY DEF e
<1> HIDE DEF id
<1>13. Settles(st, y, e, Named(e)) /\ y.work = st.work /\ e \notin Pending(y)
  <2>1. ~StatesAhead(e) /\ EntryOK(e) /\ \A x \in st.accepted : x.lam < id.lam
    BY <1>4, <1>7, <1>11 DEF StatesAhead, Fits
  <2> QED BY <1>1, <1>12, <2>1, AuthoredSettles
<1>14. e.items[r].id = id /\ (Rewrites(e) => e.items[r].cells = st.rows[r].cells)
  BY <1>6, <1>7, <1>9, <1>10
<1>15. e.kind = IF gone THEN "remove" ELSE "upsert"
  BY <1>4 DEF kind
<1> HIDE DEF y
<1> QED BY <1>4, <1>6, <1>11, <1>13, <1>14, <1>15 DEF y, id

\* The transaction signs an entry: it is new, states what its rows hold or
\* takes them, and a write is one of its own or carried from the log.
LEMMA SignedWorld ==
    ASSUME IInv, PInv, KInv, tx # NoTx, NEW t, tx' = t, t # NoTx, store' = store,
           t.dev = tx.dev, Effective(tx.st, tx.dev), NEW e, Fits(e),
           e.kind # "restate", ~StatesAhead(e), e.dev = tx.dev,
           \A x \in tx.st.accepted : x.lam < e.lam,
           Settles(tx.st, t.st, e, Named(e)), e \notin Pending(t.st),
           Rewrites(e) => \A r \in Named(e) :
              /\ Takes(tx.st.rows[r], e.items[r].id) \/ e.items[r].id = tx.st.rows[r].clock
              /\ \A w \in Chain(tx.st, tx.dev) :
                    Rewrites(w) /\ r \in Named(w) => ~Beats(w.items[r].id, e.items[r].id),
           \A r \in Named(e) : \E o \in Now'[e.items[r].id.dev].accepted :
              EntryId(o) = e.items[r].id /\ ~Restates(o) /\ o.items[r] = e.items[r],
           e.kind = "upsert" =>
              \E r \in Named(e) : Moves(tx.st.rows[r], e, r) /\ Unsigned(tx.st.rows[r])
    PROVE  World(Now', edits)
<1> DEFINE st == tx.st
           d == tx.dev
           su == t.st
<1>1. /\ Sane(Now) /\ World(Now, edits) /\ edits \in Nat /\ Now[d] = st /\ d \in Device
  BY SaneWorlds DEF KInv
<1>2. Replaces(Now', Now, d, su)
  BY TxReplaces
<1>3. e.lam \in Nat /\ StoreInv(st) /\ StoreOK(st)
  BY <1>1 DEF Fits, EntryOK, Sane
<1>4. Follows(st, e)
  <2> SUFFICES ASSUME NEW w \in st.accepted, w.dev = e.dev
               PROVE  Ordered(w, e)
    BY DEF Follows
  <2>1. w.lam < e.lam /\ w.lam \in Nat /\ w \in Chain(st, d)
    BY <1>3, EntryDevices DEF Chain
  <2> QED BY <1>3, <2>1 DEF Ordered
<1>5. InCharge(su, d)
  BY DEF Settles, InCharge, Effective, Removed
<1>6. Proper(st, su, e, Named(e), d)
  BY <1>4, <1>5 DEF Proper, Effective
<1>7. Now'[d] = su
  BY <1>1, <1>2 DEF Replaces
<1>8. Copied(Now', su, e)
  <2>1. e \in su.accepted
    BY DEF Settles
  <2> QED BY <1>7, <2>1 DEF Copied, Chain
<1> QED BY <1>1, <1>2, <1>6, <1>8, WorldSigns

\* What was settled is older than what is signed next.
LEMMA SettledIsOlder ==
    ASSUME NEW st, StoreInv(st), StoreOK(st), NEW n \in Nat, \A x \in st.accepted : x.lam < n,
           NEW r \in Row
    PROVE  /\ \A s \in st.seen[r] : s.id.lam < n
           /\ st.rows[r].tomb.lam < n /\ st.rows[r].clock.lam < n
<1>1. \A s \in st.seen[r] : s.id.lam < n
  <2> SUFFICES ASSUME NEW s \in st.seen[r]
               PROVE  s.id.lam < n
    OBVIOUS
  <2>1. PICK x \in st.accepted : s.id.lam <= x.lam
    BY DEF StoreOK, Knows
  <2>2. x.lam \in Nat /\ s.id.lam \in Nat
    BY EntryDevices, RowClocks DEF Clock
  <2> QED BY <2>1, <2>2
<1>2. Latest(st.rows[r], st.seen[r])
  BY RowClocks
<1>3. NoClock.lam < n
  BY DEF NoClock
<1> QED BY <1>1, <1>2, <1>3 DEF Latest, Deletes, Writes

\* The entry states what the row holds, and takes it.
StatesRow(st, e, r) ==
    /\ e.items[r].id = EntryId(e)
    /\ IF Rewrites(e)
       THEN Takes(st.rows[r], EntryId(e)) /\ e.items[r].cells = st.rows[r].cells
       ELSE ~Beats(st.rows[r].clock, EntryId(e)) /\ st.rows[r].cells = Absent

\* The entry's row afterwards: its contents are as before, under the entry's
\* name.
LEMMA SignedRow ==
    ASSUME NEW st, StoreInv(st), StoreOK(st), NEW su, NEW e, Fits(e), NEW r \in Named(e),
           Settles(st, su, e, Named(e)), StatesRow(st, e, r),
           \A x \in st.accepted : x.lam < e.lam
    PROVE  LET y == su.rows[r] IN
           /\ y.cells = st.rows[r].cells
           /\ Rewrites(e) => y.clock = EntryId(e)
           /\ ~Rewrites(e) =>
                 y.clock = NoClock /\ y.tomb = EntryId(e) /\ y.tombCarriers[e.dev] = e.lam
<1> DEFINE x == st.rows[r]
           z == Settle(x, e, r, st.ver)
<1>1. r \in Row /\ x \in RowState /\ st.ver \in Nat /\ e.lam \in Nat /\ e.dev \in Device
  BY EntryStates DEF StoreOK, Typed, Fits, EntryOK
<1>2. su.rows[r] = z
  BY <1>1 DEF Settles
<1>3. CASE Rewrites(e)
  <2>1. z.clock = EntryId(e) /\ z.cells = x.cells
    BY <1>1, <1>3, WriteTakes DEF StatesRow
  <2> QED BY <1>2, <1>3, <2>1
<1>4. CASE ~Rewrites(e)
  <2>1. x.tomb.lam < e.lam /\ x.tomb.lam \in Int
    BY <1>1, SettledIsOlder, RowClocks, ClkParts
  <2>2. Beats(EntryId(e), x.tomb)
    BY <1>1, <2>1 DEF Beats, EntryId
  <2> DEFINE c == e.items[r].id
             stated == [x.tombCarriers EXCEPT ![e.dev] = IF e.lam > @ THEN e.lam ELSE @]
  <2>0. /\ Beats(x.clock, c) =>
              /\ z.clock = x.clock /\ z.cells = x.cells /\ z.pub = x.pub
              /\ z.carriers = x.carriers
        /\ ~Beats(x.clock, c) =>
              /\ z.clock = NoClock /\ z.cells = Absent /\ z.pub = Unpublished
              /\ \A b \in Device : z.carriers[b] = -1
        /\ Beats(c, x.tomb) => z.tomb = c /\ z.tombCarriers = OnlyCarrier(EntryId(e))
        /\ ~Beats(c, x.tomb) =>
              /\ z.tomb = x.tomb
              /\ z.tombCarriers = x.tombCarriers \/ (c = x.tomb /\ z.tombCarriers = stated)
    BY <1>1, <1>4, DeleteSettles
  <2> HIDE DEF z, c
  <2>3. /\ z.clock = NoClock /\ z.cells = Absent
        /\ z.tomb = EntryId(e) /\ z.tombCarriers = OnlyCarrier(EntryId(e))
    BY <1>4, <2>0, <2>2 DEF c, StatesRow
  <2>4. OnlyCarrier(EntryId(e))[e.dev] = e.lam
    BY <1>1 DEF OnlyCarrier, NoCarriers, EntryId
  <2>5. x.cells = Absent
    BY <1>4 DEF StatesRow
  <2> QED BY <1>2, <1>4, <2>3, <2>4, <2>5
<1> QED BY <1>3, <1>4

\* A row is signed, by the producer or in re-adoption.
LEMMA SignsRowKept ==
    ASSUME IInv, PInv, KInv, Keep = 0, NEW r \in Row, NEW n \in 0..MaxLamport,
           AuthorRow(r, n) \/ CarryRow(r, n)
    PROVE  KInv'
<1> DEFINE st == tx.st
           d == tx.dev
           id == [lam |-> n, dev |-> d]
           su == RowOp(st, id, r)
           t == [tx EXCEPT !.st = su, !.rows = @ \ {r}]
           gone == st.rows[r].cells = Absent
<1>1. /\ tx # NoTx /\ r \in tx.rows /\ IsNextLamport(st, n) /\ SelfApplies(st, id, r)
      /\ tx' = t /\ store' = store /\ edits' = edits
  BY DEF AuthorRow, CarryRow, Carrying, SignsRow
<1>2. /\ TxInv(tx) /\ TxOK(tx) /\ TxKept(tx) /\ WorkKept(store[d], tx)
      /\ StoreInv(st) /\ StoreOK(st) /\ d \in Device /\ RowsChosen(tx)
  BY <1>1 DEF IInv, PInv, KInv, TxInv, TxOK
<1>3. Now[d] = st /\ World(Now, edits) /\ Kept(st, d)
  BY <1>1, <1>2, SaneWorlds DEF KInv, World
<1>4. /\ tx.kind \in {"produce", "readopt"} /\ Effective(st, d)
      /\ tx.kind = "readopt" => st.rows[r].clock = NoClock
  BY <1>2 DEF AuthorRow, CarryRow, Carrying, AtTail, Live, TxKept
<1>5. /\ st.rows[r].cells # Unreadable
      /\ tx.kind = "readopt" => gone
  <2>1. tx.kind = "readopt" => gone
    BY <1>1, <1>2, <1>4 DEF RowsChosen
  <2>2. tx.kind = "produce" => st.rows[r].cells # Unreadable
    BY <1>1, <1>2 DEF RowsChosen
  <2> QED BY <1>4, <2>1, <2>2 DEF Absent, Unreadable
<1>6. n \in Nat /\ \A x \in st.accepted : x.lam < n
  BY <1>1, RowsAssumption DEF IsNextLamport
<1>7. PICK e : /\ Fits(e) /\ EntryId(e) = id /\ e.dev = d /\ e.lam = n
               /\ e.kind = IF gone THEN "remove" ELSE "upsert"
               /\ Named(e) = {r} /\ e.items[r].id = id
               /\ Rewrites(e) => e.items[r].cells = st.rows[r].cells
               /\ Settles(st, su, e, Named(e))
               /\ su.work = st.work /\ e \notin Pending(su)
  BY <1>2, <1>5, <1>6, RowOpSettles
<1>8. (Rewrites(e) <=> ~gone) /\ ~Restates(e)
  BY <1>7 DEF Rewrites, Restates
<1>9. id.lam = n /\ id.dev = d
  OBVIOUS
<1> HIDE DEF su, id
<1>10. /\ t.kind = tx.kind /\ t.dev = d /\ t.who = tx.who /\ t.st = su
       /\ t.rows = tx.rows \ {r} /\ t.replay = tx.replay
  BY <1>2 DEF TxInv
<1> HIDE DEF t
<1>11. t # NoTx
  BY <1>2, <1>10, KindIsTx DEF TxOK
<1>12. StatesRow(st, e, r) /\ (Rewrites(e) => Takes(st.rows[r], id))
  BY <1>1, <1>7, <1>8 DEF SelfApplies, StatesRow
<1>13. /\ su.rows[r].cells = st.rows[r].cells
       /\ Rewrites(e) => su.rows[r].clock = id
       /\ ~Rewrites(e) => /\ su.rows[r].clock = NoClock /\ su.rows[r].tomb = id
                          /\ su.rows[r].tombCarriers[d] = n
  <2>1. /\ r \in Named(e) /\ (\A x \in st.accepted : x.lam < e.lam)
        /\ Fits(e) /\ Settles(st, su, e, Named(e))
    BY <1>6, <1>7
  <2>2. /\ su.rows[r].cells = st.rows[r].cells
        /\ Rewrites(e) => su.rows[r].clock = EntryId(e)
        /\ ~Rewrites(e) => /\ su.rows[r].clock = NoClock /\ su.rows[r].tomb = EntryId(e)
                           /\ su.rows[r].tombCarriers[e.dev] = e.lam
    BY <1>2, <1>12, <2>1, SignedRow
  <2> QED BY <1>7, <2>2
<1>14. \A x \in Row : x # r => su.rows[x] = st.rows[x]
  BY <1>7 DEF Settles
<1>15. \A w \in st.accepted : \A x \in Named(w) : w.items[x].id.lam < n /\ w.items[x].id.lam \in Int
  <2> SUFFICES ASSUME NEW w \in st.accepted, NEW x \in Named(w)
               PROVE  w.items[x].id.lam < n /\ w.items[x].id.lam \in Int
    OBVIOUS
  <2>1. Fits(w) /\ ~StatesAhead(w) /\ w.lam \in Nat /\ w.items[x].id.lam \in Nat
    BY <1>2, <1>3, EntryDevices DEF Kept, Whole
  <2>2. w.items[x].id.lam <= w.lam
    BY <2>1, EntryStates
  <2> QED BY <1>6, <2>1, <2>2
<1>16. World(Now', edits)
  <2>1. e.kind # "restate" /\ ~StatesAhead(e)
    BY <1>7, <1>8 DEF StatesAhead
  <2>2. ASSUME Rewrites(e), NEW x \in Named(e)
        PROVE  /\ Takes(st.rows[x], e.items[x].id) \/ e.items[x].id = st.rows[x].clock
               /\ \A w \in Chain(st, d) :
                     Rewrites(w) /\ x \in Named(w) => ~Beats(w.items[x].id, e.items[x].id)
    <3>1. x = r /\ e.items[x].id = id
      BY <1>7
    <3>2. ASSUME NEW w \in Chain(st, d), x \in Named(w)
          PROVE  ~Beats(w.items[x].id, id)
      <4>1. w \in st.accepted /\ w.items[x].id.lam < n /\ w.items[x].id.lam \in Int
        BY <1>15, <3>2 DEF Chain
      <4> QED BY <1>6, <1>9, <4>1 DEF Beats
    <3> QED BY <1>7, <1>12, <2>2, <3>1, <3>2
  <2>3. e \in Now'[d].accepted
    <3>1. Now'[d] = su
      BY <1>1, <1>2, <1>10, <1>11, TxReplaces DEF Replaces
    <3> QED BY <1>7, <3>1 DEF Settles
  <2>4. \A x \in Named(e) : \E o \in Now'[e.items[x].id.dev].accepted :
           EntryId(o) = e.items[x].id /\ ~Restates(o) /\ o.items[x] = e.items[x]
    BY <1>7, <1>8, <1>9, <2>3
  <2>5. ASSUME e.kind = "upsert"
        PROVE  \E x \in Named(e) : Moves(st.rows[x], e, x) /\ Unsigned(st.rows[x])
    <3>1. Rewrites(e) /\ ~gone
      BY <1>7, <1>8, <2>5 DEF Rewrites
    <3>2. tx.kind = "produce"
      BY <1>4, <1>5, <3>1
    <3>3. Unsigned(st.rows[r])
      BY <1>1, <1>2, <3>1, <3>2 DEF TxKept
    <3> QED BY <1>7, <1>12, <3>1, <3>3 DEF Moves
  <2> QED BY <1>1, <1>4, <1>6, <1>7, <1>10, <1>11, <2>1, <2>2, <2>4, <2>5, SignedWorld
<1>17. TxKept(t)
  <2>1. Effective(su, d) /\ su.ver = st.ver /\ (Removed(su, tx.who) <=> Removed(st, tx.who))
    BY <1>4, <1>7 DEF Settles, Effective, Removed
  <2>2. tx.kind = "produce" =>
          \A x \in t.rows : su.rows[x].cells = Absent \/ Unsigned(su.rows[x])
    BY <1>2, <1>10, <1>14 DEF TxKept, TxInv
  <2>3. ASSUME tx.kind = "readopt", Removed(st, tx.who),
               NEW x \in Candidates(su, tx.who, d)
        PROVE  x \in t.rows \/ Unrepairable(su, x)
    <3>1. x # r
      <4>1. ~Rewrites(e)
        BY <1>5, <1>8, <2>3
      <4> QED BY <1>6, <1>13, <2>3, <4>1 DEF Candidates
    <3>2. x \in Row /\ su.rows[x] = st.rows[x]
      BY <1>14, <3>1 DEF Candidates
    <3>3. x \in Candidates(st, tx.who, d)
      BY <2>3, <3>2 DEF Candidates
    <3>4. x \in tx.rows \/ Unrepairable(st, x)
      BY <1>2, <2>3, <3>3 DEF TxKept
    <3>5. Unrepairable(st, x) => Unrepairable(su, x)
      <4>1. e \notin Pending(st)
        BY <1>2, <1>6, <1>7 DEF StoreOK, Typed, Pending
      <4>2. Pending(st) \subseteq Pending(su)
        BY <1>7, <4>1 DEF Settles
      <4> QED BY <2>1, <3>2, <4>2 DEF Unrepairable, AsPublished, PendingAbove
    <3> QED BY <1>10, <3>1, <3>4, <3>5
  <2> QED BY <1>2, <1>10, <2>1, <2>2, <2>3 DEF TxKept
<1>18. WorkKept(store[d], t)
  <2> SUFFICES ASSUME d \in Writers, NEW x \in Row, Dirty(store[d], x)
               PROVE  /\ su.rows[x].cells = store[d].rows[x].cells
                      /\ Dirty(su, x) \/ Sealed(t, x)
    BY <1>10 DEF WorkKept
  <2>1. st.rows[x].cells = store[d].rows[x].cells /\ (Dirty(st, x) \/ Sealed(tx, x))
    BY <1>2 DEF WorkKept
  <2>2. CASE x # r
    BY <1>10, <1>14, <2>1, <2>2 DEF Dirty, PublishedCells, Sealed
  <2>3. CASE x = r
    <3>1. id # NoClock
      BY <1>6, <1>9 DEF NoClock
    <3>2. \A w \in tx.replay : r \in Named(w) => Beats(id, w.items[r].id)
      <4> SUFFICES ASSUME NEW w \in tx.replay, r \in Named(w)
                   PROVE  Beats(id, w.items[r].id)
        OBVIOUS
      <4>1. w.items[r].id.lam < n /\ w.items[r].id.lam \in Int
        BY <1>2, <1>15 DEF TxOK
      <4> QED BY <1>6, <1>9, <4>1 DEF Beats
    <3>3. Sealed(t, r)
      BY <1>8, <1>10, <1>13, <3>1, <3>2 DEF Sealed
    <3> QED BY <1>13, <2>1, <2>3, <3>3
  <2> QED BY <2>2, <2>3
<1> QED BY <1>1, <1>10, <1>11, <1>16, <1>17, <1>18, TxStepKept

\* A row carried on at its own name is as it was, and the signer's chain
\* carries it from here on.
LEMMA RestatedRow ==
    ASSUME NEW st, StoreInv(st), StoreOK(st), NEW su, NEW e, Fits(e), NEW r \in Named(e),
           Settles(st, su, e, Named(e)), Rewrites(e), e.items[r].id = st.rows[r].clock
    PROVE  LET y == su.rows[r] IN
           /\ y.cells = st.rows[r].cells /\ y.pub = st.rows[r].pub
           /\ y.clock = st.rows[r].clock /\ y.clock # NoClock
           /\ y.carriers[e.dev] # -1
<1> DEFINE x == st.rows[r]
           z == Settle(x, e, r, st.ver)
           id == e.items[r].id
           stated == [x.carriers EXCEPT ![e.dev] = IF e.lam > @ THEN e.lam ELSE @]
<1>1. r \in Row /\ x \in RowState /\ st.ver \in Nat /\ e.lam \in Nat /\ e.dev \in Device
  BY EntryStates DEF StoreOK, Typed, Fits, EntryOK
<1>2. su.rows[r] = z
  BY <1>1 DEF Settles
<1>3. id \in Clk /\ id # NoClock
  BY EntryStates DEF Clk, Clock, NoClock
<1>4. ~Takes(x, id) /\ Beats(id, x.tomb) /\ id = x.clock
  BY <1>1, <1>3, BeatsOrder, RowClocks DEF Takes
<1>5. z.clock = x.clock /\ z.cells = x.cells /\ z.pub = x.pub
  BY <1>1, <1>4, WriteTakes
<1>6. z.carriers = stated
  <2>1. id = x.clock /\ Beats(id, x.tomb) =>
           z.carriers = [x.carriers EXCEPT ![e.dev] = IF e.lam > @ THEN e.lam ELSE @]
    BY <1>1, WriteSettles
  <2> QED BY <1>4, <2>1
<1>7. stated[e.dev] # -1
  <2>1. x.carriers \in [Device -> Int]
    BY <1>1 DEF RowState
  <2>2. x.carriers[e.dev] \in Int
    BY <1>1, <2>1
  <2>3. stated[e.dev] = IF e.lam > x.carriers[e.dev] THEN e.lam ELSE x.carriers[e.dev]
    BY <1>1, <2>1
  <2> HIDE DEF stated, x
  <2> QED BY <1>1, <2>2, <2>3
<1> QED BY <1>2, <1>3, <1>4, <1>5, <1>6, <1>7

\* The live rows of a removed writer are carried on, in one entry.
LEMMA CarryLiveKept ==
    ASSUME IInv, PInv, KInv, Keep = 0, NEW n \in 0..MaxLamport, CarryLive(n)
    PROVE  KInv'
<1> DEFINE st == tx.st
           d == tx.dev
           id == [lam |-> n, dev |-> d]
           items == [r \in Row |-> IF r \notin tx.rows THEN NoItem
                                   ELSE [id |-> st.rows[r].clock, cells |-> st.rows[r].cells]]
           e == [dev |-> id.dev, lam |-> id.lam, kind |-> "restaterows", ver |-> st.ver,
                 items |-> items]
           su == Authored(st, id, "restaterows", items)
           t == [tx EXCEPT !.st = su, !.rows = {}]
<1>1. /\ tx # NoTx /\ tx.kind \in {"compact", "readopt"} /\ IsNextLamport(st, n)
      /\ \A r \in tx.rows : Live(r)
      /\ tx' = t /\ store' = store /\ edits' = edits
  BY DEF CarryLive, Carrying
<1>2. /\ TxInv(tx) /\ TxOK(tx) /\ TxKept(tx) /\ WorkKept(store[d], tx)
      /\ StoreInv(st) /\ StoreOK(st) /\ d \in Device /\ tx.rows \subseteq Row
  BY <1>1 DEF IInv, PInv, KInv, TxInv, TxOK
<1>3. /\ Now[d] = st /\ World(Now, edits) /\ Kept(st, d)
      /\ tx.kind = "readopt" /\ Effective(st, d)
  BY <1>1, <1>2, SaneWorlds DEF KInv, World, TxKept
<1>4. n \in Nat /\ n <= MaxLamport /\ \A x \in st.accepted : x.lam < n
  BY <1>1, RowsAssumption DEF IsNextLamport
<1>5. ASSUME NEW r \in tx.rows
      PROVE  /\ r \in Row /\ st.rows[r].clock \in Clock /\ st.rows[r].clock # NoClock
             /\ st.rows[r].clock.lam < n
             /\ st.rows[r].cells \in Cells
             /\ [id |-> st.rows[r].clock, cells |-> st.rows[r].cells] \in st.seen[r]
  <2>1. st.rows[r].clock # NoClock /\ r \in Row
    BY <1>1, <1>2 DEF Live
  <2>2. st.rows[r].cells \in Cells /\ st.rows[r].pub = st.rows[r].cells
    BY <1>2, <1>3, <2>1 DEF TxOK, RowsChosen
  <2>3. st.rows[r].clock \in Clock
    BY <1>2, <2>1 DEF StoreOK, Typed, RowState
  <2>4. st.rows[r].clock.lam < n
    BY <1>2, <1>4, <2>1, SettledIsOlder
  <2>5. [id |-> st.rows[r].clock, cells |-> st.rows[r].pub] \in st.seen[r]
    BY <1>2, <2>1 DEF StoreOK, Published
  <2> QED BY <2>1, <2>2, <2>3, <2>4, <2>5
<1>6. \A r \in Row : items[r] = IF r \notin tx.rows THEN NoItem
                               ELSE [id |-> st.rows[r].clock, cells |-> st.rows[r].cells]
  OBVIOUS
<1>7. /\ e.items = items /\ e.dev = d /\ e.lam = n /\ e.kind = "restaterows"
      /\ e.ver = st.ver /\ id.lam = n /\ id.dev = d
  OBVIOUS
<1>8. items = [r \in Row |-> items[r]]
  OBVIOUS
<1>9. e = [dev |-> id.dev, lam |-> id.lam, kind |-> "restaterows", ver |-> st.ver,
           items |-> items]
  OBVIOUS
<1> HIDE DEF items, e, id
<1>10. Named(e) = tx.rows
  <2>1. \A r \in tx.rows : items[r] # NoItem
    <3> SUFFICES ASSUME NEW r \in tx.rows, items[r] = NoItem
                 PROVE  FALSE
      OBVIOUS
    <3>1. [id |-> st.rows[r].clock, cells |-> st.rows[r].cells] = NoItem
      BY <1>2, <1>6
    <3>2. st.rows[r].clock = NoClock
      BY <3>1 DEF NoItem
    <3> QED BY <1>5, <3>2
  <2> QED BY <1>2, <1>6, <1>7, <2>1 DEF Named
<1>11. ASSUME NEW r \in Named(e)
       PROVE  /\ e.items[r] = [id |-> st.rows[r].clock, cells |-> st.rows[r].cells]
              /\ e.items[r].id = st.rows[r].clock /\ e.items[r].cells = st.rows[r].cells
              /\ e.items[r] \in st.seen[r]
  <2>1. e.items[r] = [id |-> st.rows[r].clock, cells |-> st.rows[r].cells]
    BY <1>2, <1>6, <1>7, <1>10
  <2>2. e.items[r].id = st.rows[r].clock /\ e.items[r].cells = st.rows[r].cells
    BY <2>1
  <2> QED BY <1>5, <1>10, <2>1, <2>2
<1>12. Rewrites(e) /\ Restates(e) /\ e.kind # "restate" /\ e.kind # "upsert"
  BY <1>7 DEF Rewrites, Restates
<1>13. Fits(e)
  <2>1. e \in Entry
    <3>1. ASSUME NEW r \in Row
          PROVE  items[r] \in Statement \cup {NoItem}
      <4>1. CASE r \notin tx.rows
        BY <1>6, <4>1
      <4>2. CASE r \in tx.rows
        <5>1. items[r] = [id |-> st.rows[r].clock, cells |-> st.rows[r].cells]
          BY <1>6, <4>2
        <5> QED BY <1>5, <4>2, <5>1 DEF Statement
      <4> QED BY <4>1, <4>2
    <3>2. items \in [Row -> Statement \cup {NoItem}]
      BY <1>8, <3>1
    <3>3. st.ver \in 1..MaxVersion
      BY <1>2 DEF StoreOK, Typed
    <3> QED BY <1>2, <1>4, <1>7, <1>9, <3>2, <3>3 DEF Entry
  <2>2. Sound(e)
    BY <1>4, <1>7, <1>12 DEF Sound
  <2>3. EntryOK(e)
    BY <1>2, <1>4, <1>5, <1>7, <1>10, <1>11, <1>12 DEF EntryOK, Content
  <2> QED BY <2>1, <2>2, <2>3 DEF Fits
<1>14. ~StatesAhead(e)
  <2>1. \A r \in Named(e) : e.items[r].id.lam < n /\ e.items[r].id.lam \in Nat
    BY <1>5, <1>10, <1>11 DEF Clock
  <2> QED BY <1>4, <1>7, <2>1 DEF StatesAhead
<1>15. Settles(st, su, e, Named(e)) /\ su.work = st.work /\ e \notin Pending(su)
  BY <1>2, <1>4, <1>7, <1>9, <1>13, <1>14, AuthoredSettles DEF Fits
<1> HIDE DEF su
<1>16. /\ t.kind = "readopt" /\ t.dev = d /\ t.who = tx.who /\ t.st = su
       /\ t.rows = {} /\ t.replay = tx.replay /\ tx.replay = {}
  BY <1>2, <1>3 DEF TxInv, TxKept
<1> HIDE DEF t
<1>17. t # NoTx
  BY <1>16, KindIsTx
<1>18. ASSUME NEW r \in Row
       PROVE  /\ su.rows[r].cells = st.rows[r].cells /\ su.rows[r].pub = st.rows[r].pub
              /\ su.rows[r].clock = st.rows[r].clock
              /\ r \notin tx.rows => su.rows[r] = st.rows[r]
              /\ r \in tx.rows => su.rows[r].carriers[d] # -1 /\ su.rows[r].clock # NoClock
  <2>1. CASE r \notin tx.rows
    BY <1>10, <1>15, <2>1 DEF Settles
  <2>2. CASE r \in tx.rows
    <3>1. r \in Named(e) /\ e.items[r].id = st.rows[r].clock
      BY <1>10, <1>11, <2>2
    <3>2. /\ su.rows[r].cells = st.rows[r].cells /\ su.rows[r].pub = st.rows[r].pub
          /\ su.rows[r].clock = st.rows[r].clock /\ su.rows[r].clock # NoClock
          /\ su.rows[r].carriers[e.dev] # -1
      BY <1>2, <1>12, <1>13, <1>15, <3>1, RestatedRow
    <3> QED BY <1>7, <2>2, <3>2
  <2> QED BY <2>1, <2>2
<1>19. World(Now', edits)
  <2>1. ASSUME NEW r \in Named(e), NEW w \in Chain(st, d), Rewrites(w), r \in Named(w)
        PROVE  ~Beats(w.items[r].id, e.items[r].id)
    <3>1. w \in st.accepted /\ w \notin Pending(st) /\ Fits(w)
      BY <1>2, <1>3, AcceptedFits DEF Kept, OwnLog, Chain
    <3>2. w.items[r] \in st.seen[r]
      BY <1>3, <2>1, <3>1 DEF Kept, Remembered
    <3>3. w.items[r].cells # NoCells
      BY <2>1, <3>1, EntryStates, MergeAssumption
    <3>4. r \in Row /\ st.rows[r].clock # NoClock
      BY <1>5, <1>10
    <3> QED BY <1>2, <1>11, <3>2, <3>3, <3>4, LatestWrite
  <2>2. Replaces(Now', Now, d, su)
    BY <1>1, <1>16, <1>17, TxReplaces
  <2>3. \A c \in Device : Now[c].accepted \subseteq Now'[c].accepted
    BY <1>3, <1>15, <2>2 DEF Replaces, Settles
  <2>4. ASSUME NEW r \in Named(e)
        PROVE  \E o \in Now'[e.items[r].id.dev].accepted :
                  EntryId(o) = e.items[r].id /\ ~Restates(o) /\ o.items[r] = e.items[r]
    <3>0. r \in tx.rows /\ e.items[r].id = st.rows[r].clock
      BY <1>10, <1>11
    <3>1. r \in Row /\ e.items[r].id.dev \in Device
      BY <1>5, <3>0 DEF Clock
    <3>2. PICK x \in st.accepted : r \in Named(x) /\ x.items[r] = e.items[r]
      BY <1>3, <1>11, <3>1 DEF Kept, Remembered
    <3>3. Copied(Now, st, x)
      BY <1>2, <1>3 DEF World, Copies
    <3>4. \E o \in Now[x.items[r].id.dev].accepted :
             EntryId(o) = x.items[r].id /\ ~Restates(o) /\ o.items[r] = x.items[r]
      BY <3>2, <3>3 DEF Copied
    <3> QED BY <2>3, <3>1, <3>2, <3>4
  <2>5. \A x \in st.accepted : x.lam < e.lam
    BY <1>4, <1>7
  <2> QED BY <1>1, <1>3, <1>7, <1>11, <1>12, <1>13, <1>14, <1>15, <1>16, <1>17, <2>1, <2>4,
             <2>5, SignedWorld
<1>20. TxKept(t)
  <2>1. /\ Effective(su, d) /\ su.ver = st.ver
        /\ Removed(su, tx.who) <=> Removed(st, tx.who)
    BY <1>3, <1>15 DEF Settles, Effective, Removed
  <2>2. ASSUME Removed(st, tx.who), NEW x \in Candidates(su, tx.who, d)
        PROVE  Unrepairable(su, x)
    <3>1. x \in Row /\ x \notin tx.rows
      BY <1>18 DEF Candidates
    <3>2. su.rows[x] = st.rows[x]
      BY <1>18, <3>1
    <3>3. x \in Candidates(st, tx.who, d)
      BY <2>2, <3>1, <3>2 DEF Candidates
    <3>4. Unrepairable(st, x)
      BY <1>2, <1>3, <2>2, <3>1, <3>3 DEF TxKept
    <3>5. e \notin Pending(st)
      BY <1>2, <1>4, <1>7 DEF StoreOK, Typed, Pending
    <3>6. Pending(st) \subseteq Pending(su)
      BY <1>15, <3>5 DEF Settles
    <3> QED BY <2>1, <3>2, <3>4, <3>6 DEF Unrepairable, AsPublished, PendingAbove
  <2> QED BY <1>16, <2>1, <2>2 DEF TxKept
<1>21. WorkKept(store[d], t)
  BY <1>2, <1>16, <1>18 DEF WorkKept, Dirty, PublishedCells, Sealed
<1> QED BY <1>1, <1>16, <1>17, <1>19, <1>20, <1>21, TxStepKept

-----------------------------------------------------------------------------
(* Re-adoption *)

\* A row without unsent work is where its merge state says.
LEMMA SettledPresence ==
    ASSUME NEW st, StoreOK(st), NEW r \in Row, ~Dirty(st, r), st.rows[r].cells # Unreadable
    PROVE  /\ st.rows[r].cells = PublishedCells(st.rows[r])
           /\ (st.rows[r].cells = Absent) <=> (st.rows[r].clock = NoClock)
           /\ st.rows[r].clock # NoClock =>
                 /\ st.rows[r].cells \in Cells
                 /\ [id |-> st.rows[r].clock, cells |-> st.rows[r].cells] \in st.seen[r]
<1> DEFINE x == st.rows[r]
<1>1. x.cells = PublishedCells(x) /\ Published(x, st.seen[r])
  BY DEF Dirty, StoreOK
<1>2. CASE x.clock = NoClock
  BY <1>1, <1>2 DEF Published, PublishedCells
<1>3. CASE x.clock # NoClock
  <2>1. [id |-> x.clock, cells |-> x.pub] \in st.seen[r]
    BY <1>1, <1>3 DEF Published
  <2>2. [id |-> x.clock, cells |-> x.pub] \in Statement
    BY <2>1 DEF StoreOK, Typed
  <2>3. x.pub \in Cells \cup {NoCells} /\ x.pub \in Cells \cup {Unpublished}
    BY <2>2 DEF Statement, StoreOK, Typed, RowState
  <2>4. x.pub \in Cells
    BY <2>3 DEF NoCells, Unpublished
  <2>5. x.pub # Unpublished /\ x.pub # Absent
    BY <2>4, MergeAssumption
  <2>6. x.cells = x.pub
    BY <1>1, <2>5 DEF PublishedCells
  <2> QED BY <1>1, <1>3, <2>1, <2>4, <2>5, <2>6
<1> QED BY <1>2, <1>3

\* A step that leaves the transaction's log and rows alone.
LEMMA TxBooksKept ==
    ASSUME IInv, PInv, KInv, tx # NoTx, NEW t, tx' = t, t # NoTx, store' = store,
           edits' = edits, t.dev = tx.dev, Kept(t.st, tx.dev),
           t.st.accepted = tx.st.accepted, t.st.rows = tx.st.rows, t.replay = tx.replay,
           TxKept(t)
    PROVE  KInv'
<1>1. /\ Sane(Now) /\ World(Now, edits) /\ edits \in Nat /\ Now[tx.dev] = tx.st
      /\ tx.dev \in Device /\ WorkKept(store[tx.dev], tx)
  BY SaneWorlds DEF KInv
<1>2. Replaces(Now', Now, tx.dev, t.st)
  BY TxReplaces
<1>3. World(Now', edits)
  BY <1>1, <1>2, WorldBooks
<1>4. WorkKept(store[t.dev], t)
  BY <1>1 DEF WorkKept, Dirty, PublishedCells, Sealed
<1> QED BY <1>3, <1>4, TxStepKept

\* The pass turns to one removal.
LEMMA BeginReadoptKept ==
    ASSUME IInv, PInv, KInv, NEW x \in Device, BeginReadopt(x)
    PROVE  KInv'
<1> DEFINE st == tx.st
           d == tx.dev
           rows == IF Removed(st, x) THEN {r \in Candidates(st, x, d) : Adoptable(st, r)} ELSE {}
           t == [tx EXCEPT !.kind = "readopt", !.who = x, !.rows = rows]
<1>1. /\ tx # NoTx /\ tx.kind = "produce" /\ tx.rows = {} /\ tx.replay = {}
      /\ ~StreamPending(st) /\ tx' = t /\ store' = store /\ edits' = edits
  BY DEF BeginReadopt
<1>2. /\ TxInv(tx) /\ TxOK(tx) /\ TxKept(tx) /\ StoreOK(st) /\ d \in Device
      /\ World(Now, edits) /\ Now[d] = st
  BY <1>1, SaneWorlds DEF IInv, PInv, KInv, TxInv, TxOK
<1>3. Kept(st, d)
  BY <1>2 DEF World
<1>4. ASSUME Removed(st, x), NEW r \in Candidates(st, x, d), ~Unrepairable(st, r)
      PROVE  r \in rows
  <2>1. r \in Row /\ ~Dirty(st, r)
    BY <1>1, <1>2 DEF Candidates, TxOK, Settling
  <2>2. st.rows[r].cells # Unreadable
    BY <1>4 DEF Unrepairable
  <2>3. Adoptable(st, r)
    BY <1>2, <1>4, <2>1, <2>2, SettledPresence DEF Adoptable
  <2> QED BY <1>4, <2>3
<1> HIDE DEF rows
<1>5. /\ t.kind = "readopt" /\ t.dev = d /\ t.who = x /\ t.st = st
      /\ t.rows = rows /\ t.replay = {}
  BY <1>1, <1>2 DEF TxInv
<1> HIDE DEF t
<1>6. t # NoTx
  BY <1>5, KindIsTx
<1>7. TxKept(t)
  BY <1>1, <1>2, <1>4, <1>5 DEF TxKept
<1> QED BY <1>1, <1>3, <1>5, <1>6, <1>7, TxBooksKept

\* Whoever deleted a row is a writer.
LEMMA TombOfWriter ==
    ASSUME NEW st, StoreInv(st), StoreOK(st), Whole(st), Remembered(st), NEW r \in Row,
           st.rows[r].tomb # NoClock
    PROVE  \E w \in st.accepted : /\ ~Rewrites(w) /\ r \in Named(w) /\ w.dev \in Writers
                                  /\ EntryId(w) = st.rows[r].tomb
                                  /\ w.items[r].id = st.rows[r].tomb
<1>1. PICK y \in st.seen[r] : y.cells = NoCells /\ y.id = st.rows[r].tomb
  BY RowClocks DEF Latest, Deletes
<1>2. PICK w \in st.accepted : r \in Named(w) /\ w.items[r] = y
  BY DEF Remembered
<1>3. Fits(w) /\ w.kind # "restate" /\ w.dev \in Writers
  BY AcceptedFits DEF Whole
<1>4. ~Rewrites(w)
  BY <1>1, <1>2, <1>3, EntryStates, MergeAssumption
<1>5. w.items[r].id = EntryId(w)
  BY <1>2, <1>3, <1>4, DeleteNamesEntry
<1> QED BY <1>1, <1>2, <1>3, <1>4, <1>5

\* A removal is worked off: every row is looked after without it, because
\* the own chain carries what the removed writer left, or another does.
LEMMA AdoptedWithout ==
    ASSUME NEW W, Sane(W), Copies(W), NEW d \in Device, NEW st, st = W[d], Kept(st, d),
           Effective(st, d), NEW who,
           Removed(st, who) => Candidates(st, who, d) = {},
           NEW su, su.accepted = st.accepted, su.rows = st.rows, su.epoch = st.epoch,
           su.work = st.work \ {who}, NEW r \in Row
    PROVE  AdoptedRow(su, r)
<1> DEFINE x == st.rows[r]
<1>1. StoreInv(st) /\ StoreOK(st) /\ AdoptedRow(st, r) /\ Whole(st) /\ Remembered(st)
  BY DEF Sane, Kept
<1>2. \A c : c # who /\ InCharge(st, c) => InCharge(su, c)
  BY DEF InCharge, Effective, Removed
<1>3. \A c \in Writers : ~Removed(st, who) /\ InCharge(st, c) => InCharge(su, c)
  BY DEF InCharge, Effective, Removed
<1>4. InCharge(su, d)
  BY DEF InCharge, Effective, Removed
<1>5. \A w : Carries(st, r, w) <=> Carries(su, r, w)
  BY DEF Carries
<1>6. ASSUME x.clock # NoClock
      PROVE  \E e \in su.accepted : Carries(su, r, e) /\ InCharge(su, e.dev)
  <2>1. PICK w \in st.accepted : Carries(st, r, w) /\ InCharge(st, w.dev)
    BY <1>1, <1>6 DEF AdoptedRow
  <2>2. Fits(w) /\ w.lam \in Nat /\ w.dev \in Writers
    BY <1>1, EntryDevices DEF Whole
  <2>3. CASE w.dev # who \/ ~Removed(st, who)
    BY <1>2, <1>3, <1>5, <2>1, <2>2, <2>3
  <2>4. CASE w.dev = who /\ Removed(st, who)
    <3>1. \/ x.carriers[d] # -1
          \/ x.clock.dev # who /\ (x.carriers[who] = -1 \/ x.clock.dev = d)
      BY <1>6, <2>4 DEF Candidates
    <3>2. CASE x.carriers[d] # -1
      <4>1. PICK e \in Chain(st, d) :
               /\ Rewrites(e) /\ r \in Named(e) /\ e.items[r].id = x.clock
               /\ e.lam = x.carriers[d]
        BY <3>2 DEF Kept, OwnLog, OwnCarrier
      <4>2. e \in st.accepted /\ e.dev = d
        BY DEF Chain
      <4>3. Carries(st, r, e)
        BY <4>1, <4>2 DEF Carries
      <4> QED BY <1>4, <1>5, <4>2, <4>3
    <3>3. CASE x.clock.dev = d
      <4>1. r \in Named(w) /\ Rewrites(w) /\ w.items[r].id = x.clock
        BY <2>1 DEF Carries
      <4>2. Copied(W, st, w)
        BY DEF Copies
      <4>3. PICK o \in st.accepted :
               EntryId(o) = x.clock /\ ~Restates(o) /\ o.items[r] = w.items[r]
        BY <3>3, <4>1, <4>2 DEF Copied
      <4>4. r \in Named(o) /\ Fits(o) /\ o.dev = d
        BY <1>1, <3>3, <4>1, <4>3, AcceptedFits DEF Named, EntryId
      <4>5. w.items[r].cells \in Cells
        BY <2>2, <4>1, EntryStates
      <4>6. Rewrites(o)
        BY <4>3, <4>4, <4>5, EntryStates, MergeAssumption
      <4>7. Carries(st, r, o)
        BY <4>1, <4>3, <4>4, <4>6 DEF Carries
      <4> QED BY <1>4, <1>5, <4>4, <4>7
    <3>4. CASE x.clock.dev # who /\ x.carriers[who] = -1
      <4>1. EntryId(w) = x.clock \/ w.lam = x.carriers[w.dev]
        BY <2>1 DEF Carries
      <4>2. EntryId(w).dev = who
        BY <2>4 DEF EntryId
      <4> QED BY <2>2, <2>4, <3>4, <4>1, <4>2
    <3> QED BY <3>1, <3>2, <3>3, <3>4
  <2> QED BY <2>3, <2>4
<1>7. ASSUME x.clock = NoClock, x.tomb # NoClock
      PROVE  InCharge(su, x.tomb.dev)
  <2>1. InCharge(st, x.tomb.dev)
    BY <1>1, <1>7 DEF AdoptedRow
  <2>2. x.tomb.dev \in Writers
    <3>1. PICK w \in st.accepted : w.dev \in Writers /\ EntryId(w) = x.tomb
      BY <1>1, <1>7, TombOfWriter
    <3> QED BY <3>1 DEF EntryId
  <2>3. CASE x.tomb.dev # who \/ ~Removed(st, who)
    BY <1>2, <1>3, <2>1, <2>2, <2>3
  <2>4. CASE x.tomb.dev = who /\ Removed(st, who)
    <3>1. x.tombCarriers[d] # -1
      BY <1>7, <2>4 DEF Candidates
    <3>2. d = who
      BY <1>1, <2>4, <3>1 DEF AdoptedRow
    <3> QED BY <2>4, <3>2 DEF Effective
  <2> QED BY <2>3, <2>4
<1>8. \A c \in Device : su.rows[r].tombCarriers[c] # -1 => c = su.rows[r].tomb.dev
  BY <1>1 DEF AdoptedRow
<1> QED BY <1>6, <1>7, <1>8 DEF AdoptedRow

\* The pass is done with one removal.
LEMMA EndReadoptKept ==
    ASSUME IInv, PInv, KInv, EndReadopt
    PROVE  KInv'
<1> DEFINE st == tx.st
           d == tx.dev
           who == tx.who
           stuck == Removed(st, who) /\ \E r \in Candidates(st, who, d) : Unrepairable(st, r)
           su == [st EXCEPT !.work = @ \ {who}]
           t == IF stuck THEN [tx EXCEPT !.kind = "drained", !.who = d]
                ELSE [tx EXCEPT !.kind = "produce", !.who = d, !.st = su]
<1>1. /\ tx # NoTx /\ tx.kind = "readopt" /\ tx.rows = {}
      /\ store' = store /\ edits' = edits
  BY DEF EndReadopt
<1>2. /\ TxInv(tx) /\ TxOK(tx) /\ TxKept(tx) /\ StoreInv(st) /\ StoreOK(st) /\ d \in Device
      /\ Sane(Now) /\ World(Now, edits) /\ Now[d] = st
  BY <1>1, SaneWorlds DEF IInv, PInv, KInv, TxInv, TxOK
<1>3. Kept(st, d) /\ Copies(Now)
  BY <1>2 DEF World
<1>4. /\ Effective(st, d) /\ tx.replay = {}
      /\ Removed(st, who) => \A r \in Candidates(st, who, d) : Unrepairable(st, r)
  BY <1>1, <1>2 DEF TxKept
<1>5. tx' = t
  <2>1. [tx EXCEPT !.kind = "produce", !.who = tx.dev, !.st.work = @ \ {tx.who}]
          = [tx EXCEPT !.kind = "produce", !.who = d, !.st = su]
    BY <1>2 DEF TxInv
  <2> QED BY <2>1 DEF EndReadopt
<1>6. CASE stuck
  <2> DEFINE u == [tx EXCEPT !.kind = "drained", !.who = d]
  <2>0. t = u
    BY <1>6
  <2>1. /\ u.kind = "drained" /\ u.dev = d /\ u.st = st /\ u.rows = {} /\ u.replay = {}
    BY <1>1, <1>2, <1>4 DEF TxInv
  <2>2. tx' = u
    BY <1>5, <2>0
  <2> HIDE DEF u, t
  <2>3. u # NoTx
    BY <2>1, KindIsTx
  <2>4. TxKept(u)
    BY <1>4, <2>1 DEF TxKept
  <2> QED BY <1>1, <1>3, <1>4, <2>1, <2>2, <2>3, <2>4, TxBooksKept
<1>7. CASE ~stuck
  <2> DEFINE u == [tx EXCEPT !.kind = "produce", !.who = d, !.st = su]
  <2>0. t = u
    BY <1>7
  <2>1. /\ su.rows = st.rows /\ su.seen = st.seen /\ su.accepted = st.accepted
        /\ su.gap = st.gap /\ su.deferred = st.deferred /\ su.floor = st.floor
        /\ su.owed = st.owed /\ su.epoch = st.epoch /\ su.work = st.work \ {who}
    BY <1>2 DEF StoreInv, Shaped
  <2> HIDE DEF su
  <2>2. /\ u.kind = "produce" /\ u.dev = d /\ u.st = su /\ u.rows = {} /\ u.replay = {}
    BY <1>1, <1>2, <1>4 DEF TxInv
  <2>3. tx' = u
    BY <1>5, <2>0
  <2> HIDE DEF u, t
  <2>4. u # NoTx
    BY <2>2, KindIsTx
  <2>5. Removed(st, who) => Candidates(st, who, d) = {}
    BY <1>4, <1>7
  <2>6. \A r \in Row : AdoptedRow(su, r)
    BY <1>2, <1>3, <1>4, <2>1, <2>5, AdoptedWithout
  <2>7. Pending(su) = Pending(st) /\ \A c \in Device : su.owed[c] = -1
    BY <1>3, <2>1 DEF Pending, Kept, Whole
  <2>8. Kept(su, d)
    BY <1>3, <2>1, <2>6, <2>7, KeptBooks
  <2>9. Effective(su, d)
    BY <1>4, <2>1 DEF Effective, Removed
  <2>10. TxKept(u)
    BY <2>2, <2>9 DEF TxKept
  <2> QED BY <1>1, <1>4, <2>1, <2>2, <2>3, <2>4, <2>8, <2>10, TxBooksKept
<1> QED BY <1>6, <1>7

-----------------------------------------------------------------------------
(* The whole specification *)

\* A committed transaction's world becomes the committed one; an undone
\* transaction leaves the committed one as it was.
LEMMA EndKept ==
    ASSUME IInv, PInv, KInv, Commit \/ Abort
    PROVE  KInv'
<1>1. tx # NoTx /\ tx' = NoTx /\ edits' = edits
  BY DEF Commit, Abort
<1>2. CASE Commit
  <2>1. store' = Now
    BY <1>1, <1>2 DEF Commit, Now
  <2> QED BY <1>1, <2>1, StoreStepKept DEF KInv
<1>3. CASE Abort
  <2>1. store' = store
    BY <1>3 DEF Abort
  <2> QED BY <1>1, <2>1, StoreStepKept DEF KInv
<1> QED BY <1>2, <1>3

\* While everything is retained nothing is compacted, and a delete is carried
\* on by signing it again.
LEMMA NothingCompacted ==
    ASSUME KInv, Keep = 0
    PROVE  ~CompactChains /\ \A n : ~CarryDeletes(n)
<1>1. tx # NoTx => tx.kind # "compact"
  BY DEF KInv, TxKept
<1> QED BY <1>1 DEF CompactChains, CarryDeletes, Carrying, AtTail, Live

LEMMA InitKept == Init => KInv
<1> SUFFICES ASSUME Init
             PROVE  KInv
  OBVIOUS
<1>1. Now = store /\ tx = NoTx /\ edits = 0
  BY DEF Init, Now
<1>2. ASSUME NEW d \in Device
      PROVE  /\ store[d].accepted = {} /\ Pending(store[d]) = {}
             /\ \A c \in Device : store[d].floor[c] = -1 /\ store[d].owed[c] = -1
             /\ \A r \in Row : /\ store[d].seen[r] = {} /\ store[d].rows[r] = EmptyRow
  BY DEF Init, EmptyStore, Pending
<1>3. /\ EmptyRow.cells = Absent /\ EmptyRow.clock = NoClock /\ EmptyRow.tomb = NoClock
      /\ \A c \in Device : EmptyRow.carriers[c] = -1 /\ EmptyRow.tombCarriers[c] = -1
  BY DEF EmptyRow, NoCarriers
<1>4. ASSUME NEW d \in Device
      PROVE  Kept(store[d], d)
  <2>1. Whole(store[d]) /\ Remembered(store[d])
    BY <1>2 DEF Whole, Remembered
  <2>2. \A r \in Row : AdoptedRow(store[d], r)
    BY <1>2, <1>3 DEF AdoptedRow
  <2>3. OwnLog(store[d], d)
    BY <1>2, <1>3 DEF OwnLog, OwnCarrier, Chain
  <2> QED BY <2>1, <2>2, <2>3 DEF Kept
<1>5. Copies(store)
  BY <1>2 DEF Copies
<1>6. Counted(store, 0)
  <2>1. Upserts(store) = {}
    BY <1>2 DEF Upserts
  <2>2. Changed(store) = {}
    <3>1. ASSUME NEW d \in Device, NEW r \in Row
          PROVE  ~Unsigned(store[d].rows[r])
      BY <1>2, <1>3, MergeAssumption DEF Unsigned
    <3> QED BY <3>1 DEF Changed
  <2>3. IsFiniteSet({}) /\ Cardinality({}) = 0
    BY FS_EmptySet
  <2> QED BY <2>1, <2>2, <2>3 DEF Counted
<1>7. World(store, edits)
  BY <1>1, <1>4, <1>5, <1>6 DEF World
<1> QED BY <1>1, <1>7 DEF KInv

LEMMA NextKept ==
    ASSUME IInv, PInv, KInv, Keep = 0, [Next]_vars
    PROVE  KInv'
<1>1. CASE \E d, p \in Device : \E e \in store[p].accepted : Ingest(d, p, e)
  BY <1>1, IngestKept
<1>2. CASE \E d \in Device, r \in Row : \E c \in Holdable(store[d]) : Edit(d, r, c)
  BY <1>2, EditKept
<1>3. CASE \E d \in Device : BeginProduce(d)
  BY <1>3, BeginProduceKept
<1>4. CASE \E r \in Row, n \in 0..MaxLamport : AuthorRow(r, n) \/ CarryRow(r, n)
  BY <1>4, SignsRowKept
<1>5. CASE tx # NoTx /\ \E e \in tx.replay : ReplayNext(e)
  BY <1>5, ReplayKept
<1>6. CASE \E d \in Device : \E v \in 1..MaxVersion : Open(d, v)
  BY <1>6, OpenKept
<1>7. CASE Commit \/ Abort
  BY <1>7, EndKept
<1>8. CASE \E d \in Device, run \in SUBSET Row : BeginCompact(d, run)
  BY <1>8, BeginCompactNever
<1>9. CASE CompactChains \/ \E n \in 0..MaxLamport : CarryDeletes(n)
  BY <1>9, NothingCompacted
<1>10. CASE \E n \in 0..MaxLamport : CarryLive(n)
  BY <1>10, CarryLiveKept
<1>11. CASE \E d, x \in Device : Fold(d, x)
  BY <1>11, FoldKept
<1>12. CASE \E x \in Device : BeginReadopt(x)
  BY <1>12, BeginReadoptKept
<1>13. CASE EndReadopt
  BY <1>13, EndReadoptKept
<1>14. CASE UNCHANGED vars
  <2>1. store' = store /\ tx' = tx /\ edits' = edits
    BY <1>14 DEF vars
  <2>2. Now' = Now
    BY <2>1 DEF Now
  <2> QED BY <2>1, <2>2 DEF KInv
<1> QED BY <1>1, <1>2, <1>3, <1>4, <1>5, <1>6, <1>7, <1>8, <1>9, <1>10, <1>11, <1>12, <1>13,
           <1>14 DEF Next

\* While a scope retains everything, every row that has a write or a delete
\* is carried by the chain of a writer or of one whose removal is still to be
\* worked off, every entry is its signer's, and every upsert is a raw write's.
THEOREM RowsAreAdopted == Keep = 0 => (Spec => []KInv)
<1> SUFFICES ASSUME Keep = 0
             PROVE  Spec => []KInv
  OBVIOUS
<1>1. Init => KInv
  BY InitKept
<1>2. IInv /\ PInv /\ KInv /\ [Next]_vars => KInv'
  BY NextKept
<1> QED BY <1>1, <1>2, RowInvariance, NamesAreUnique, PTL DEF Spec

-----------------------------------------------------------------------------
(* Nobody signs a write nobody made *)

\* Nobody signs a write nobody made: while everything is retained, the logs of
\* all stores together hold no more upserts than raw writes were made, however
\* rows were received, upgraded or left behind by a removed writer
\* (produce_row_ops, row_repair_op).
THEOREM NoWriteUnmade == Keep = 0 => (Spec => []WritesAreEdits)
<1> SUFFICES ASSUME Keep = 0
             PROVE  Spec => []WritesAreEdits
  OBVIOUS
<1>1. IInv /\ PInv /\ KInv => WritesAreEdits
  <2> SUFFICES ASSUME IInv, PInv, KInv
               PROVE  WritesAreEdits
    OBVIOUS
  <2> DEFINE S == {e \in UNION {st.accepted : st \in States} : e.kind = "upsert"}
             U == Upserts(Now)
             C == Changed(Now)
  <2>1. /\ IsFiniteSet(U) /\ IsFiniteSet(C) /\ Cardinality(U) + Cardinality(C) <= edits
        /\ edits \in Nat
    BY SaneWorlds DEF KInv, World, Counted
  <2>2. S \subseteq U
    <3> SUFFICES ASSUME NEW st \in States, NEW e \in st.accepted
                 PROVE  \E d \in Device : e \in Now[d].accepted
      BY DEF Upserts
    <3>1. CASE tx # NoTx /\ st = tx.st
      BY <3>1, SaneWorlds
    <3>2. CASE \E d \in Device : st = store[d]
      <4>1. PICK d \in Device : st = store[d]
        BY <3>2
      <4>2. CASE tx = NoTx
        BY <4>1, <4>2, SaneWorlds
      <4>3. CASE tx # NoTx
        <5>1. store[d].accepted \subseteq Now[d].accepted
          BY <4>3, SaneWorlds DEF Replaces, PInv, Owned
        <5> QED BY <4>1, <5>1
      <4> QED BY <4>2, <4>3
    <3> QED BY <3>1, <3>2, StatesAre
  <2> HIDE DEF S, U, C
  <2>3. /\ IsFiniteSet(S) /\ Cardinality(S) <= Cardinality(U)
        /\ Cardinality(S) \in Nat /\ Cardinality(U) \in Nat /\ Cardinality(C) \in Nat
    BY <2>1, <2>2, FS_Subset, FS_CardinalityType
  <2>4. Cardinality(S) <= edits
    BY <2>1, <2>3
  <2> QED BY <2>4 DEF WritesAreEdits, S
<1> QED BY <1>1, RowInvariance, NamesAreUnique, RowsAreAdopted, PTL

-----------------------------------------------------------------------------
(* Stores that have received everything agree *)

\* In a store with no removal to work off, only writers are looked after.
LEMMA SyncedCharge ==
    ASSUME NEW d \in Device, Synced(d), NEW c, InCharge(store[d], c)
    PROVE  Effective(store[d], c)
  BY DEF Synced, InCharge

\* What one of them holds of a writer's chain, the other one has, and has
\* settled.
LEMMA SyncedHas ==
    ASSUME IInv, PInv, KInv, NEW d \in Device, NEW c \in Device, Synced(d), Synced(c),
           store[d].epoch = store[c].epoch, NEW e \in store[d].accepted,
           Effective(store[d], e.dev)
    PROVE  /\ e \in store[c].accepted /\ Effective(store[c], e.dev)
           /\ \A r \in Named(e) : e.items[r] \in store[c].seen[r]
<1> DEFINE w == e.dev
<1>1. Sane(store) /\ World(store, edits)
  BY SaneWorlds DEF KInv
<1>2. /\ w \in Writers /\ w \in Device /\ e.lam \in Nat /\ Effective(store[c], w)
  BY <1>1, EntryDevices DEF Sane, Effective, Removed
<1>3. Tip(store[c], w) = Tip(store[w], w)
  BY <1>2 DEF Synced
<1>4. e \in Chain(store[w], w)
  BY <1>1 DEF World, Copies, Copied, Chain
<1>5. e.lam <= Tip(store[c], w) /\ Tip(store[c], w) \in Int
  BY <1>1, <1>2, <1>3, <1>4, TipIsNewest DEF Sane
<1>6. PICK x \in Chain(store[c], w) : x.lam = Tip(store[c], w)
  BY <1>1, <1>2, <1>5, TipIsNewest DEF Sane
<1>7. x \in store[c].accepted /\ x.dev = w
  BY DEF Chain
<1>8. Copied(store, store[c], x)
  BY <1>1, <1>7 DEF World, Copies
<1>9. e \in store[c].accepted
  BY <1>4, <1>5, <1>6, <1>7, <1>8 DEF Copied
<1>10. Pending(store[c]) = {} /\ Remembered(store[c])
  BY <1>1 DEF Synced, World, Kept
<1> QED BY <1>2, <1>9, <1>10 DEF Remembered

\* A write that one of them holds is held, or beaten by a newer one, by the
\* other.
LEMMA SyncedWrite ==
    ASSUME IInv, PInv, KInv, NEW d \in Device, NEW c \in Device, Synced(d), Synced(c),
           store[d].epoch = store[c].epoch, NEW r \in Row, store[d].rows[r].clock # NoClock
    PROVE  /\ store[c].rows[r].clock # NoClock
           /\ ~Beats(store[d].rows[r].clock, store[c].rows[r].clock)
<1> DEFINE a == store[d]
           b == store[c]
           x == a.rows[r]
           y == b.rows[r]
<1>1. /\ StoreInv(a) /\ StoreOK(a) /\ StoreInv(b) /\ StoreOK(b)
      /\ Kept(a, d) /\ Kept(b, c)
  BY SaneWorlds DEF KInv, Sane, World
<1>2. PICK e \in a.accepted : Carries(a, r, e) /\ InCharge(a, e.dev)
  BY <1>1 DEF Kept, AdoptedRow
<1>3. r \in Named(e) /\ e.items[r].id = x.clock /\ Rewrites(e) /\ Effective(a, e.dev)
  BY <1>2, SyncedCharge DEF Carries
<1>4. e.items[r] \in b.seen[r]
  BY <1>3, SyncedHas
<1>5. e.items[r].cells # NoCells
  BY <1>1, <1>3, AcceptedFits, EntryStates, MergeAssumption
<1>6. /\ x.clock \in Clk /\ x.tomb \in Clk /\ y.clock \in Clk /\ y.tomb \in Clk
      /\ Beats(x.clock, x.tomb) /\ Latest(x, a.seen[r]) /\ Latest(y, b.seen[r])
  BY <1>1, RowClocks
<1>7. y.clock # NoClock
  <2> SUFFICES ASSUME y.clock = NoClock
               PROVE  FALSE
    OBVIOUS
  <2>1. Beats(x.clock, NoClock)
    BY <1>6, BeatsOrder
  <2>2. ~Beats(x.clock, y.tomb)
    BY <1>3, <1>4, <1>5, <1>6, <2>1 DEF Latest, Writes
  <2>3. y.tomb # NoClock
    BY <2>1, <2>2
  <2>4. PICK w \in b.accepted : /\ ~Rewrites(w) /\ r \in Named(w)
                                /\ EntryId(w) = y.tomb /\ w.items[r].id = y.tomb
    BY <1>1, <2>3, TombOfWriter DEF Kept
  <2>5. InCharge(b, w.dev)
    <3>1. InCharge(b, y.tomb.dev)
      BY <1>1, <2>3 DEF Kept, AdoptedRow
    <3> QED BY <2>4, <3>1 DEF EntryId
  <2>6. w.items[r] \in a.seen[r]
    BY <2>4, <2>5, SyncedCharge, SyncedHas
  <2>7. w.items[r].cells = NoCells
    BY <1>1, <2>4, AcceptedFits, EntryStates
  <2>8. ~Beats(y.tomb, x.tomb)
    BY <1>6, <2>4, <2>6, <2>7 DEF Latest, Deletes
  <2> QED BY <1>6, <2>2, <2>8, BeatsOrder
<1>8. ~Beats(x.clock, y.clock)
  BY <1>1, <1>3, <1>4, <1>5, <1>7, LatestWrite
<1> QED BY <1>7, <1>8

\* Order independence across stores: while everything is retained, stores
\* that have received everything agree on every row, however their entries
\* arrived, were deferred, replayed, or carried on for removed writers
\* (settle_row, settle_delete, process_readoption_work_for_stream).
THEOREM RetainedConverges == Keep = 0 => (Spec => []Converged)
<1> SUFFICES ASSUME Keep = 0
             PROVE  Spec => []Converged
  OBVIOUS
<1>1. IInv /\ PInv /\ KInv => Converged
  <2> SUFFICES ASSUME IInv, PInv, KInv, NEW d \in Device, NEW c \in Device,
                      Synced(d), Synced(c), store[d].epoch = store[c].epoch, NEW r \in Row
               PROVE  store[d].rows[r].cells = store[c].rows[r].cells
    BY DEF Converged
  <2> DEFINE a == store[d]
             b == store[c]
             x == a.rows[r]
             y == b.rows[r]
  <2>1. StoreInv(a) /\ StoreOK(a) /\ StoreInv(b) /\ StoreOK(b)
    BY SaneWorlds DEF Sane
  <2>2. /\ x.clock # NoClock => y.clock # NoClock /\ ~Beats(x.clock, y.clock)
        /\ y.clock # NoClock => x.clock # NoClock /\ ~Beats(y.clock, x.clock)
    BY SyncedWrite
  <2>3. /\ x.cells # Unreadable /\ ~Dirty(a, r) /\ y.cells # Unreadable /\ ~Dirty(b, r)
    BY DEF Synced
  <2>4. CASE x.clock = NoClock
    <3>1. x.cells = Absent
      BY <2>1, <2>3, <2>4, SettledPresence
    <3>2. y.cells = Absent
      BY <2>1, <2>2, <2>3, <2>4, SettledPresence
    <3> QED BY <3>1, <3>2
  <2>5. CASE x.clock # NoClock
    <3>1. x.clock = y.clock
      BY <2>1, <2>2, <2>5, RowClocks, BeatsOrder
    <3>2. x.cells \in Cells /\ [id |-> x.clock, cells |-> x.cells] \in a.seen[r]
      BY <2>1, <2>3, <2>5, SettledPresence
    <3>3. y.cells \in Cells /\ [id |-> y.clock, cells |-> y.cells] \in b.seen[r]
      BY <2>1, <2>2, <2>3, <2>5, SettledPresence
    <3>4. /\ [id |-> x.clock, cells |-> x.cells] \in Claims(a, r)
          /\ [id |-> y.clock, cells |-> y.cells] \in Claims(b, r)
      BY <3>2, <3>3, MergeAssumption DEF Claims
    <3>5. a \in States /\ b \in States
      BY StatesAre
    <3> QED BY <3>1, <3>4, <3>5 DEF PInv, Agreed
  <2> QED BY <2>4, <2>5
<1> QED BY <1>1, RowInvariance, NamesAreUnique, RowsAreAdopted, PTL

-----------------------------------------------------------------------------
(* A peer that starts from a store ends with its rows *)

\* What a synced store serves is what its writers' entries state, and it has
\* settled all of it.
LEMMA ServedIsSettled ==
    ASSUME IInv, PInv, KInv, NEW d \in Device, Synced(d), NEW r \in Row
    PROVE  /\ \A s \in ServedStatements(store[d], r) : s \in store[d].seen[r]
           /\ \A e \in store[d].accepted : r \in Named(e) /\ Effective(store[d], e.dev) =>
                 e.items[r] \in ServedStatements(store[d], r)
<1> DEFINE a == store[d]
<1>1. StoreInv(a) /\ StoreOK(a) /\ Kept(a, d)
  BY SaneWorlds DEF KInv, Sane, World
<1>2. Pending(a) = {} /\ Remembered(a) /\ \A c \in Device : a.floor[c] = -1
  BY <1>1 DEF Synced, Kept, Whole
<1>3. \A e \in a.accepted : e.lam \in Nat /\ e.dev \in Device
  BY <1>1, EntryDevices
<1>4. \A e \in a.accepted : Effective(a, e.dev) => e \in Served(a)
  BY <1>2, <1>3 DEF Served
<1> QED BY <1>2, <1>4 DEF ServedStatements, Served, Remembered

\* While everything is retained, a peer that receives all that a synced store
\* serves ends with that store's rows, although it refuses what removed
\* writers signed: re-adoption left no row with them alone, and no delete.
THEOREM RetainedIsComplete == Keep = 0 => (Spec => []FreshPeerComplete)
<1> SUFFICES ASSUME Keep = 0
             PROVE  Spec => []FreshPeerComplete
  OBVIOUS
<1>1. IInv /\ PInv /\ KInv => FreshPeerComplete
  <2> SUFFICES ASSUME IInv, PInv, KInv, NEW d \in Device, Synced(d), NEW r \in Row
               PROVE  LET served == ServedStatements(store[d], r)
                          live == {w \in Writes(served) :
                                     /\ IsLatest(w, Writes(served))
                                     /\ \A x \in Deletes(served) : Beats(w.id, x.id)}
                      IN  IF store[d].rows[r].cells = Absent THEN live = {}
                          ELSE \E w \in live : w.cells = store[d].rows[r].cells
    BY DEF FreshPeerComplete
  <2> DEFINE a == store[d]
             y == a.rows[r]
             served == ServedStatements(a, r)
             live == {w \in Writes(served) :
                        /\ IsLatest(w, Writes(served))
                        /\ \A x \in Deletes(served) : Beats(w.id, x.id)}
  <2>1. StoreInv(a) /\ StoreOK(a) /\ Kept(a, d) /\ OneName(a)
    BY SaneWorlds, OneNameHolds, StatesAre DEF KInv, Sane, World, PInv
  <2>2. /\ y.clock \in Clk /\ y.tomb \in Clk /\ Latest(y, a.seen[r])
        /\ y.clock # NoClock => Beats(y.clock, y.tomb)
        /\ \A s \in a.seen[r] : s.id \in Clk /\ s.id # NoClock
    BY <2>1, RowClocks DEF Clock, NoClock
  <2>3. /\ y.cells = Absent <=> y.clock = NoClock
        /\ y.clock # NoClock =>
              y.cells \in Cells /\ [id |-> y.clock, cells |-> y.cells] \in a.seen[r]
    BY <2>1, SettledPresence DEF Synced
  <2>4. /\ \A s \in served : s \in a.seen[r]
        /\ \A e \in a.accepted : r \in Named(e) /\ Effective(a, e.dev) => e.items[r] \in served
    BY ServedIsSettled
  <2> HIDE DEF served
  <2>5. ASSUME y.clock = NoClock, NEW w \in live
        PROVE  FALSE
    <3>1. w \in a.seen[r] /\ w.cells # NoCells
      BY <2>4 DEF Writes
    <3>2. Beats(w.id, NoClock)
      BY <2>2, <3>1, BeatsOrder
    <3>3. ~Beats(w.id, y.tomb)
      BY <2>2, <2>5, <3>1, <3>2 DEF Latest, Writes
    <3>4. y.tomb # NoClock
      BY <3>2, <3>3
    <3>5. PICK v \in a.accepted : /\ ~Rewrites(v) /\ r \in Named(v)
                                  /\ EntryId(v) = y.tomb /\ v.items[r].id = y.tomb
      BY <2>1, <3>4, TombOfWriter DEF Kept
    <3>6. Effective(a, v.dev)
      <4>1. InCharge(a, y.tomb.dev)
        BY <2>1, <2>5, <3>4 DEF Kept, AdoptedRow
      <4>2. v.dev = y.tomb.dev
        BY <3>5 DEF EntryId
      <4> QED BY <4>1, <4>2, SyncedCharge
    <3>7. v.items[r].cells = NoCells
      BY <2>1, <3>5, AcceptedFits, EntryStates
    <3>8. v.items[r] \in Deletes(served)
      BY <2>4, <3>5, <3>6, <3>7 DEF Deletes
    <3> QED BY <3>3, <3>5, <3>8
  <2>6. ASSUME y.clock # NoClock
        PROVE  \E w \in live : w.cells = y.cells
    <3>1. PICK e \in a.accepted : Carries(a, r, e) /\ InCharge(a, e.dev)
      BY <2>1, <2>6 DEF Kept, AdoptedRow
    <3> DEFINE s == e.items[r]
    <3>2. r \in Named(e) /\ s.id = y.clock /\ Rewrites(e) /\ Effective(a, e.dev)
      BY <3>1, SyncedCharge DEF Carries
    <3>3. s \in served /\ s.cells # NoCells
      BY <2>1, <2>4, <3>2, AcceptedFits, EntryStates, MergeAssumption
    <3>4. s.cells = y.cells
      <4>1. [id |-> y.clock, cells |-> y.cells] \in Claims(a, r)
        BY <2>3, <2>6, MergeAssumption DEF Claims
      <4>2. s \in Claims(a, r)
        BY <2>4, <3>3 DEF Claims
      <4> QED BY <2>1, <3>2, <4>1, <4>2 DEF OneName
    <3>5. IsLatest(s, Writes(served))
      <4> SUFFICES ASSUME NEW x \in Writes(served)
                   PROVE  x.id = s.id \/ Beats(s.id, x.id)
        BY DEF IsLatest
      <4>1. x \in a.seen[r] /\ x.cells # NoCells
        BY <2>4 DEF Writes
      <4>2. ~Beats(x.id, y.clock)
        BY <2>1, <2>6, <4>1, LatestWrite
      <4> QED BY <2>2, <3>2, <4>1, <4>2, BeatsOrder
    <3>6. ASSUME NEW x \in Deletes(served)
          PROVE  Beats(s.id, x.id)
      <4>1. x \in a.seen[r] /\ x.cells = NoCells
        BY <2>4 DEF Deletes
      <4>2. ~Beats(x.id, y.tomb)
        BY <2>2, <4>1 DEF Latest, Deletes
      <4> QED BY <2>2, <2>6, <3>2, <4>1, <4>2, BeatsOrder
    <3>7. s \in live
      BY <3>3, <3>5, <3>6 DEF Writes
    <3> QED BY <3>4, <3>7
  <2> HIDE DEF live
  <2> QED BY <2>3, <2>5, <2>6 DEF live, served
<1> QED BY <1>1, RowInvariance, NamesAreUnique, RowsAreAdopted, PTL

-----------------------------------------------------------------------------
(* No row with unsent local work is overwritten *)

\* A received entry leaves it alone.
LEMMA IngestSparesWork ==
    ASSUME IInv, PInv, KInv, NEW d \in Device, NEW p \in Device, NEW e \in store[p].accepted,
           Ingest(d, p, e), NEW c \in Writers, NEW r \in Row, Dirty(store[c], r)
    PROVE  store'[c].rows[r].cells = store[c].rows[r].cells
<1> DEFINE st == store[d]
           base == Rooted(st, e, store[p])
           su == Evaluated(base, e, d, TRUE)
<1>1. /\ store' = [store EXCEPT ![d] = su] /\ c \in Device
  BY RowsAssumption DEF Ingest
<1>2. CASE c # d
  BY <1>1, <1>2 DEF IInv
<1>3. CASE c = d
  <2>1. /\ StoreInv(st) /\ StoreOK(st) /\ StoreInv(store[p]) /\ StoreOK(store[p])
        /\ Kept(st, d) /\ Kept(store[p], p)
    BY SaneWorlds DEF KInv, Sane, World
  <2>2. /\ StoreInv(base) /\ StoreOK(base) /\ base.accepted = st.accepted \cup {e}
        /\ base.rows = st.rows
        /\ \A x \in Row : Claims(base, x) \subseteq Claims(st, x) \cup Claims(store[p], x)
    BY <2>1, RootedOK
  <2>3. base.work = st.work /\ base.epoch = st.epoch
    BY <2>1 DEF Rooted, StoreInv, Shaped
  <2> HIDE DEF base
  <2>4. OneName(base)
    <3>1. st \in States /\ store[p] \in States
      BY StatesAre
    <3> QED BY <2>2, <3>1 DEF OneName, PInv, Agreed
  <2>5. AdoptedRow(base, r)
    <3>1. \A w : Carries(st, r, w) => Carries(base, r, w)
      BY <2>2 DEF Carries
    <3>2. \A b : InCharge(st, b) => InCharge(base, b)
      BY <2>3 DEF InCharge, Effective, Removed
    <3> QED BY <2>1, <2>2, <3>1, <3>2 DEF Kept, AdoptedRow
  <2>6. e \in base.accepted /\ ~StatesAhead(e) /\ e.kind # "restate" /\ Dirty(base, r)
    BY <1>3, <2>1, <2>2 DEF Kept, Whole, Dirty
  <2>7. su.rows[r].cells = base.rows[r].cells
    <3>1. d \in Writers /\ StoreInv(base) /\ StoreOK(base)
      BY <1>3, <2>2
    <3>2. \A live \in BOOLEAN : Evaluated(base, e, d, live).rows[r].cells = base.rows[r].cells
      BY <2>4, <2>5, <2>6, <3>1, DirtyUntouched
    <3> QED BY <3>2
  <2>8. store'[c] = su
    BY <1>1, <1>3 DEF IInv
  <2> QED BY <1>3, <2>2, <2>7, <2>8
<1> QED BY <1>2, <1>3

\* Only the local program changes a row that holds unsent local work: while
\* everything is retained, no received entry, replay or upgrade overwrites
\* it, and authoring publishes it as it stands (pre_apply,
\* unsent_work_on_row, produce_and_author).
THEOREM UnsentWorkKept == Keep = 0 => (Spec => LocalWorkKept)
<1> SUFFICES ASSUME Keep = 0
             PROVE  Spec => LocalWorkKept
  OBVIOUS
<1> DEFINE Spared == \A d \in Writers, r \in Row :
                        \/ ~Dirty(store[d], r)
                        \/ store'[d].rows[r].cells = store[d].rows[r].cells
                        \/ \E c \in Cells \cup {Absent, Unreadable} : Edit(d, r, c)
<1>1. IInv /\ PInv /\ KInv /\ [Next]_vars => [Spared]_vars
  <2> SUFFICES ASSUME IInv, PInv, KInv, Next, NEW d \in Writers, NEW r \in Row,
                      Dirty(store[d], r), store'[d].rows[r].cells # store[d].rows[r].cells
               PROVE  \E c \in Cells \cup {Absent, Unreadable} : Edit(d, r, c)
    OBVIOUS
  <2>1. d \in Device /\ store'[d].rows # store[d].rows
    BY RowsAssumption
  <2>2. CASE store' = store
    BY <2>1, <2>2
  <2>3. CASE \E b, p \in Device : \E e \in store[p].accepted : Ingest(b, p, e)
    BY <2>3, IngestSparesWork
  <2>4. CASE \E b \in Device, x \in Row : \E c \in Holdable(store[b]) : Edit(b, x, c)
    <3>1. PICK b \in Device, x \in Row : \E c \in Holdable(store[b]) : Edit(b, x, c)
      BY <2>4
    <3>2. PICK c \in Holdable(store[b]) : Edit(b, x, c)
      BY <3>1
    <3>3. store' = [store EXCEPT ![b].rows[x].cells = c]
      BY <3>2 DEF Edit
    <3>4. b = d
      BY <2>1, <3>3 DEF IInv
    <3>5. x = r
      <4>1. store[d] = [store[d] EXCEPT !.rows = store[d].rows]
            /\ StoreInv(store[d]) /\ store[d].rows \in [Row -> RowState]
        BY <2>1 DEF IInv, PInv, StoreOK, Typed, StoreInv, Shaped
      <4>2. store'[d] = [store[d] EXCEPT !.rows[x].cells = c]
        BY <2>1, <3>3, <3>4 DEF IInv
      <4>3. store'[d].rows = [store[d].rows EXCEPT ![x].cells = c]
        BY <4>1, <4>2 DEF StoreInv, Shaped
      <4> QED BY <4>1, <4>3
    <3>6. c \in Cells \cup {Absent, Unreadable}
      BY RowsAssumption DEF Holdable
    <3> QED BY <3>2, <3>4, <3>5, <3>6
  <2>5. CASE Commit
    <3>1. tx # NoTx /\ store' = [store EXCEPT ![tx.dev] = tx.st]
      BY <2>5 DEF Commit
    <3>2. tx.dev = d
      BY <2>1, <3>1 DEF IInv
    <3>3. store'[d] = tx.st
      BY <2>1, <3>1, <3>2 DEF IInv
    <3>4. WorkKept(store[d], tx)
      BY <3>1, <3>2 DEF KInv
    <3> QED BY <3>2, <3>3, <3>4 DEF WorkKept
  <2>6. CASE \E b, x \in Device : Fold(b, x)
    <3>1. PICK b \in Device, x \in Device : Fold(b, x)
      BY <2>6
    <3>2. store' = [store EXCEPT ![b] = Folded(store[b], x)]
      BY <3>1 DEF Fold
    <3>3. Folded(store[b], x).rows = store[b].rows
      BY DEF Folded, IInv, StoreInv, Shaped
    <3> QED BY <2>1, <3>2, <3>3 DEF IInv
  <2>7. CASE CompactChains
    BY <2>7, NothingCompacted
  <2> QED
    BY <2>2, <2>3, <2>4, <2>5, <2>6, <2>7
    DEF Next, BeginProduce, AuthorRow, SignsRow, ReplayNext, Open, Abort, BeginCompact,
        CarryRow, CarryDeletes, CarryLive, BeginReadopt, EndReadopt
<1> QED BY <1>1, RowInvariance, NamesAreUnique, RowsAreAdopted, PTL DEF Spec, LocalWorkKept
=============================================================================
