--------------------------- MODULE TableRowsProofs --------------------------
(***************************************************************************)
(* That the merge state of every row is the latest of what was settled on  *)
(* it, for every number of devices, rows, contents, versions and for every *)
(* retention budget.                                                       *)
(*                                                                         *)
(* The argument is local to one row: settle_row and settle_delete keep     *)
(* RowInv, the relation between a row's state and the history of what was  *)
(* settled on it.  Everything else a step does to a store either settles   *)
(* entries (Projected) or leaves clocks, tombstones and history alone.     *)
(***************************************************************************)
EXTENDS TableRows, TLAPS

Clk == Clock \cup {NoClock}

Content == Cells \cup {Absent, Unreadable}

Said == [id : Clock, cells : Content \cup {NoCells}]

RowType ==
    [cells : Content, clock : Clk, carriers : [Device -> Int], tomb : Clk,
     tombCarriers : [Device -> Int], pub : Content \cup {Unpublished}, pubVer : Int]

\* The tombstone is the latest delete in `seen`, the clock the latest write
\* if that is newer than the tombstone.
Latest(x, seen) ==
    /\ \A y \in Deletes(seen) : ~Beats(y.id, x.tomb)
    /\ x.tomb # NoClock => \E y \in Deletes(seen) : y.id = x.tomb
    /\ \A y \in Writes(seen) : ~Beats(y.id, x.clock) \/ ~Beats(y.id, x.tomb)
    /\ x.clock # NoClock => \E y \in Writes(seen) : y.id = x.clock

RowInv(x, seen) ==
    /\ x \in RowType
    /\ seen \subseteq Said
    /\ x.clock # NoClock => Beats(x.clock, x.tomb)
    /\ Latest(x, seen)

-----------------------------------------------------------------------------
(* One row *)

\* A clock's parts are integers.
LEMMA ClkParts ==
    ASSUME NEW x \in Clk
    PROVE  x.lam \in Int /\ x.dev \in Int
<1>1. CASE x \in Clock
  <2>1. x.lam \in Nat /\ x.dev \in Device
    BY <1>1 DEF Clock
  <2>2. Device \subseteq Nat
    BY Zenon, MergeAssumption
  <2>3. x.dev \in Nat
    BY <2>1, <2>2
  <2> QED BY <2>1, <2>3
<1>2. CASE x = NoClock
  BY <1>2 DEF NoClock
<1> QED BY <1>1, <1>2 DEF Clk

\* RowClock::beats is a strict total order, with a missing clock at the bottom.
LEMMA BeatsOrder ==
    ASSUME NEW x \in Clk, NEW y \in Clk, NEW z \in Clk
    PROVE  /\ ~Beats(x, x)
           /\ Beats(x, y) /\ Beats(y, z) => Beats(x, z)
           /\ x = y \/ Beats(x, y) \/ Beats(y, x)
           /\ x # NoClock => Beats(x, NoClock)
           /\ ~Beats(NoClock, x)
<1>1. /\ x.lam \in Int /\ y.lam \in Int /\ z.lam \in Int
      /\ x.dev \in Int /\ y.dev \in Int /\ z.dev \in Int
  BY ClkParts
<1>2. /\ ~Beats(x, x)
      /\ Beats(x, y) /\ Beats(y, z) => Beats(x, z)
  BY <1>1 DEF Beats
<1>3. x.lam = y.lam /\ x.dev = y.dev => x = y
  BY MergeAssumption DEF Clk, Clock, NoClock
<1>4. x = y \/ Beats(x, y) \/ Beats(y, x)
  BY <1>1, <1>3 DEF Beats
<1>5. x # NoClock => Beats(x, NoClock)
  BY MergeAssumption DEF Clk, Clock, NoClock, Beats
<1>6. ~Beats(NoClock, x)
  BY MergeAssumption DEF Clk, Clock, NoClock, Beats
<1> QED BY <1>2, <1>4, <1>5, <1>6

\* A statement of a chain keeps the carriers typed (state_row).
LEMMA CarriersTyped ==
    ASSUME NEW c \in [Device -> Int], NEW signer \in Clock
    PROVE  Stated(c, signer) \in [Device -> Int] /\ OnlyCarrier(signer) \in [Device -> Int]
  BY DEF Stated, OnlyCarrier, NoCarriers, Clock

\* What raise_tombstone does: the newer of the two stays, nothing else moves.
LEMMA RaiseTombstoneEffect ==
    ASSUME NEW x \in RowType, NEW id \in Clock, NEW signer \in Clock
    PROVE  LET y == RaiseTombstone(x, id, signer) IN
           /\ y \in RowType
           /\ y.clock = x.clock
           /\ y.tomb = IF Beats(id, x.tomb) THEN id ELSE x.tomb
<1>1. /\ Stated(x.tombCarriers, signer) \in [Device -> Int]
      /\ OnlyCarrier(signer) \in [Device -> Int]
  <2>1. x.tombCarriers \in [Device -> Int]
    BY DEF RowType
  <2> QED BY <2>1, CarriersTyped
<1>2. id \in Clk
  BY DEF Clk
<1> QED BY <1>1, <1>2 DEF RaiseTombstone, RowType

\* settle_delete keeps the row's state the latest of what was settled.
LEMMA SettleDeleteKeeps ==
    ASSUME NEW x, NEW seen, RowInv(x, seen), NEW id \in Clock, NEW signer \in Clock
    PROVE  RowInv(SettleDelete(x, id, signer), seen \cup {[id |-> id, cells |-> NoCells]})
<1> DEFINE said == [id |-> id, cells |-> NoCells]
           base == IF Beats(x.clock, id) THEN x
                   ELSE [x EXCEPT !.cells = Absent, !.clock = NoClock,
                                  !.carriers = NoCarriers, !.pub = Unpublished]
           y == RaiseTombstone(base, id, signer)
<1>1. /\ x \in RowType /\ x.clock \in Clk /\ x.tomb \in Clk /\ id \in Clk
      /\ id # NoClock
  <2>1. x \in RowType
    BY DEF RowInv
  <2>2. id # NoClock
    BY DEF Clock, NoClock
  <2> QED BY <2>1, <2>2 DEF RowType, Clk
<1>2. /\ base \in RowType
      /\ base.tomb = x.tomb
      /\ base.clock = IF Beats(x.clock, id) THEN x.clock ELSE NoClock
  <2>1. NoCarriers \in [Device -> Int]
    BY DEF NoCarriers
  <2> QED BY <1>1, <2>1 DEF RowType, Content, Clk
<1> HIDE DEF base
<1>3. /\ y \in RowType
      /\ y.clock = base.clock
      /\ y.tomb = IF Beats(id, x.tomb) THEN id ELSE x.tomb
  BY <1>2, RaiseTombstoneEffect
<1>4. y = SettleDelete(x, id, signer)
  BY DEF SettleDelete, base
<1> HIDE DEF y
<1>5. seen \cup {said} \subseteq Said
  BY DEF RowInv, Said
<1>6. /\ Deletes(seen \cup {said}) = Deletes(seen) \cup {said}
      /\ Writes(seen \cup {said}) = Writes(seen)
  BY DEF Deletes, Writes
<1>7. \A w \in seen : w.id \in Clk
  BY DEF RowInv, Said, Clk
<1>8. y.clock # NoClock => Beats(y.clock, y.tomb)
  BY <1>1, <1>2, <1>3 DEF RowInv
<1>9. \A w \in Deletes(seen \cup {said}) : ~Beats(w.id, y.tomb)
  <2>1. \A w \in Deletes(seen) : ~Beats(w.id, x.tomb) /\ w.id \in Clk
    BY <1>7 DEF RowInv, Latest, Deletes
  <2>2. \A w \in Deletes(seen) : ~Beats(w.id, y.tomb)
    BY <1>1, <1>3, <2>1, BeatsOrder
  <2>3. ~Beats(said.id, y.tomb)
    BY <1>1, <1>3, BeatsOrder
  <2> QED BY <1>6, <2>2, <2>3
<1>10. y.tomb # NoClock => \E w \in Deletes(seen \cup {said}) : w.id = y.tomb
  BY <1>3, <1>6 DEF RowInv, Latest
<1>11. \A w \in Writes(seen \cup {said}) : ~Beats(w.id, y.clock) \/ ~Beats(w.id, y.tomb)
  <2> SUFFICES ASSUME NEW w \in Writes(seen), Beats(w.id, y.tomb)
               PROVE  ~Beats(w.id, y.clock)
    BY <1>6
  <2>1. w.id \in Clk
    BY <1>7 DEF Writes
  <2>2. Beats(w.id, x.tomb) /\ Beats(w.id, id)
    BY <1>1, <1>3, <2>1, BeatsOrder
  <2>3. ~Beats(w.id, x.clock)
    BY <2>2 DEF RowInv, Latest
  <2>4. Beats(x.clock, id)
    BY <1>1, <2>1, <2>2, <2>3, BeatsOrder
  <2> QED BY <1>2, <1>3, <2>3, <2>4
<1>12. y.clock # NoClock => \E w \in Writes(seen \cup {said}) : w.id = y.clock
  BY <1>2, <1>3, <1>6 DEF RowInv, Latest
<1> QED BY <1>3, <1>4, <1>5, <1>8, <1>9, <1>10, <1>11, <1>12 DEF RowInv, Latest

\* settle_row keeps the row's state the latest of what was settled.
LEMMA SettleRowKeeps ==
    ASSUME NEW x, NEW seen, RowInv(x, seen), NEW id \in Clock, NEW signer \in Clock,
           NEW cells \in Content, NEW ver \in Int
    PROVE  RowInv(SettleRow(x, cells, id, signer, ver),
                  seen \cup {[id |-> id, cells |-> cells]})
<1> DEFINE said == [id |-> id, cells |-> cells]
           y == SettleRow(x, cells, id, signer, ver)
<1>1. /\ x \in RowType /\ x.clock \in Clk /\ x.tomb \in Clk /\ id \in Clk
      /\ x.carriers \in [Device -> Int]
      /\ id # NoClock
  <2>1. x \in RowType
    BY DEF RowInv
  <2>2. id # NoClock
    BY DEF Clock, NoClock
  <2> QED BY <2>1, <2>2 DEF RowType, Clk
<1>2. cells # NoCells
  BY MergeAssumption DEF Content, Absent, Unreadable, NoCells
<1>3. /\ y \in RowType
      /\ y.tomb = x.tomb
      /\ y.clock = IF Takes(x, id) THEN id ELSE x.clock
  <2>1. /\ Stated(x.carriers, signer) \in [Device -> Int]
        /\ OnlyCarrier(signer) \in [Device -> Int]
    BY <1>1, CarriersTyped
  <2>2. CASE Takes(x, id)
    <3>1. y = [x EXCEPT !.cells = cells, !.clock = id, !.carriers = OnlyCarrier(signer),
                        !.pub = cells, !.pubVer = ver]
      BY <2>2 DEF SettleRow
    <3> QED BY <1>1, <2>1, <2>2, <3>1 DEF RowType
  <2>3. CASE ~Takes(x, id)
    <3>1. y = x \/ y = [x EXCEPT !.carriers = Stated(@, signer)]
      BY <2>3 DEF SettleRow
    <3> QED BY <1>1, <2>1, <2>3, <3>1 DEF RowType
  <2> QED BY <2>2, <2>3
<1> HIDE DEF y
<1>4. seen \cup {said} \subseteq Said
  BY DEF RowInv, Said
<1>5. /\ Deletes(seen \cup {said}) = Deletes(seen)
      /\ Writes(seen \cup {said}) = Writes(seen) \cup {said}
  BY <1>2 DEF Deletes, Writes
<1>6. y.clock # NoClock => Beats(y.clock, y.tomb)
  BY <1>3 DEF RowInv, Takes
<1>7. /\ \A w \in Deletes(seen) : ~Beats(w.id, y.tomb)
      /\ y.tomb # NoClock => \E w \in Deletes(seen) : w.id = y.tomb
  BY <1>3 DEF RowInv, Latest
<1>8. \A w \in Writes(seen) \cup {said} : ~Beats(w.id, y.clock) \/ ~Beats(w.id, y.tomb)
  <2>1. ~Beats(id, y.clock) \/ ~Beats(id, y.tomb)
    BY <1>1, <1>3, BeatsOrder DEF Takes
  <2>2. ASSUME NEW w \in Writes(seen), Beats(w.id, y.clock)
        PROVE  ~Beats(w.id, y.tomb)
    <3>1. w.id \in Clk
      BY DEF RowInv, Said, Clk, Writes
    <3>2. Beats(w.id, x.clock)
      BY <1>1, <1>3, <2>2, <3>1, BeatsOrder DEF Takes
    <3> QED BY <1>3, <3>2 DEF RowInv, Latest
  <2> QED BY <2>1, <2>2
<1>9. y.clock # NoClock => \E w \in Writes(seen) \cup {said} : w.id = y.clock
  <2>1. CASE Takes(x, id)
    <3>1. y.clock = said.id
      BY <1>3, <2>1
    <3> QED BY <3>1
  <2>2. CASE ~Takes(x, id)
    BY <1>3, <2>2 DEF RowInv, Latest
  <2> QED BY <2>1, <2>2
<1>10. y = SettleRow(x, cells, id, signer, ver)
  BY DEF y
<1>11. Latest(y, seen \cup {said})
  BY <1>5, <1>7, <1>8, <1>9 DEF Latest
<1>12. RowInv(y, seen \cup {said})
  BY <1>3, <1>4, <1>6, <1>11 DEF RowInv
<1> QED BY <1>10, <1>12

-----------------------------------------------------------------------------
(* One store *)

\* What the rows an entry names carry: identities of signed ops, contents
\* exactly if the op carries after-images.
EntryOK(e) ==
    /\ e.dev \in Device
    /\ e.lam \in Nat
    /\ \A r \in Named(e) :
          /\ e.items[r] = [id |-> e.items[r].id, cells |-> e.items[r].cells]
          /\ e.items[r].id \in Clock
          /\ IF Rewrites(e) THEN e.items[r].cells \in Content ELSE e.items[r].cells = NoCells

EntriesOK(entries) == \A e \in entries : EntryOK(e)

RowsInv(rows, seen) ==
    /\ rows = [r \in Row |-> rows[r]]
    /\ seen = [r \in Row |-> seen[r]]
    /\ \A r \in Row : RowInv(rows[r], seen[r])

Shaped(st) ==
    st = [rows |-> st.rows, accepted |-> st.accepted, gap |-> st.gap,
          deferred |-> st.deferred, ver |-> st.ver, floor |-> st.floor,
          owed |-> st.owed, epoch |-> st.epoch, work |-> st.work, seen |-> st.seen]

StoreInv(st) ==
    /\ Shaped(st)
    /\ RowsInv(st.rows, st.seen)
    /\ st.ver \in Int
    /\ EntriesOK(st.accepted) /\ EntriesOK(st.gap) /\ EntriesOK(st.deferred)

TxInv(t) ==
    /\ t = [kind |-> t.kind, dev |-> t.dev, who |-> t.who, st |-> t.st, rows |-> t.rows,
            replay |-> t.replay]
    /\ t.dev \in Device
    /\ StoreInv(t.st)
    /\ t.rows \subseteq Row
    /\ EntriesOK(t.replay)

IInv ==
    /\ store = [d \in Device |-> store[d]]
    /\ \A d \in Device : StoreInv(store[d])
    /\ tx # NoTx => TxInv(tx)

\* An entry settles on one row as settle_row or settle_delete, and the
\* history gains what it states.
LEMMA SettleKeeps ==
    ASSUME NEW x, NEW seen, RowInv(x, seen), NEW e, EntryOK(e), NEW r \in Named(e),
           NEW ver \in Int
    PROVE  RowInv(Settle(x, e, r, ver), seen \cup {e.items[r]})
<1>1. EntryId(e) \in Clock
  BY DEF EntryOK, EntryId, Clock
<1>2. /\ e.items[r] = [id |-> e.items[r].id, cells |-> e.items[r].cells]
      /\ e.items[r].id \in Clock
  BY DEF EntryOK
<1>3. CASE Rewrites(e)
  <2>1. e.items[r].cells \in Content
    BY <1>3 DEF EntryOK
  <2>2. Settle(x, e, r, ver) = SettleRow(x, e.items[r].cells, e.items[r].id, EntryId(e), ver)
    BY <1>3 DEF Settle
  <2> QED BY <1>1, <1>2, <2>1, <2>2, SettleRowKeeps
<1>4. CASE ~Rewrites(e)
  <2>1. e.items[r] = [id |-> e.items[r].id, cells |-> NoCells]
    BY <1>2, <1>4 DEF EntryOK
  <2>2. Settle(x, e, r, ver) = SettleDelete(x, e.items[r].id, EntryId(e))
    BY <1>4 DEF Settle
  <2>3. RowInv(SettleDelete(x, e.items[r].id, EntryId(e)),
               seen \cup {[id |-> e.items[r].id, cells |-> NoCells]})
    BY <1>1, <1>2, SettleDeleteKeeps
  <2> QED BY <2>1, <2>2, <2>3
<1> QED BY <1>3, <1>4

\* apply_row_op_on_stream keeps every row the latest of what was settled.
LEMMA ProjectedKeeps ==
    ASSUME NEW st, StoreInv(st), NEW e, EntryOK(e), NEW part \in SUBSET Named(e),
           ~VersionGap(e, st.ver)
    PROVE  LET y == Projected(st, e, part) IN
           /\ StoreInv(y)
           /\ y.accepted = st.accepted
           /\ y.gap = st.gap
           /\ y.deferred = st.deferred
<1> DEFINE rows == Apply(st.rows, e, part, st.ver)
           seen == [r \in Row |-> st.seen[r] \cup
                      (IF r \in part /\ ~StatesAhead(e) THEN {e.items[r]} ELSE {})]
           y == Projected(st, e, part)
<1>1. y = [st EXCEPT !.rows = rows, !.seen = seen]
  BY DEF Projected
<1>2. RowsInv(rows, seen)
  <2>1. CASE StatesAhead(e)
    <3>1. rows = st.rows
      BY <2>1 DEF Apply
    <3>2. \A r \in Row : seen[r] = st.seen[r]
      BY <2>1
    <3> QED BY <3>1, <3>2 DEF RowsInv, StoreInv
  <2>2. CASE ~StatesAhead(e)
    <3>1. rows = [r \in Row |-> IF r \in part THEN Settle(st.rows[r], e, r, st.ver)
                                ELSE st.rows[r]]
      BY <2>2 DEF Apply
    <3> HIDE DEF rows
    <3>2. ASSUME NEW r \in Row
          PROVE  RowInv(rows[r], seen[r])
      <4>1. RowInv(st.rows[r], st.seen[r]) /\ st.ver \in Int
        BY DEF StoreInv, RowsInv
      <4>2. CASE r \in part
        <5>1. rows[r] = Settle(st.rows[r], e, r, st.ver)
          BY <3>1, <4>2
        <5>2. seen[r] = st.seen[r] \cup {e.items[r]}
          BY <2>2, <4>2
        <5>3. r \in Named(e)
          BY <4>2
        <5> QED BY <4>1, <5>1, <5>2, <5>3, SettleKeeps
      <4>3. CASE r \notin part
        <5>1. rows[r] = st.rows[r]
          BY <3>1, <4>3
        <5>2. seen[r] = st.seen[r]
          BY <4>3
        <5> QED BY <4>1, <5>1, <5>2
      <4> QED BY <4>2, <4>3
    <3> QED BY <3>1, <3>2 DEF RowsInv
  <2> QED BY <2>1, <2>2
<1> HIDE DEF rows, seen, y
<1>3. /\ Shaped(y) /\ y.rows = rows /\ y.seen = seen /\ y.ver = st.ver
      /\ y.accepted = st.accepted /\ y.gap = st.gap /\ y.deferred = st.deferred
  BY <1>1 DEF StoreInv, Shaped
<1>4. StoreInv(y)
  BY <1>2, <1>3 DEF StoreInv
<1>5. y = Projected(st, e, part)
  BY DEF y
<1> QED BY <1>3, <1>4, <1>5

\* Evaluating an entry (pre_apply and what follows) keeps the store's invariant.
LEMMA EvaluatedKeeps ==
    ASSUME NEW st, StoreInv(st), NEW e, EntryOK(e), NEW dev, NEW live \in BOOLEAN
    PROVE  StoreInv(Evaluated(st, e, dev, live))
<1> DEFINE part == IF Restates(e) THEN Named(e) \ Blocked(st, e) ELSE {}
           now == Projected(st, e, part)
           all == Projected(st, e, Named(e))
<1>1. CASE VersionGap(e, st.ver)
  <2>1. Evaluated(st, e, dev, live)
          = [st EXCEPT !.gap = @ \cup {e}, !.deferred = @ \ {e}]
    BY <1>1 DEF Evaluated
  <2>2. EntriesOK(st.gap \cup {e}) /\ EntriesOK(st.deferred \ {e})
    BY DEF StoreInv, EntriesOK
  <2> QED BY <2>1, <2>2 DEF StoreInv, Shaped
<1>2. CASE ~VersionGap(e, st.ver) /\ Defers(st, e, dev, live)
  <2>1. Evaluated(st, e, dev, live)
          = [now EXCEPT !.deferred = @ \cup {e}, !.gap = @ \ {e}]
    BY <1>2 DEF Evaluated
  <2>2. part \in SUBSET Named(e)
    OBVIOUS
  <2> HIDE DEF part
  <2>3. StoreInv(now)
    BY <1>2, <2>2, ProjectedKeeps
  <2> HIDE DEF now
  <2>4. EntriesOK(now.deferred \cup {e}) /\ EntriesOK(now.gap \ {e})
    BY <2>3 DEF StoreInv, EntriesOK
  <2> QED BY <2>1, <2>3, <2>4 DEF StoreInv, Shaped
<1>3. CASE ~VersionGap(e, st.ver) /\ ~Defers(st, e, dev, live)
  <2>1. Evaluated(st, e, dev, live)
          = [all EXCEPT !.deferred = @ \ {e}, !.gap = @ \ {e}]
    BY <1>3 DEF Evaluated
  <2>2. StoreInv(all)
    BY <1>3, ProjectedKeeps
  <2> HIDE DEF all
  <2> QED BY <2>1, <2>2 DEF StoreInv, Shaped, EntriesOK
<1> QED BY <1>1, <1>2, <1>3

\* Signing an entry and applying it to the own rows keeps it.
LEMMA AuthoredKeeps ==
    ASSUME NEW st, StoreInv(st), NEW id \in Clock, NEW kind, NEW items,
           EntryOK([dev |-> id.dev, lam |-> id.lam, kind |-> kind, ver |-> st.ver,
                    items |-> items])
    PROVE  StoreInv(Authored(st, id, kind, items))
<1> DEFINE e == [dev |-> id.dev, lam |-> id.lam, kind |-> kind, ver |-> st.ver,
                 items |-> items]
           base == [st EXCEPT !.accepted = @ \cup {e}]
<1>1. Authored(st, id, kind, items) = Projected(base, e, Named(e))
  BY DEF Authored
<1>2. EntryOK(e) /\ e.ver = st.ver
  OBVIOUS
<1> HIDE DEF e
<1>3. StoreInv(base) /\ base.ver = st.ver
  BY <1>2 DEF StoreInv, Shaped, EntriesOK
<1> HIDE DEF base
<1>4. ~VersionGap(e, base.ver)
  BY <1>2, <1>3 DEF VersionGap, StoreInv
<1> QED BY <1>1, <1>2, <1>3, <1>4, ProjectedKeeps

\* Signing the row's own state as an op keeps it.
LEMMA RowOpKeeps ==
    ASSUME NEW st, StoreInv(st), NEW id \in Clock, NEW r \in Row
    PROVE  StoreInv(RowOp(st, id, r))
<1> DEFINE gone == st.rows[r].cells = Absent
           item == [id |-> id, cells |-> IF gone THEN NoCells ELSE st.rows[r].cells]
           kind == IF gone THEN "remove" ELSE "upsert"
           items == [x \in Row |-> IF x = r THEN item ELSE NoItem]
           e == [dev |-> id.dev, lam |-> id.lam, kind |-> kind, ver |-> st.ver,
                 items |-> items]
<1>1. RowOp(st, id, r) = Authored(st, id, kind, items)
  BY DEF RowOp
<1>2. st.rows[r].cells \in Content
  BY DEF StoreInv, RowsInv, RowInv, RowType
<1>3. EntryOK(e)
  <2>1. e.dev \in Device /\ e.lam \in Nat
    BY DEF Clock
  <2>2. ASSUME NEW x \in Named(e)
        PROVE  x = r
    BY <2>2 DEF Named
  <2>3. e.items[r] = item /\ (Rewrites(e) <=> ~gone)
    BY DEF Rewrites
  <2> QED BY <1>2, <2>1, <2>2, <2>3 DEF EntryOK
<1> HIDE DEF kind, items
<1> QED BY <1>1, <1>3, AuthoredKeeps

\* What changes neither clocks, tombstones nor history keeps it.
LEMMA SameMergeKeeps ==
    ASSUME NEW x, NEW seen, RowInv(x, seen), NEW y \in RowType,
           y.clock = x.clock, y.tomb = x.tomb
    PROVE  RowInv(y, seen)
  BY DEF RowInv, Latest

\* The scan's restamping keeps it.
LEMMA RestampedKeeps ==
    ASSUME NEW st, StoreInv(st)
    PROVE  StoreInv(Restamped(st))
<1> DEFINE rows == [r \in Row |->
               IF Stale(st, r) /\ st.rows[r].cells \in WinningCells(st, r)
               THEN [st.rows[r] EXCEPT !.pub = st.rows[r].cells, !.pubVer = st.ver]
               ELSE st.rows[r]]
<1>1. Restamped(st) = [st EXCEPT !.rows = rows]
  BY DEF Restamped
<1>2. ASSUME NEW r \in Row
      PROVE  RowInv(rows[r], st.seen[r])
  <2>1. RowInv(st.rows[r], st.seen[r]) /\ st.ver \in Int
    BY DEF StoreInv, RowsInv
  <2>2. st.rows[r] \in RowType
    BY <2>1 DEF RowInv
  <2>3. CASE Stale(st, r) /\ st.rows[r].cells \in WinningCells(st, r)
    <3>1. rows[r] = [st.rows[r] EXCEPT !.pub = st.rows[r].cells, !.pubVer = st.ver]
      BY <2>3
    <3> HIDE DEF rows
    <3>2. rows[r] \in RowType /\ rows[r].clock = st.rows[r].clock
            /\ rows[r].tomb = st.rows[r].tomb
      BY <2>1, <2>2, <3>1 DEF RowType
    <3> QED BY <2>1, <3>2, SameMergeKeeps
  <2>4. CASE ~(Stale(st, r) /\ st.rows[r].cells \in WinningCells(st, r))
    <3>1. rows[r] = st.rows[r]
      BY <2>4
    <3> QED BY <2>1, <3>1
  <2> QED BY <2>3, <2>4
<1>3. rows = [r \in Row |-> rows[r]]
  OBVIOUS
<1> HIDE DEF rows
<1>4. RowsInv(rows, st.seen)
  BY <1>2, <1>3 DEF RowsInv, StoreInv
<1> QED BY <1>1, <1>4 DEF StoreInv, Shaped

-----------------------------------------------------------------------------
(* Every step *)

\* Empty stores satisfy the invariant.
LEMMA InitKeeps == Init => IInv
<1> SUFFICES ASSUME Init
             PROVE  IInv
  OBVIOUS
<1>1. EmptyRow \in RowType
  BY DEF EmptyRow, RowType, Content, Clk, NoCarriers
<1>2. RowInv(EmptyRow, {})
  BY <1>1 DEF RowInv, EmptyRow, Latest, Deletes, Writes
<1>3. StoreInv(EmptyStore)
  BY <1>2 DEF EmptyStore, StoreInv, Shaped, RowsInv, EntriesOK
<1> QED BY <1>3 DEF Init, IInv

\* A received entry.
LEMMA IngestKeeps ==
    ASSUME IInv, NEW d \in Device, NEW p \in Device, NEW e \in store[p].accepted,
           Ingest(d, p, e)
    PROVE  IInv'
<1> DEFINE st == Rooted(store[d], e, store[p])
<1>1. StoreInv(store[d]) /\ StoreInv(store[p])
  BY DEF IInv
<1>2. EntryOK(e)
  BY <1>1 DEF StoreInv, EntriesOK
<1>3. StoreInv(st)
  <2>1. PICK floor, owed : st = [store[d] EXCEPT !.accepted = @ \cup {e},
                                                !.floor = floor, !.owed = owed]
    BY DEF Rooted
  <2> HIDE DEF st
  <2>2. EntriesOK(store[d].accepted \cup {e})
    BY <1>1, <1>2 DEF StoreInv, EntriesOK
  <2> QED BY <1>1, <2>1, <2>2 DEF StoreInv, Shaped
<1>4. store' = [store EXCEPT ![d] = Evaluated(st, e, d, TRUE)] /\ tx' = tx
  BY DEF Ingest
<1> HIDE DEF st
<1>5. StoreInv(Evaluated(st, e, d, TRUE))
  BY <1>2, <1>3, EvaluatedKeeps
<1> QED BY <1>4, <1>5 DEF IInv

\* A raw write of a row.
LEMMA EditKeeps ==
    ASSUME IInv, NEW d \in Device, NEW r \in Row, NEW c \in Holdable(store[d]),
           Edit(d, r, c)
    PROVE  IInv'
<1> DEFINE st == store[d]
           row == [st.rows[r] EXCEPT !.cells = c]
           rows == [st.rows EXCEPT ![r] = row]
           new == [st EXCEPT !.rows = rows]
<1>1. StoreInv(st)
  BY DEF IInv
<1>2. store' = [store EXCEPT ![d] = new] /\ tx' = tx
  BY DEF Edit
<1>3. c \in Content
  BY RowsAssumption DEF Holdable, Content
<1>4. RowInv(st.rows[r], st.seen[r])
  BY <1>1 DEF StoreInv, RowsInv
<1>5. row \in RowType /\ row.clock = st.rows[r].clock /\ row.tomb = st.rows[r].tomb
  BY <1>3, <1>4 DEF RowInv, RowType
<1>6. RowInv(row, st.seen[r])
  BY <1>4, <1>5, SameMergeKeeps
<1> HIDE DEF row
<1>7. RowsInv(rows, st.seen)
  BY <1>1, <1>6 DEF RowsInv, StoreInv
<1> HIDE DEF rows
<1>8. StoreInv(new)
  BY <1>1, <1>7 DEF StoreInv, Shaped
<1> HIDE DEF new
<1> QED BY <1>2, <1>8 DEF IInv

\* A transaction begins on the committed store, restamped or upgraded.
LEMMA BeginKeeps ==
    ASSUME IInv,
           \/ \E d \in Device : BeginProduce(d)
           \/ \E d \in Device : \E v \in 1..MaxVersion : Open(d, v)
           \/ \E d \in Device, run \in SUBSET Row : BeginCompact(d, run)
    PROVE  IInv'
<1>1. CASE \E d \in Device : BeginProduce(d)
  <2>1. PICK d \in Device : BeginProduce(d)
    BY <1>1
  <2> DEFINE st == IF StreamPending(store[d]) THEN store[d] ELSE Restamped(store[d])
             owed == IF StreamPending(store[d]) THEN {}
                     ELSE {r \in Row : OwesUpsert(store[d], r) \/ LocallyDeleted(store[d], r)}
  <2>2. StoreInv(store[d])
    BY DEF IInv
  <2>3. StoreInv(st)
    BY <2>2, RestampedKeeps
  <2>4. owed \subseteq Row
    OBVIOUS
  <2>5. tx' = [kind |-> "produce", dev |-> d, who |-> d, st |-> st, rows |-> owed,
               replay |-> store[d].deferred]
        /\ store' = store
    BY <2>1 DEF BeginProduce
  <2> HIDE DEF st, owed
  <2>6. TxInv(tx')
    BY <2>2, <2>3, <2>4, <2>5 DEF TxInv, StoreInv
  <2> QED BY <2>5, <2>6 DEF IInv
<1>2. CASE \E d \in Device : \E v \in 1..MaxVersion : Open(d, v)
  <2>1. PICK d \in Device, v \in 1..MaxVersion : Open(d, v)
    BY <1>2
  <2> DEFINE st == [store[d] EXCEPT !.ver = v]
             replay == IF v > store[d].ver THEN Pending(store[d]) ELSE store[d].deferred
  <2>2. StoreInv(store[d])
    BY DEF IInv
  <2>3. StoreInv(st)
    BY <2>2 DEF StoreInv, Shaped
  <2>4. EntriesOK(replay)
    BY <2>2 DEF StoreInv, EntriesOK, Pending
  <2>5. tx' = [kind |-> "open", dev |-> d, who |-> d, st |-> st, rows |-> {}, replay |-> replay]
        /\ store' = store
    BY <2>1 DEF Open
  <2> HIDE DEF st, replay
  <2>6. TxInv(tx')
    BY <2>3, <2>4, <2>5 DEF TxInv
  <2> QED BY <2>5, <2>6 DEF IInv
<1>3. CASE \E d \in Device, run \in SUBSET Row : BeginCompact(d, run)
  <2>1. PICK d \in Device, run \in SUBSET Row : BeginCompact(d, run)
    BY <1>3
  <2>2. StoreInv(store[d])
    BY DEF IInv
  <2>3. tx' = [kind |-> "compact", dev |-> d, who |-> d, st |-> store[d], rows |-> run,
               replay |-> {}]
        /\ store' = store
    BY <2>1 DEF BeginCompact
  <2>4. TxInv(tx')
    BY <2>2, <2>3 DEF TxInv, EntriesOK
  <2> QED BY <2>3, <2>4 DEF IInv
<1> QED BY <1>1, <1>2, <1>3

\* A row is signed and self-applied, by the producer or by compaction.
LEMMA SignsRowKeeps ==
    ASSUME IInv, tx # NoTx, NEW r \in Row, NEW n \in 0..MaxLamport, SignsRow(r, n)
    PROVE  IInv'
<1> DEFINE id == [lam |-> n, dev |-> tx.dev]
           st == RowOp(tx.st, id, r)
<1>1. TxInv(tx)
  BY DEF IInv
<1>2. id \in Clock
  BY <1>1, RowsAssumption DEF Clock, TxInv
<1>3. tx' = [tx EXCEPT !.st = st, !.rows = @ \ {r}] /\ store' = store
  BY DEF SignsRow
<1> HIDE DEF id
<1>4. StoreInv(st)
  BY <1>1, <1>2, RowOpKeeps DEF TxInv
<1> HIDE DEF st
<1>5. TxInv(tx')
  BY <1>1, <1>3, <1>4 DEF TxInv
<1> QED BY <1>3, <1>5 DEF IInv

\* Signing the statements `items` in one entry of the transaction.
LEMMA StatesKeep ==
    ASSUME IInv, tx # NoTx, NEW n \in 0..MaxLamport, NEW kind, NEW items,
           NEW rows \in SUBSET Row,
           EntryOK([dev |-> tx.dev, lam |-> n, kind |-> kind, ver |-> tx.st.ver,
                    items |-> items]),
           tx' = [tx EXCEPT !.st = Authored(@, [lam |-> n, dev |-> tx.dev], kind, items),
                            !.rows = rows],
           store' = store
    PROVE  IInv'
<1> DEFINE id == [lam |-> n, dev |-> tx.dev]
           st == Authored(tx.st, id, kind, items)
<1>1. TxInv(tx) /\ StoreInv(tx.st)
  BY DEF IInv, TxInv
<1>2. id \in Clock /\ id.dev = tx.dev /\ id.lam = n
  BY <1>1, RowsAssumption DEF Clock, TxInv
<1>3. tx' = [tx EXCEPT !.st = st, !.rows = rows]
  OBVIOUS
<1> HIDE DEF id
<1>4. StoreInv(st)
  BY <1>1, <1>2, AuthoredKeeps
<1> HIDE DEF st
<1>5. TxInv(tx')
  BY <1>1, <1>3, <1>4 DEF TxInv
<1> QED BY <1>5 DEF IInv

\* The deletes that are carried are restated in one entry.
LEMMA CarryDeletesKeeps ==
    ASSUME IInv, NEW n \in 0..MaxLamport, CarryDeletes(n)
    PROVE  IInv'
<1> DEFINE items == [r \in Row |-> IF r \notin tx.rows \/ Live(r) THEN NoItem
                                   ELSE [id |-> tx.st.rows[r].tomb, cells |-> NoCells]]
           rows == {r \in tx.rows : Live(r)}
           e == [dev |-> tx.dev, lam |-> n, kind |-> "restate", ver |-> tx.st.ver,
                 items |-> items]
<1>1. TxInv(tx) /\ StoreInv(tx.st) /\ tx # NoTx
  BY DEF IInv, CarryDeletes, Carrying, TxInv
<1>2. EntryOK(e)
  <2>1. e.dev \in Device /\ e.lam \in Nat /\ ~Rewrites(e)
    BY <1>1, RowsAssumption DEF TxInv, Rewrites
  <2>2. ASSUME NEW r \in Named(e)
        PROVE  /\ e.items[r] = [id |-> tx.st.rows[r].tomb, cells |-> NoCells]
               /\ tx.st.rows[r].tomb \in Clock
    <3>1. r \in Row /\ items[r] # NoItem
      BY DEF Named
    <3>2. items[r] = [id |-> tx.st.rows[r].tomb, cells |-> NoCells]
      BY <3>1
    <3>3. tx.st.rows[r].tomb # NoClock
      BY <3>1, <3>2 DEF NoItem
    <3>4. tx.st.rows[r].tomb \in Clk
      BY <1>1, <3>1 DEF StoreInv, RowsInv, RowInv, RowType
    <3> QED BY <3>2, <3>3, <3>4 DEF Clk
  <2> QED BY <2>1, <2>2 DEF EntryOK
<1>3. rows \in SUBSET Row
  BY <1>1 DEF TxInv
<1>4. /\ tx' = [tx EXCEPT !.st = Authored(@, [lam |-> n, dev |-> tx.dev], "restate", items),
                          !.rows = rows]
      /\ store' = store
  BY DEF CarryDeletes
<1> HIDE DEF items, rows
<1> QED BY <1>1, <1>2, <1>3, <1>4, StatesKeep

\* The live rows that are carried are restated in one entry, at the clocks
\* they have.
LEMMA CarryLiveKeeps ==
    ASSUME IInv, NEW n \in 0..MaxLamport, CarryLive(n)
    PROVE  IInv'
<1> DEFINE items == [r \in Row |-> IF r \notin tx.rows THEN NoItem
                                   ELSE [id |-> tx.st.rows[r].clock,
                                         cells |-> tx.st.rows[r].cells]]
           e == [dev |-> tx.dev, lam |-> n, kind |-> "restaterows", ver |-> tx.st.ver,
                 items |-> items]
<1>1. TxInv(tx) /\ StoreInv(tx.st) /\ tx # NoTx
  BY DEF IInv, CarryLive, Carrying, TxInv
<1>2. EntryOK(e)
  <2>1. e.dev \in Device /\ e.lam \in Nat /\ Rewrites(e)
    BY <1>1, RowsAssumption DEF TxInv, Rewrites
  <2>2. ASSUME NEW r \in Named(e)
        PROVE  /\ e.items[r] = [id |-> tx.st.rows[r].clock, cells |-> tx.st.rows[r].cells]
               /\ tx.st.rows[r].clock \in Clock
               /\ tx.st.rows[r].cells \in Content
    <3>1. r \in Row /\ items[r] # NoItem
      BY DEF Named
    <3>2. r \in tx.rows /\ items[r] = [id |-> tx.st.rows[r].clock,
                                       cells |-> tx.st.rows[r].cells]
      BY <3>1
    <3>3. tx.st.rows[r].clock # NoClock
      BY <3>2 DEF CarryLive, Live
    <3>4. tx.st.rows[r].clock \in Clk /\ tx.st.rows[r].cells \in Content
      BY <1>1, <3>1 DEF StoreInv, RowsInv, RowInv, RowType
    <3> QED BY <3>2, <3>3, <3>4 DEF Clk
  <2>3. ASSUME NEW r \in Named(e)
        PROVE  /\ e.items[r] = [id |-> e.items[r].id, cells |-> e.items[r].cells]
               /\ e.items[r].id \in Clock /\ e.items[r].cells \in Content
    BY <2>2
  <2> HIDE DEF e
  <2> QED BY <2>1, <2>3 DEF EntryOK
<1>3. {} \in SUBSET Row
  OBVIOUS
<1>4. /\ tx' = [tx EXCEPT !.st = Authored(@, [lam |-> n, dev |-> tx.dev], "restaterows", items),
                          !.rows = {}]
      /\ store' = store
  BY DEF CarryLive
<1> HIDE DEF items
<1> QED BY <1>1, <1>2, <1>3, <1>4, StatesKeep

\* A pending entry is replayed inside the transaction.
LEMMA ReplayKeeps ==
    ASSUME IInv, tx # NoTx, NEW e \in tx.replay, ReplayNext(e)
    PROVE  IInv'
<1> DEFINE done == Evaluated(tx.st, e, tx.dev, FALSE)
           st == Rearmed(done, tx.st, e)
<1>1. TxInv(tx) /\ StoreInv(tx.st) /\ EntryOK(e)
  BY DEF IInv, TxInv, EntriesOK
<1>2. tx' = [tx EXCEPT !.st = st, !.replay = @ \ {e}] /\ store' = store
  BY DEF ReplayNext
<1>3. StoreInv(st)
  <2>1. StoreInv(done)
    BY <1>1, EvaluatedKeeps
  <2> HIDE DEF done
  <2>2. PICK work : st = done \/ st = [done EXCEPT !.work = work]
    BY DEF Rearmed
  <2> HIDE DEF st
  <2> QED BY <2>1, <2>2 DEF StoreInv, Shaped
<1> HIDE DEF st
<1>4. TxInv(tx')
  BY <1>1, <1>2, <1>3 DEF TxInv, EntriesOK
<1> QED BY <1>2, <1>4 DEF IInv

\* A transaction ends: committed, undone, or with chain prefixes dropped.
LEMMA EndKeeps ==
    ASSUME IInv, Commit \/ Abort \/ CompactChains
    PROVE  IInv'
<1>1. CASE Commit
  BY <1>1 DEF Commit, IInv, TxInv
<1>2. CASE Abort
  BY <1>2 DEF Abort, IInv
<1>3. CASE CompactChains
  <2> DEFINE st == Compacted(tx.st, tx.dev, store[tx.dev])
  <2>1. StoreInv(tx.st) /\ tx.dev \in Device
    BY <1>3 DEF CompactChains, IInv, TxInv
  <2>2. store' = [store EXCEPT ![tx.dev] = st] /\ tx' = NoTx
    BY <1>3 DEF CompactChains
  <2>3. StoreInv(st)
    <3>1. PICK floor : \E keep \in SUBSET tx.st.accepted :
            st = [tx.st EXCEPT !.floor = floor, !.accepted = keep]
      BY DEF Compacted
    <3> HIDE DEF st
    <3>2. PICK keep \in SUBSET tx.st.accepted :
            st = [tx.st EXCEPT !.floor = floor, !.accepted = keep]
      BY <3>1
    <3> QED BY <2>1, <3>2 DEF StoreInv, Shaped, EntriesOK
  <2> HIDE DEF st
  <2> QED BY <2>1, <2>2, <2>3 DEF IInv
<1> QED BY <1>1, <1>2, <1>3

\* A change of a device's enrolment is folded.
LEMMA FoldKeeps ==
    ASSUME IInv, NEW d \in Device, NEW x \in Device, Fold(d, x)
    PROVE  IInv'
<1>1. StoreInv(store[d])
  BY DEF IInv
<1>2. PICK epoch, work, owed :
        Folded(store[d], x) = [store[d] EXCEPT !.epoch = epoch, !.work = work, !.owed = owed]
  BY DEF Folded
<1>3. StoreInv(Folded(store[d], x))
  BY <1>1, <1>2 DEF StoreInv, Shaped
<1>4. store' = [store EXCEPT ![d] = Folded(@, x)] /\ tx' = tx
  BY DEF Fold
<1> QED BY <1>3, <1>4 DEF IInv

\* A removal is taken up, or finished with.
LEMMA ReadoptKeeps ==
    ASSUME IInv, (\E x \in Device : BeginReadopt(x)) \/ EndReadopt
    PROVE  IInv'
<1>1. CASE \E x \in Device : BeginReadopt(x)
  <2>1. PICK x \in Device : BeginReadopt(x)
    BY <1>1
  <2>2. TxInv(tx)
    BY <2>1 DEF BeginReadopt, IInv
  <2>3. PICK rows \in SUBSET Row :
          tx' = [tx EXCEPT !.kind = "readopt", !.who = x, !.rows = rows] /\ store' = store
    BY <2>1 DEF BeginReadopt, Candidates
  <2>4. TxInv(tx')
    BY <2>2, <2>3 DEF TxInv
  <2> QED BY <2>3, <2>4 DEF IInv
<1>2. CASE EndReadopt
  <2>1. TxInv(tx) /\ StoreInv(tx.st)
    BY <1>2 DEF EndReadopt, IInv, TxInv
  <2> DEFINE st == [tx.st EXCEPT !.work = @ \ {tx.who}]
             t1 == [tx EXCEPT !.kind = "drained", !.who = tx.dev]
             t2 == [tx EXCEPT !.kind = "produce", !.who = tx.dev, !.st = st]
  <2>2. (tx' = t1 \/ tx' = t2) /\ store' = store
    BY <1>2 DEF EndReadopt
  <2>3. StoreInv(st)
    BY <2>1 DEF StoreInv, Shaped
  <2> HIDE DEF st
  <2>4. TxInv(tx')
    BY <2>1, <2>2, <2>3 DEF TxInv
  <2> QED BY <2>2, <2>4 DEF IInv
<1> QED BY <1>1, <1>2

\* Whatever step is taken, every store and the transaction keep, row by row,
\* the latest of what was settled on them.
THEOREM RowInvariance == Spec => []IInv
<1>1. Init => IInv
  BY InitKeeps
<1>2. IInv /\ [Next]_vars => IInv'
  <2> SUFFICES ASSUME IInv, [Next]_vars
               PROVE  IInv'
    OBVIOUS
  <2>1. CASE \E d, p \in Device : \E e \in store[p].accepted : Ingest(d, p, e)
    BY <2>1, IngestKeeps
  <2>2. CASE \E d \in Device, r \in Row : \E c \in Holdable(store[d]) : Edit(d, r, c)
    BY <2>2, EditKeeps
  <2>3. CASE \/ \E d \in Device : BeginProduce(d)
             \/ \E d \in Device : \E v \in 1..MaxVersion : Open(d, v)
             \/ \E d \in Device, run \in SUBSET Row : BeginCompact(d, run)
    BY <2>3, BeginKeeps
  <2>4. CASE \E r \in Row, n \in 0..MaxLamport : AuthorRow(r, n) \/ CarryRow(r, n)
    BY <2>4, SignsRowKeeps DEF AuthorRow, CarryRow, Carrying
  <2>5. CASE tx # NoTx /\ \E e \in tx.replay : ReplayNext(e)
    BY <2>5, ReplayKeeps
  <2>6. CASE \E n \in 0..MaxLamport : CarryDeletes(n)
    BY <2>6, CarryDeletesKeeps
  <2>7. CASE \E n \in 0..MaxLamport : CarryLive(n)
    BY <2>7, CarryLiveKeeps
  <2>8. CASE \E d, x \in Device : Fold(d, x)
    BY <2>8, FoldKeeps
  <2>9. CASE (\E x \in Device : BeginReadopt(x)) \/ EndReadopt
    BY <2>9, ReadoptKeeps
  <2>10. CASE Commit \/ Abort \/ CompactChains
    BY <2>10, EndKeeps
  <2>11. CASE UNCHANGED vars
    BY <2>11 DEF vars, IInv
  <2> QED BY <2>1, <2>2, <2>3, <2>4, <2>5, <2>6, <2>7, <2>8, <2>9, <2>10, <2>11 DEF Next
<1> QED BY <1>1, <1>2, PTL DEF Spec

\* The invariant, as the properties quantify over it.
LEMMA StatesInv ==
    ASSUME IInv
    PROVE  \A st \in States, r \in Row : RowInv(st.rows[r], st.seen[r])
<1> SUFFICES ASSUME NEW st \in States
             PROVE  StoreInv(st)
  BY DEF StoreInv, RowsInv
<1>1. CASE tx = NoTx
  BY <1>1 DEF States, IInv
<1>2. CASE tx # NoTx
  <2>1. st \in {store[d] : d \in Device} \/ st = tx.st
    BY <1>2 DEF States
  <2> QED BY <1>2, <2>1 DEF IInv, TxInv
<1> QED BY <1>1, <1>2

\* For any devices, rows, contents and budgets: a live write clock is newer
\* than the row's tombstone, the ground on which row_repair_op lets a live
\* clock own the row.
THEOREM LiveClockOwnsRow == Spec => []ClockNewerThanTombstone
<1>1. IInv => ClockNewerThanTombstone
  BY StatesInv DEF RowInv, ClockNewerThanTombstone
<1> QED BY <1>1, RowInvariance, PTL

\* For any devices, rows, contents and budgets, and for every order of
\* receiving, deferring, replaying and restating: what a row's clock and
\* tombstone say is the latest of what was settled (settle_row,
\* settle_delete).
THEOREM MergeOrderIndependent == Spec => []MergeIsLatest
<1>1. IInv => MergeIsLatest
  <2> SUFFICES ASSUME IInv
               PROVE  MergeIsLatest
    OBVIOUS
  <2>1. \A st \in States, r \in Row : Latest(st.rows[r], st.seen[r])
    BY StatesInv DEF RowInv
  <2> QED BY <2>1 DEF Latest, MergeIsLatest
<1> QED BY <1>1, RowInvariance, PTL
=============================================================================
