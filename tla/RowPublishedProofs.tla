------------------------ MODULE RowPublishedProofs ------------------------
(***************************************************************************)
(* What a store's published records say, that what it signs takes its own  *)
(* rows, and that a pass of the producer leaves nothing to author behind,  *)
(* for every number of devices, rows, contents, versions and for every     *)
(* retention budget.                                                       *)
(*                                                                         *)
(* The argument is about all stores at once.  A write is named by the      *)
(* Lamport time and the device that signed it first; no two writes of a    *)
(* row, in whatever log or history, have one name and different contents.  *)
(* That holds because a store signs past everything it knows (Knows), and  *)
(* knows every name it ever gave (Owned).                                  *)
(***************************************************************************)
EXTENDS TableRowsProofs, WellFoundedInduction

\* The store's log reaches the Lamport time of `id`, so the next time it
\* signs at is past it.
Knows(st, id) == \E x \in st.accepted : id.lam <= x.lam

\* An entry's own write or delete is named by the entry.
Sound(e) ==
    /\ e.lam <= MaxLamport
    /\ ~Restates(e) => \A r \in Named(e) : e.items[r].id = EntryId(e)

\* The published record is the write the clock names, and is gone with it.
Published(x, seen) ==
    IF x.clock = NoClock THEN x.pub = Unpublished
    ELSE [id |-> x.clock, cells |-> x.pub] \in seen

Typed(st) ==
    /\ st.rows \in [Row -> RowState]
    /\ st.accepted \subseteq Entry
    /\ st.gap \subseteq st.accepted /\ st.deferred \subseteq st.accepted
    /\ st.ver \in 1..MaxVersion
    /\ st.floor \in [Device -> Int] /\ st.owed \in [Device -> Int]
    /\ st.epoch \in [Device -> Nat] /\ st.work \subseteq Device
    /\ st.seen \in [Row -> SUBSET Statement]

StoreOK(st) ==
    /\ Typed(st)
    /\ \A e \in st.accepted : Sound(e)
    /\ \A r \in Row : \A s \in st.seen[r] : Knows(st, s.id)
    /\ \A r \in Row : Published(st.rows[r], st.seen[r])

\* The writes of row r that the store's log or history holds.
Claims(st, r) ==
    {s \in st.seen[r] \cup {x.items[r] : x \in {y \in st.accepted : r \in Named(y)}} :
        s.cells # NoCells}

\* One name, one write: in whichever stores the two are.
Agreed ==
    \A st, su \in States, r \in Row :
        \A s \in Claims(st, r), t \in Claims(su, r) : s.id = t.id => s.cells = t.cells

\* Every write is known to the store of the device that named it.
Owned ==
    /\ \A d \in Device, r \in Row : \A s \in Claims(store[d], r) :
          Knows(store[s.id.dev], s.id)
    /\ tx # NoTx =>
          /\ store[tx.dev].accepted \subseteq tx.st.accepted
          /\ \A r \in Row : \A s \in Claims(tx.st, r) :
                Knows(IF s.id.dev = tx.dev THEN tx.st ELSE store[s.id.dev], s.id)

\* The rows a transaction still has to sign are what they were when it
\* chose them: readable, and restated only as they were published.
RowsChosen(t) ==
    /\ t.kind = "produce" => \A r \in t.rows : t.st.rows[r].cells # Unreadable
    /\ t.kind \in {"compact", "readopt"} =>
          \A r \in t.rows :
              LET x == t.st.rows[r] IN
              IF x.clock = NoClock THEN x.cells = Absent /\ x.tomb # NoClock
              ELSE /\ x.cells \in Cells
                   /\ (t.kind = "compact" /\ x.clock.dev = t.dev) \/ x.pub = x.cells
    /\ t.kind \in {"open", "drained"} => t.rows = {}

\* A pass that may author has nothing unsent but the rows it is about to sign.
Settling(t) ==
    t.kind \in {"produce", "readopt", "drained"} /\ ~StreamPending(t.st) =>
        \A r \in Row : (t.kind = "produce" /\ r \in t.rows) \/ ~Dirty(t.st, r)

TxOK(t) ==
    /\ t.kind \in {"produce", "readopt", "drained", "open", "compact"}
    /\ t.who \in Device
    /\ StoreOK(t.st)
    /\ t.replay \subseteq t.st.accepted
    /\ RowsChosen(t)
    /\ Settling(t)

PInv ==
    /\ edits \in 0..MaxEdits
    /\ \A d \in Device : StoreOK(store[d])
    /\ tx # NoTx => TxOK(tx)
    /\ Agreed
    /\ Owned

-----------------------------------------------------------------------------
(* The newest of a chain *)

\* A set of integers that is bounded above and not empty has a maximum.
LEMMA MaxExists ==
    ASSUME NEW S \in SUBSET Int, NEW m \in Int, \A x \in S : x <= m, S # {}
    PROVE  Max(S) \in S /\ \A y \in S : Max(S) >= y
<1> DEFINE T == {m - x : x \in S}
           R == OpToRel(<, Nat)
<1>1. IsWellFoundedOn(R, Nat)
  BY NatLessThanWellFounded
<1>3. R = {p \in Nat \X Nat : p[1] < p[2]}
  BY Zenon DEF OpToRel
<1> HIDE DEF R
<1>2. T \subseteq Nat /\ T # {}
  <2>1. \A x \in S : x \in Int /\ x <= m
    OBVIOUS
  <2>2. \A x \in S : m - x \in Nat
    BY <2>1
  <2>3. PICK x \in S : TRUE
    OBVIOUS
  <2>4. m - x \in T
    OBVIOUS
  <2>5. \A t \in T : t \in Nat
    BY <2>2
  <2> HIDE DEF T
  <2> QED BY <2>4, <2>5
<1> HIDE DEF T
<1>4. PICK t \in T : \A u \in T : ~(<<u, t>> \in R)
  BY <1>1, <1>2, WFMin
<1>5. \A u \in T : t <= u
  <2> SUFFICES ASSUME NEW u \in T, u < t
               PROVE  FALSE
    BY <1>2
  <2>1. <<u, t>> \in Nat \X Nat /\ <<u, t>>[1] < <<u, t>>[2]
    BY <1>2
  <2>2. <<u, t>> \in R
    BY <1>3, <2>1
  <2> QED BY <1>4, <2>2
<1>6. PICK x \in S : t = m - x
  BY DEF T
<1>7. \A y \in S : m - y \in T
  BY DEF T
<1>8. \A y \in S : x >= y
  BY <1>5, <1>6, <1>7
<1> QED BY <1>6, <1>8 DEF Max

\* The Lamport time of a chain's tail is a number.
LEMMA TipTyped ==
    ASSUME NEW st, StoreOK(st), NEW d \in Device
    PROVE  Tip(st, d) \in Int
<1> DEFINE S == {-1} \cup Lams(Chain(st, d))
<1>1. \A x \in st.accepted : x.lam \in Nat /\ x.lam <= MaxLamport
  BY DEF StoreOK, Typed, Sound, Entry
<1>2. S \in SUBSET Int /\ S # {} /\ MaxLamport \in Int /\ -1 <= MaxLamport
  BY <1>1, RowsAssumption DEF Lams, Chain
<1>3. \A x \in S : x <= MaxLamport
  BY <1>1, <1>2 DEF Lams, Chain
<1> HIDE DEF S
<1>4. Max(S) \in S
  BY <1>2, <1>3, MaxExists
<1>5. Max(S) \in Int
  BY <1>2, <1>4
<1>6. Tip(st, d) = Max(S)
  BY DEF Tip, S
<1> QED BY <1>5, <1>6

-----------------------------------------------------------------------------
(* One row *)

\* What raise_tombstone leaves alone, and that it keeps a row's types.
LEMMA RaiseTyped ==
    ASSUME NEW x \in RowState, NEW id \in Clock, NEW signer \in Clock
    PROVE  LET y == RaiseTombstone(x, id, signer) IN
           /\ y \in RowState
           /\ y.clock = x.clock /\ y.pub = x.pub /\ y.cells = x.cells
<1>1. x.tombCarriers \in [Device -> Int]
  BY DEF RowState
<1>2. /\ Stated(x.tombCarriers, signer) \in [Device -> Int]
      /\ OnlyCarrier(signer) \in [Device -> Int]
  BY <1>1, CarriersTyped
<1> QED BY <1>2 DEF RaiseTombstone, RowState

\* settle_delete: either the row keeps its write, its record and its contents,
\* or all three are gone.
LEMMA DeleteEffect ==
    ASSUME NEW x \in RowState, NEW id \in Clock, NEW signer \in Clock
    PROVE  LET y == SettleDelete(x, id, signer) IN
           /\ y \in RowState
           /\ IF Beats(x.clock, id) THEN y.clock = x.clock /\ y.pub = x.pub /\ y.cells = x.cells
              ELSE y.clock = NoClock /\ y.pub = Unpublished /\ y.cells = Absent
<1> DEFINE base == IF Beats(x.clock, id) THEN x
                   ELSE [x EXCEPT !.cells = Absent, !.clock = NoClock,
                                  !.carriers = NoCarriers, !.pub = Unpublished]
<1>1. NoCarriers \in [Device -> Int]
  BY DEF NoCarriers
<1>2. /\ base \in RowState
      /\ IF Beats(x.clock, id)
         THEN base.clock = x.clock /\ base.pub = x.pub /\ base.cells = x.cells
         ELSE base.clock = NoClock /\ base.pub = Unpublished /\ base.cells = Absent
  BY <1>1 DEF RowState
<1>3. SettleDelete(x, id, signer) = RaiseTombstone(base, id, signer)
  BY DEF SettleDelete
<1> HIDE DEF base
<1> QED BY <1>2, <1>3, RaiseTyped

\* settle_row: a write that takes the row is published as it stands; any other
\* leaves the row, its clock and its record alone.
LEMMA WriteEffect ==
    ASSUME NEW x \in RowState, NEW id \in Clock, NEW signer \in Clock,
           NEW cells \in Cells, NEW ver \in Nat
    PROVE  LET y == SettleRow(x, cells, id, signer, ver) IN
           /\ y \in RowState
           /\ IF Takes(x, id) THEN y.clock = id /\ y.pub = cells /\ y.cells = cells
              ELSE y.clock = x.clock /\ y.pub = x.pub /\ y.cells = x.cells
<1> DEFINE y == SettleRow(x, cells, id, signer, ver)
<1>1. x.carriers \in [Device -> Int]
  BY DEF RowState
<1>2. /\ Stated(x.carriers, signer) \in [Device -> Int]
      /\ OnlyCarrier(signer) \in [Device -> Int]
  BY <1>1, CarriersTyped
<1>3. CASE Takes(x, id)
  <2>1. y = [x EXCEPT !.cells = cells, !.clock = id, !.carriers = OnlyCarrier(signer),
                      !.pub = cells, !.pubVer = ver]
    BY <1>3 DEF SettleRow
  <2> QED BY <1>2, <1>3, <2>1 DEF RowState
<1>4. CASE ~Takes(x, id)
  <2>1. y = x \/ y = [x EXCEPT !.carriers = Stated(@, signer)]
    BY <1>4 DEF SettleRow
  <2> QED BY <1>2, <1>4, <2>1 DEF RowState
<1> QED BY <1>3, <1>4

\* The entry is one a store can hold: well typed, and as its signer made it.
Fits(e) == e \in Entry /\ EntryOK(e) /\ Sound(e)

\* The row holds what was published of it, or cannot be read.
Clean(x) == x.cells = Unreadable \/ x.cells = PublishedCells(x)

\* What an entry says of a row it names.
LEMMA EntryStates ==
    ASSUME NEW e, Fits(e), NEW r \in Named(e)
    PROVE  /\ r \in Row
           /\ e.items[r] \in Statement /\ e.items[r].id \in Clock
           /\ EntryId(e) \in Clock
           /\ IF Rewrites(e) THEN e.items[r].cells \in Cells ELSE e.items[r].cells = NoCells
           /\ ~StatesAhead(e) => e.items[r].id.lam <= e.lam
<1>1. r \in Row /\ e.items[r] # NoItem
  BY DEF Named
<1>2. e.items \in [Row -> Statement \cup {NoItem}] /\ e.lam \in Nat /\ e.dev \in Device
  BY DEF Fits, Entry
<1>3. e.items[r] \in Statement
  BY <1>1, <1>2
<1>4. e.items[r].id \in Clock /\ e.items[r].cells \in Cells \cup {NoCells}
  BY <1>3 DEF Statement
<1>5. EntryId(e) \in Clock
  BY <1>2 DEF EntryId, Clock
<1>6. Rewrites(e) => e.items[r].cells \in Cells
  <2>1. Rewrites(e) => e.items[r].cells \in Content
    BY DEF Fits, EntryOK
  <2>2. NoCells \notin Content
    BY MergeAssumption DEF Content, NoCells, Absent, Unreadable
  <2> QED BY <1>4, <2>1, <2>2
<1>7. ~Rewrites(e) => e.items[r].cells = NoCells
  BY DEF Fits, EntryOK
<1>8. ~StatesAhead(e) => e.items[r].id.lam <= e.lam
  <2>1. e.items[r].id.lam \in Nat
    BY <1>4 DEF Clock
  <2>2. CASE Restates(e)
    BY <1>2, <2>1, <2>2 DEF StatesAhead
  <2>3. CASE ~Restates(e)
    <3>1. e.items[r].id = EntryId(e)
      BY <2>3 DEF Fits, Sound
    <3> QED BY <1>2, <3>1 DEF EntryId
  <2> QED BY <2>2, <2>3
<1> QED BY <1>1, <1>3, <1>4, <1>5, <1>6, <1>7, <1>8

\* What settling an entry on a row it names does to the row's record: a write
\* that takes the row, or a delete, settles the record with it.
LEMMA SettleOK ==
    ASSUME NEW x \in RowState, NEW seen, Published(x, seen), NEW e, Fits(e),
           NEW r \in Named(e), NEW ver \in Nat
    PROVE  LET y == Settle(x, e, r, ver) IN
           /\ y \in RowState
           /\ Published(y, seen \cup {e.items[r]})
           /\ Clean(x) => Clean(y)
<1> DEFINE y == Settle(x, e, r, ver)
           id == e.items[r].id
           cells == e.items[r].cells
<1>1. /\ id \in Clock /\ EntryId(e) \in Clock /\ id # NoClock
      /\ IF Rewrites(e) THEN cells \in Cells ELSE cells = NoCells
      /\ e.items[r] = [id |-> id, cells |-> cells]
  <2>1. id # NoClock
    BY EntryStates DEF Clock, NoClock
  <2>2. e.items[r] \in Statement
    BY EntryStates
  <2> QED BY <2>1, <2>2, EntryStates DEF Statement
<1> HIDE DEF id, cells
<1>2. CASE Rewrites(e)
  <2>1. y = SettleRow(x, cells, id, EntryId(e), ver)
    BY <1>2 DEF Settle, id, cells
  <2>2. cells \in Cells
    BY <1>1, <1>2
  <2>3. /\ y \in RowState
        /\ IF Takes(x, id) THEN y.clock = id /\ y.pub = cells /\ y.cells = cells
           ELSE y.clock = x.clock /\ y.pub = x.pub /\ y.cells = x.cells
    BY <1>1, <2>1, <2>2, WriteEffect
  <2> HIDE DEF y
  <2>4. Published(y, seen \cup {e.items[r]})
    BY <1>1, <2>3 DEF Published
  <2>5. cells # Unpublished
    BY <2>2, MergeAssumption
  <2>6. Clean(x) => Clean(y)
    BY <2>3, <2>5 DEF Clean, PublishedCells
  <2> QED BY <2>3, <2>4, <2>6 DEF y
<1>3. CASE ~Rewrites(e)
  <2>1. y = SettleDelete(x, id, EntryId(e))
    BY <1>3 DEF Settle, id, cells
  <2>3. /\ y \in RowState
        /\ IF Beats(x.clock, id) THEN y.clock = x.clock /\ y.pub = x.pub /\ y.cells = x.cells
           ELSE y.clock = NoClock /\ y.pub = Unpublished /\ y.cells = Absent
    BY <1>1, <2>1, DeleteEffect
  <2> HIDE DEF y
  <2>4. Published(y, seen \cup {e.items[r]})
    BY <2>3 DEF Published
  <2>6. Clean(x) => Clean(y)
    BY <2>3 DEF Clean, PublishedCells
  <2> QED BY <2>3, <2>4, <2>6 DEF y
<1> QED BY <1>2, <1>3

-----------------------------------------------------------------------------
(* One store *)

\* The two stores differ in their rows, their history, what waits for a
\* replay and what is left to re-adopt only.
SameLog(st, su) ==
    /\ st.accepted = su.accepted /\ st.ver = su.ver
    /\ st.floor = su.floor /\ st.owed = su.owed /\ st.epoch = su.epoch

\* Every write of su's log and history is one of st's.
Draws(su, st) == \A r \in Row : Claims(su, r) \subseteq Claims(st, r)

StaysClean(st, su) == \A r \in Row : Clean(st.rows[r]) => Clean(su.rows[r])

\* An entry of the log fits it.
LEMMA AcceptedFits ==
    ASSUME NEW st, StoreInv(st), StoreOK(st), NEW e \in st.accepted
    PROVE  Fits(e)
  BY DEF StoreInv, StoreOK, Typed, EntriesOK, Fits

\* apply_row_op_on_stream: the rows that take part are settled, the others
\* and the log are left alone, and nothing is said that the log did not say.
LEMMA ProjectedOK ==
    ASSUME NEW st, StoreInv(st), StoreOK(st), NEW e \in st.accepted,
           NEW part \in SUBSET Named(e), ~VersionGap(e, st.ver)
    PROVE  LET y == Projected(st, e, part) IN
           /\ StoreOK(y) /\ SameLog(y, st) /\ Draws(y, st) /\ StaysClean(st, y)
           /\ y.gap = st.gap /\ y.deferred = st.deferred /\ y.work = st.work
           /\ \A r \in Row : y.rows[r] =
                IF r \in part /\ ~StatesAhead(e) THEN Settle(st.rows[r], e, r, st.ver)
                ELSE st.rows[r]
<1> DEFINE rows == Apply(st.rows, e, part, st.ver)
           seen == [r \in Row |-> st.seen[r] \cup
                      (IF r \in part /\ ~StatesAhead(e) THEN {e.items[r]} ELSE {})]
           y == Projected(st, e, part)
<1>1. y = [st EXCEPT !.rows = rows, !.seen = seen]
  BY DEF Projected
<1>2. Fits(e)
  BY AcceptedFits
<1>3. /\ st.rows \in [Row -> RowState] /\ st.ver \in Nat
      /\ st.seen \in [Row -> SUBSET Statement]
      /\ st.rows = [r \in Row |-> st.rows[r]]
  BY RowsAssumption DEF StoreOK, Typed
<1>4. \A r \in Row : rows[r] =
         IF r \in part /\ ~StatesAhead(e) THEN Settle(st.rows[r], e, r, st.ver) ELSE st.rows[r]
  BY <1>3 DEF Apply
<1>5. rows = [r \in Row |-> rows[r]]
  BY <1>3 DEF Apply
<1>6. seen = [r \in Row |-> seen[r]]
  OBVIOUS
<1>7. \A r \in Row : seen[r] = IF r \in part /\ ~StatesAhead(e) THEN st.seen[r] \cup {e.items[r]}
                               ELSE st.seen[r]
  OBVIOUS
<1> HIDE DEF rows, seen
<1>8. ASSUME NEW r \in Row
      PROVE  /\ rows[r] \in RowState
             /\ Published(rows[r], seen[r])
             /\ Clean(st.rows[r]) => Clean(rows[r])
             /\ seen[r] \in SUBSET Statement
             /\ \A s \in seen[r] : Knows(st, s.id)
             /\ \A s \in seen[r] : s \in st.seen[r] \/ (r \in Named(e) /\ s = e.items[r])
  <2>1. /\ st.rows[r] \in RowState /\ st.seen[r] \subseteq Statement
        /\ Published(st.rows[r], st.seen[r])
        /\ \A s \in st.seen[r] : Knows(st, s.id)
    BY <1>3 DEF StoreOK
  <2>2. CASE r \in part /\ ~StatesAhead(e)
    <3>1. r \in Named(e)
      BY <2>2
    <3>2. rows[r] = Settle(st.rows[r], e, r, st.ver) /\ seen[r] = st.seen[r] \cup {e.items[r]}
      BY <1>4, <1>7, <2>2
    <3>3. e.items[r] \in Statement /\ e.items[r].id.lam <= e.lam
      BY <1>2, <2>2, <3>1, EntryStates
    <3>4. Knows(st, e.items[r].id)
      BY <3>3 DEF Knows
    <3>5. /\ Settle(st.rows[r], e, r, st.ver) \in RowState
          /\ Published(Settle(st.rows[r], e, r, st.ver), st.seen[r] \cup {e.items[r]})
          /\ Clean(st.rows[r]) => Clean(Settle(st.rows[r], e, r, st.ver))
      <4>1. st.ver \in Nat /\ st.rows[r] \in RowState /\ Published(st.rows[r], st.seen[r])
        BY <1>3, <2>1
      <4> QED BY <1>2, <3>1, <4>1, SettleOK
    <3>6. /\ rows[r] \in RowState
          /\ Published(rows[r], seen[r])
          /\ Clean(st.rows[r]) => Clean(rows[r])
      BY <3>2, <3>5
    <3> QED BY <2>1, <3>1, <3>2, <3>3, <3>4, <3>6
  <2>3. CASE ~(r \in part /\ ~StatesAhead(e))
    <3>1. rows[r] = st.rows[r] /\ seen[r] = st.seen[r]
      BY <1>4, <1>7, <2>3
    <3> QED BY <2>1, <3>1
  <2> QED BY <2>2, <2>3
<1>9. rows \in [Row -> RowState] /\ seen \in [Row -> SUBSET Statement]
  BY <1>5, <1>6, <1>8
<1> HIDE DEF y
<1>10. /\ y.rows = rows /\ y.seen = seen /\ y.ver = st.ver /\ y.work = st.work
       /\ y.accepted = st.accepted /\ y.gap = st.gap /\ y.deferred = st.deferred
       /\ y.floor = st.floor /\ y.owed = st.owed /\ y.epoch = st.epoch
  BY <1>1 DEF StoreInv, Shaped
<1>11. Typed(y)
  BY <1>9, <1>10 DEF StoreOK, Typed
<1>12. \A s : Knows(st, s) <=> Knows(y, s)
  BY <1>10 DEF Knows
<1>13. StoreOK(y)
  BY <1>8, <1>10, <1>11, <1>12 DEF StoreOK
<1>14. Draws(y, st)
  BY <1>8, <1>10 DEF Draws, Claims
<1>15. SameLog(y, st) /\ StaysClean(st, y)
  BY <1>8, <1>10 DEF SameLog, StaysClean
<1> QED BY <1>4, <1>10, <1>13, <1>14, <1>15 DEF y

\* Evaluating an entry of the log (pre_apply and what follows).
LEMMA EvaluatedOK ==
    ASSUME NEW st, StoreInv(st), StoreOK(st), NEW e \in st.accepted,
           NEW dev, NEW live \in BOOLEAN
    PROVE  LET y == Evaluated(st, e, dev, live) IN
           StoreOK(y) /\ SameLog(y, st) /\ Draws(y, st) /\ StaysClean(st, y)
<1> DEFINE part == IF Restates(e) THEN Named(e) \ Blocked(st, e) ELSE {}
           now == Projected(st, e, part)
           all == Projected(st, e, Named(e))
           y == Evaluated(st, e, dev, live)
<1>1. CASE VersionGap(e, st.ver)
  <2>1. y = [st EXCEPT !.gap = @ \cup {e}, !.deferred = @ \ {e}]
    BY <1>1 DEF Evaluated
  <2> HIDE DEF y
  <2>2. /\ SameLog(y, st) /\ y.rows = st.rows /\ y.seen = st.seen /\ y.work = st.work
        /\ y.gap = st.gap \cup {e} /\ y.deferred = st.deferred \ {e}
    BY <2>1 DEF StoreInv, Shaped, SameLog
  <2>3. StoreOK(y)
    BY <2>2 DEF StoreOK, Typed, SameLog, Knows
  <2>4. Draws(y, st) /\ StaysClean(st, y)
    BY <2>2 DEF Draws, Claims, StaysClean, SameLog
  <2> QED BY <2>2, <2>3, <2>4 DEF y
<1>2. CASE ~VersionGap(e, st.ver) /\ Defers(st, e, dev, live)
  <2>1. y = [now EXCEPT !.deferred = @ \cup {e}, !.gap = @ \ {e}]
    BY <1>2 DEF Evaluated
  <2>2. part \in SUBSET Named(e)
    OBVIOUS
  <2> HIDE DEF part, y
  <2>3. /\ StoreOK(now) /\ SameLog(now, st) /\ Draws(now, st) /\ StaysClean(st, now)
        /\ now.gap = st.gap /\ now.deferred = st.deferred
    BY <1>2, <2>2, ProjectedOK
  <2>4. StoreInv(now)
    BY <1>2, <2>2, ProjectedKeeps DEF StoreInv, EntriesOK
  <2> HIDE DEF now
  <2>5. /\ SameLog(y, now) /\ y.rows = now.rows /\ y.seen = now.seen /\ y.work = now.work
        /\ y.gap = now.gap \ {e} /\ y.deferred = now.deferred \cup {e}
    BY <2>1, <2>4 DEF StoreInv, Shaped, SameLog
  <2>6. StoreOK(y)
    BY <2>3, <2>5 DEF StoreOK, Typed, SameLog, Knows
  <2>7. Draws(y, st) /\ StaysClean(st, y) /\ SameLog(y, st)
    BY <2>3, <2>5 DEF Draws, Claims, StaysClean, SameLog
  <2> QED BY <2>6, <2>7 DEF y
<1>3. CASE ~VersionGap(e, st.ver) /\ ~Defers(st, e, dev, live)
  <2>1. y = [all EXCEPT !.deferred = @ \ {e}, !.gap = @ \ {e}]
    BY <1>3 DEF Evaluated
  <2> HIDE DEF y
  <2>3. /\ StoreOK(all) /\ SameLog(all, st) /\ Draws(all, st) /\ StaysClean(st, all)
        /\ all.gap = st.gap /\ all.deferred = st.deferred
    BY <1>3, ProjectedOK
  <2>4. StoreInv(all)
    BY <1>3, ProjectedKeeps DEF StoreInv, EntriesOK
  <2> HIDE DEF all
  <2>5. /\ SameLog(y, all) /\ y.rows = all.rows /\ y.seen = all.seen /\ y.work = all.work
        /\ y.gap = all.gap \ {e} /\ y.deferred = all.deferred \ {e}
    BY <2>1, <2>4 DEF StoreInv, Shaped, SameLog
  <2>6. StoreOK(y)
    BY <2>3, <2>5 DEF StoreOK, Typed, SameLog, Knows
  <2>7. Draws(y, st) /\ StaysClean(st, y) /\ SameLog(y, st)
    BY <2>3, <2>5 DEF Draws, Claims, StaysClean, SameLog
  <2> QED BY <2>6, <2>7 DEF y
<1> QED BY <1>1, <1>2, <1>3

\* Accepting an entry of a peer's log, from its floor or in sequence.
LEMMA RootedOK ==
    ASSUME NEW st, StoreInv(st), StoreOK(st), NEW from, StoreInv(from), StoreOK(from),
           NEW e \in from.accepted
    PROVE  LET y == Rooted(st, e, from) IN
           /\ StoreInv(y) /\ StoreOK(y)
           /\ y.accepted = st.accepted \cup {e} /\ y.rows = st.rows
           /\ \A r \in Row : Claims(y, r) \subseteq Claims(st, r) \cup Claims(from, r)
<1> DEFINE reroots == Tip(st, e.dev) < from.floor[e.dev]
           owed == IF reroots THEN PromisedTip(from, e.dev) ELSE st.owed[e.dev]
           y == Rooted(st, e, from)
           floor1 == IF reroots THEN e.lam ELSE st.floor[e.dev]
           owed1 == IF e.lam >= owed THEN -1 ELSE owed
<1>1. Fits(e)
  BY AcceptedFits
<1>2. e.dev \in Device /\ e.lam \in Nat /\ e \in Entry
  BY <1>1 DEF Fits, Entry
<1>3. y = [st EXCEPT !.accepted = @ \cup {e}, !.floor[e.dev] = floor1, !.owed[e.dev] = owed1]
  BY DEF Rooted
<1>4. /\ st.owed \in [Device -> Int] /\ from.owed \in [Device -> Int]
      /\ st.floor \in [Device -> Int]
  BY DEF StoreOK, Typed
<1>5. PromisedTip(from, e.dev) \in Int
  BY <1>2, <1>4, TipTyped DEF PromisedTip
<1>6. floor1 \in Int /\ owed1 \in Int
  BY <1>2, <1>4, <1>5
<1> HIDE DEF y, floor1, owed1, owed, reroots
<1>7. /\ Shaped(y) /\ y.accepted = st.accepted \cup {e} /\ y.rows = st.rows /\ y.seen = st.seen
      /\ y.gap = st.gap /\ y.deferred = st.deferred /\ y.ver = st.ver
      /\ y.epoch = st.epoch /\ y.work = st.work
      /\ y.floor = [st.floor EXCEPT ![e.dev] = floor1]
      /\ y.owed = [st.owed EXCEPT ![e.dev] = owed1]
  BY <1>3 DEF StoreInv, Shaped
<1>8. Typed(y)
  BY <1>2, <1>4, <1>6, <1>7 DEF StoreOK, Typed
<1>9. StoreOK(y)
  <2>1. \A id : Knows(st, id) => Knows(y, id)
    BY <1>7 DEF Knows
  <2> QED BY <1>1, <1>7, <1>8, <2>1 DEF StoreOK, Fits
<1>10. StoreInv(y)
  BY <1>1, <1>7 DEF StoreInv, EntriesOK, Fits
<1>11. \A r \in Row : Claims(y, r) \subseteq Claims(st, r) \cup Claims(from, r)
  BY <1>7 DEF Claims
<1> QED BY <1>7, <1>9, <1>10, <1>11 DEF y

\* Signing an entry and applying it to the own rows.
LEMMA AuthoredOK ==
    ASSUME NEW st, StoreInv(st), StoreOK(st), NEW id, NEW kind, NEW items,
           Fits([dev |-> id.dev, lam |-> id.lam, kind |-> kind, ver |-> st.ver, items |-> items])
    PROVE  LET y == Authored(st, id, kind, items)
               e == [dev |-> id.dev, lam |-> id.lam, kind |-> kind, ver |-> st.ver,
                     items |-> items]
           IN  /\ StoreOK(y) /\ StaysClean(st, y)
               /\ y.accepted = st.accepted \cup {e}
               /\ y.owed = st.owed /\ y.work = st.work
               /\ \A r \in Row : \A s \in Claims(y, r) :
                     s \in Claims(st, r) \/ (r \in Named(e) /\ s = e.items[r])
               /\ \A r \in Row : y.rows[r] =
                     IF r \in Named(e) /\ ~StatesAhead(e) THEN Settle(st.rows[r], e, r, st.ver)
                     ELSE st.rows[r]
<1> DEFINE e == [dev |-> id.dev, lam |-> id.lam, kind |-> kind, ver |-> st.ver, items |-> items]
           base == [st EXCEPT !.accepted = @ \cup {e}]
           y == Authored(st, id, kind, items)
<1>1. y = Projected(base, e, Named(e))
  BY DEF Authored
<1>2. Fits(e) /\ e.ver = st.ver
  OBVIOUS
<1> HIDE DEF e
<1>3. /\ Shaped(base) /\ base.accepted = st.accepted \cup {e} /\ base.rows = st.rows
      /\ base.seen = st.seen /\ base.gap = st.gap /\ base.deferred = st.deferred
      /\ base.ver = st.ver /\ base.epoch = st.epoch /\ base.work = st.work
      /\ base.floor = st.floor /\ base.owed = st.owed
  BY DEF StoreInv, Shaped
<1> HIDE DEF base, y
<1>4. StoreInv(base)
  BY <1>2, <1>3 DEF StoreInv, EntriesOK, Fits
<1>5. StoreOK(base)
  <2>1. \A s : Knows(st, s) => Knows(base, s)
    BY <1>3 DEF Knows
  <2>2. Typed(base)
    BY <1>2, <1>3 DEF StoreOK, Typed, Fits
  <2> QED BY <1>2, <1>3, <2>1, <2>2 DEF StoreOK, Fits
<1>6. ~VersionGap(e, base.ver) /\ e \in base.accepted
  <2>1. st.ver \in Nat
    BY RowsAssumption DEF StoreOK, Typed
  <2> QED BY <1>2, <1>3, <2>1 DEF VersionGap
<1>7. /\ StoreOK(y) /\ SameLog(y, base) /\ Draws(y, base) /\ StaysClean(base, y)
      /\ y.work = base.work
      /\ \A r \in Row : y.rows[r] =
           IF r \in Named(e) /\ ~StatesAhead(e) THEN Settle(base.rows[r], e, r, base.ver)
           ELSE base.rows[r]
  BY <1>1, <1>4, <1>5, <1>6, ProjectedOK
<1>8. \A r \in Row : \A s \in Claims(base, r) :
        s \in Claims(st, r) \/ (r \in Named(e) /\ s = e.items[r])
  BY <1>3 DEF Claims
<1>9. \A r \in Row : \A s \in Claims(y, r) :
        s \in Claims(st, r) \/ (r \in Named(e) /\ s = e.items[r])
  BY <1>7, <1>8 DEF Draws
<1>10. StaysClean(st, y)
  BY <1>3, <1>7 DEF StaysClean
<1> QED BY <1>3, <1>7, <1>9, <1>10 DEF y, e, SameLog

\* No two writes of the store with one name differ.
OneName(st) ==
    \A r \in Row : \A s, t \in Claims(st, r) : s.id = t.id => s.cells = t.cells

\* A row's record, when it has one, is a write of the store's history.
LEMMA RecordIsClaim ==
    ASSUME NEW st, StoreOK(st), NEW r \in Row, st.rows[r].pub # Unpublished
    PROVE  /\ st.rows[r].clock # NoClock /\ st.rows[r].pub \in Cells
           /\ [id |-> st.rows[r].clock, cells |-> st.rows[r].pub] \in Claims(st, r)
<1> DEFINE s == [id |-> st.rows[r].clock, cells |-> st.rows[r].pub]
<1>1. Published(st.rows[r], st.seen[r])
  BY DEF StoreOK
<1>2. st.rows[r].clock # NoClock /\ s \in st.seen[r]
  BY <1>1 DEF Published
<1>3. st.rows[r].pub \in Cells
  BY DEF StoreOK, Typed, RowState
<1>4. s.cells # NoCells
  BY <1>3, MergeAssumption
<1> QED BY <1>2, <1>3, <1>4 DEF Claims

\* The after-image of the write the clock names is what was published.
LEMMA WinnerIsRecord ==
    ASSUME NEW st, StoreInv(st), StoreOK(st), OneName(st), NEW r \in Row,
           st.rows[r].pub # Unpublished, NEW c \in WinningCells(st, r)
    PROVE  c = st.rows[r].pub
<1>1. PICK x \in st.accepted : /\ Rewrites(x) /\ x.items[r].id = st.rows[r].clock
                               /\ c = x.items[r].cells
  BY DEF WinningCells
<1>2. /\ st.rows[r].clock # NoClock
      /\ [id |-> st.rows[r].clock, cells |-> st.rows[r].pub] \in Claims(st, r)
  BY RecordIsClaim
<1>3. r \in Named(x)
  BY <1>1, <1>2 DEF Named, NoItem
<1>4. x.items[r].cells \in Cells
  BY <1>1, <1>3, AcceptedFits, EntryStates
<1>5. x.items[r] \in Claims(st, r)
  BY <1>3, <1>4, MergeAssumption DEF Claims
<1> QED BY <1>1, <1>2, <1>5 DEF OneName

\* A row with unsent work is one the scan of the producer finds.
LEMMA UnsentIsOwed ==
    ASSUME NEW st, StoreInv(st), StoreOK(st), OneName(st), NEW r \in Row, Dirty(st, r)
    PROVE  OwesUpsert(st, r) \/ LocallyDeleted(st, r)
<1> DEFINE x == st.rows[r]
<1>1. /\ x.cells \in Cells \cup {Absent} /\ x.cells # PublishedCells(x)
  BY DEF Dirty, StoreOK, Typed, RowState
<1>2. CASE x.cells = Absent
  BY <1>1, <1>2 DEF LocallyDeleted, PublishedCells
<1>3. CASE x.cells \in Cells /\ x.pub = Unpublished
  BY <1>3 DEF OwesUpsert, LocallyChanged
<1>4. CASE x.cells \in Cells /\ x.pub # Unpublished
  <2>1. x.pub # x.cells
    BY <1>1, <1>4 DEF PublishedCells
  <2>2. x.cells \notin WinningCells(st, r)
    BY <1>4, <2>1, WinnerIsRecord
  <2> QED BY <1>4, <2>1, <2>2 DEF OwesUpsert, LocallyChanged, UnresolvedWinner
<1> QED BY <1>1, <1>2, <1>3, <1>4

\* The scan's restamping changes no contents: it puts a record under the
\* current version.
LEMMA RestampedOK ==
    ASSUME NEW st, StoreInv(st), StoreOK(st), OneName(st)
    PROVE  LET y == Restamped(st) IN
           /\ StoreOK(y) /\ SameLog(y, st) /\ Draws(y, st)
           /\ y.work = st.work
           /\ \A r \in Row : y.rows[r].cells = st.rows[r].cells /\ y.rows[r].pub = st.rows[r].pub
<1> DEFINE rows == [r \in Row |->
               IF Stale(st, r) /\ st.rows[r].cells \in WinningCells(st, r)
               THEN [st.rows[r] EXCEPT !.pub = st.rows[r].cells, !.pubVer = st.ver]
               ELSE st.rows[r]]
           y == Restamped(st)
<1>1. y = [st EXCEPT !.rows = rows]
  BY DEF Restamped
<1>2. ASSUME NEW r \in Row
      PROVE  /\ rows[r] \in RowState /\ rows[r].clock = st.rows[r].clock
             /\ rows[r].pub = st.rows[r].pub /\ rows[r].cells = st.rows[r].cells
  <2>1. st.rows[r] \in RowState /\ st.ver \in Nat
    BY RowsAssumption DEF StoreOK, Typed
  <2>2. CASE Stale(st, r) /\ st.rows[r].cells \in WinningCells(st, r)
    <3>1. st.rows[r].pub # Unpublished
      BY <2>2 DEF Stale
    <3>2. st.rows[r].cells = st.rows[r].pub
      BY <2>2, <3>1, WinnerIsRecord
    <3>3. rows[r] = [st.rows[r] EXCEPT !.pub = st.rows[r].cells, !.pubVer = st.ver]
      BY <2>2
    <3> HIDE DEF rows
    <3> QED BY <2>1, <3>2, <3>3 DEF RowState
  <2>3. CASE ~(Stale(st, r) /\ st.rows[r].cells \in WinningCells(st, r))
    <3>1. rows[r] = st.rows[r]
      BY <2>3
    <3> QED BY <2>1, <3>1
  <2> QED BY <2>2, <2>3
<1>3. rows = [r \in Row |-> rows[r]]
  OBVIOUS
<1> HIDE DEF rows, y
<1>4. /\ y.rows = rows /\ y.seen = st.seen /\ y.work = st.work /\ y.gap = st.gap
      /\ y.deferred = st.deferred /\ SameLog(y, st)
  BY <1>1 DEF StoreInv, Shaped, SameLog
<1>5. rows \in [Row -> RowState]
  BY <1>2, <1>3
<1>6. Typed(y)
  BY <1>4, <1>5 DEF StoreOK, Typed, SameLog
<1>7. \A id : Knows(y, id) <=> Knows(st, id)
  BY <1>4 DEF Knows, SameLog
<1>8. \A r \in Row : Published(y.rows[r], y.seen[r])
  BY <1>2, <1>4 DEF StoreOK, Published
<1>9. StoreOK(y)
  BY <1>4, <1>6, <1>7, <1>8 DEF StoreOK, SameLog
<1>10. Draws(y, st)
  BY <1>4 DEF Draws, Claims, SameLog
<1> QED BY <1>2, <1>4, <1>9, <1>10 DEF y

\* compact_chain_prefix: a chain's new floor is an entry of it, so the log
\* reaches as far as before.
LEMMA CompactedOK ==
    ASSUME NEW st, StoreInv(st), StoreOK(st), NEW d, NEW before,
           \A c \in Device : Compacted(st, d, before).floor[c] # st.floor[c] =>
               Compacted(st, d, before).floor[c] \in Lams(Chain(st, c))
    PROVE  LET y == Compacted(st, d, before) IN
           /\ StoreOK(y) /\ Draws(y, st)
           /\ \A id \in Clock : Knows(st, id) => Knows(y, id)
<1> DEFINE y == Compacted(st, d, before)
<1>1. PICK floor :
        /\ floor = [c \in Device |-> floor[c]]
        /\ y = [st EXCEPT !.floor = floor,
                          !.accepted = {x \in @ : \/ floor[x.dev] = st.floor[x.dev]
                                                  \/ x.lam >= floor[x.dev]
                                                  \/ x \in Pending(st)}]
  <2> DEFINE f == [c \in Device |->
                    IF c = d THEN FloorBelow(st, d, Target(before, d)) ELSE FloorOf(st, c)]
  <2>1. y = [st EXCEPT !.floor = f,
                       !.accepted = {x \in @ : \/ f[x.dev] = st.floor[x.dev]
                                               \/ x.lam >= f[x.dev]
                                               \/ x \in Pending(st)}]
    BY DEF Compacted
  <2>2. f = [c \in Device |-> f[c]]
    OBVIOUS
  <2> HIDE DEF f, y
  <2> QED BY <2>1, <2>2
<1>2. \A c \in Device : y.floor[c] # st.floor[c] => y.floor[c] \in Lams(Chain(st, c))
  OBVIOUS
<1> HIDE DEF y
<1>3. /\ y.rows = st.rows /\ y.seen = st.seen /\ y.work = st.work /\ y.gap = st.gap
      /\ y.deferred = st.deferred /\ y.owed = st.owed /\ y.epoch = st.epoch
      /\ y.ver = st.ver /\ y.floor = floor
      /\ y.accepted = {x \in st.accepted : \/ floor[x.dev] = st.floor[x.dev]
                                           \/ x.lam >= floor[x.dev]
                                           \/ x \in Pending(st)}
  BY <1>1 DEF StoreInv, Shaped
<1>4. \A x \in st.accepted : x.dev \in Device /\ x.lam \in Nat
  BY DEF StoreOK, Typed, Entry
<1>5. floor \in [Device -> Int]
  <2>1. ASSUME NEW c \in Device
        PROVE  floor[c] \in Int
    <3>1. st.floor[c] \in Int
      BY DEF StoreOK, Typed
    <3>2. floor[c] # st.floor[c] => floor[c] \in Lams(Chain(st, c))
      BY <1>2, <1>3
    <3> QED BY <1>4, <3>1, <3>2 DEF Lams, Chain
  <2> QED BY <1>1, <2>1
<1>6. ASSUME NEW id \in Clock, Knows(st, id)
      PROVE  Knows(y, id)
  <2>1. PICK x \in st.accepted : id.lam <= x.lam
    BY <1>6 DEF Knows
  <2>2. CASE x \in y.accepted
    BY <2>1, <2>2 DEF Knows
  <2>3. CASE x \notin y.accepted
    <3>1. floor[x.dev] # st.floor[x.dev] /\ ~(x.lam >= floor[x.dev])
      BY <1>3, <2>3
    <3>2. floor[x.dev] \in Lams(Chain(st, x.dev))
      BY <1>2, <1>3, <1>4, <3>1
    <3>3. PICK z \in st.accepted : z.dev = x.dev /\ z.lam = floor[x.dev]
      BY <3>2 DEF Lams, Chain
    <3>4. z.lam \in Nat /\ x.lam \in Nat
      BY <1>4
    <3>5. z.lam >= floor[z.dev]
      BY <3>3, <3>4
    <3>6. z \in y.accepted
      BY <1>3, <3>5
    <3>7. id.lam \in Nat
      BY DEF Clock
    <3>8. id.lam <= z.lam
      BY <2>1, <3>1, <3>3, <3>4, <3>7
    <3> QED BY <3>6, <3>8 DEF Knows
  <2> QED BY <2>2, <2>3
<1>7. Typed(y)
  <2>1. st.gap \cup st.deferred \subseteq y.accepted
    BY <1>3 DEF StoreOK, Typed, Pending
  <2> QED BY <1>3, <1>5, <2>1 DEF StoreOK, Typed
<1>8. \A r \in Row : \A s \in y.seen[r] : Knows(y, s.id)
  <2>1. \A r \in Row : \A s \in y.seen[r] : s.id \in Clock /\ Knows(st, s.id)
    BY <1>3 DEF StoreOK, Typed, Statement
  <2> QED BY <1>6, <2>1
<1>9. StoreOK(y)
  BY <1>3, <1>7, <1>8 DEF StoreOK
<1>10. Draws(y, st)
  BY <1>3 DEF Draws, Claims
<1> QED BY <1>6, <1>9, <1>10 DEF y

-----------------------------------------------------------------------------
(* All stores *)

\* The stores the properties speak of.
LEMMA StatesAre ==
    /\ \A d \in Device : store[d] \in States
    /\ tx # NoTx => tx.st \in States
    /\ \A st \in States : (\E d \in Device : st = store[d]) \/ (tx # NoTx /\ st = tx.st)
  BY DEF States

\* The same of the next state.
LEMMA StatesAreNext ==
    \A st \in States' : (\E d \in Device : st = store'[d]) \/ (tx' # NoTx /\ st = tx'.st)
  BY DEF States

\* Writes agree as long as no new one is made.
LEMMA AgreedStays ==
    ASSUME Agreed,
           \A su \in States', r \in Row : \A s \in Claims(su, r) :
               \E st \in States : s \in Claims(st, r)
    PROVE  Agreed'
  BY DEF Agreed

\* In every store the writes of one name agree.
LEMMA OneNameHolds ==
    ASSUME Agreed, NEW st \in States
    PROVE  OneName(st)
  BY DEF Agreed, OneName

\* A claim is a named write.
LEMMA ClaimTyped ==
    ASSUME NEW st, StoreInv(st), StoreOK(st), NEW r \in Row, NEW s \in Claims(st, r)
    PROVE  s \in Statement /\ s.id \in Clock /\ s.id.dev \in Device /\ s.cells \in Cells
<1>1. s \in Statement
  <2>1. CASE s \in st.seen[r]
    BY <2>1 DEF StoreOK, Typed
  <2>2. CASE \E x \in st.accepted : r \in Named(x) /\ s = x.items[r]
    BY <2>2, AcceptedFits, EntryStates
  <2> QED BY <2>1, <2>2 DEF Claims
<1>2. s.cells # NoCells
  BY DEF Claims
<1> QED BY <1>1, <1>2 DEF Statement, Clock

\* A step that changes one committed store, outside any transaction, with
\* what it held itself and what a peer p holds.
LEMMA StoreStep ==
    ASSUME IInv, PInv, tx = NoTx, tx' = NoTx, NEW d \in Device, NEW p \in Device, NEW su,
           store' = [store EXCEPT ![d] = su], StoreOK(su),
           store[d].accepted \subseteq su.accepted,
           \A r \in Row : Claims(su, r) \subseteq Claims(store[d], r) \cup Claims(store[p], r),
           edits' \in 0..MaxEdits
    PROVE  PInv'
<1>1. /\ \A c \in Device : StoreInv(store[c]) /\ StoreOK(store[c])
      /\ \A c \in Device : store'[c] = IF c = d THEN su ELSE store[c]
  BY DEF IInv, PInv
<1>2. \A c \in Device : StoreOK(store'[c])
  BY <1>1
<1>3. \A c \in Device, r \in Row : \A s \in Claims(store'[c], r) :
         \E b \in Device : s \in Claims(store[b], r)
  BY <1>1
<1>4. Agreed'
  <2>1. \A st \in States' : \E c \in Device : st = store'[c]
    BY StatesAreNext
  <2>2. \A c \in Device : store[c] \in States
    BY StatesAre
  <2> QED BY <1>3, <2>1, <2>2, AgreedStays DEF PInv
<1>5. Owned'
  <2> SUFFICES ASSUME NEW c \in Device, NEW r \in Row, NEW s \in Claims(store'[c], r)
               PROVE  Knows(store'[s.id.dev], s.id)
    BY DEF Owned
  <2>1. PICK b \in Device : s \in Claims(store[b], r)
    BY <1>3
  <2>2. Knows(store[s.id.dev], s.id)
    BY <2>1 DEF PInv, Owned
  <2>3. s.id.dev \in Device
    BY <1>1, <2>1, ClaimTyped
  <2> QED BY <1>1, <2>2, <2>3 DEF Knows
<1> QED BY <1>2, <1>4, <1>5 DEF PInv

\* A transaction begins on the log of its store.
LEMMA BeginStep ==
    ASSUME IInv, PInv, tx = NoTx, NEW t, tx' = t, t # NoTx, TxOK(t), t.dev \in Device,
           t.st.accepted = store[t.dev].accepted, Draws(t.st, store[t.dev]),
           store' = store, edits' = edits
    PROVE  PInv'
<1>1. Agreed'
  <2>1. \A st \in States' : (\E c \in Device : st = store[c]) \/ st = t.st
    BY StatesAreNext
  <2>2. \A c \in Device : store[c] \in States
    BY StatesAre
  <2>3. \A su \in States', r \in Row : \A s \in Claims(su, r) :
           \E c \in Device : s \in Claims(store[c], r)
    BY <2>1 DEF Draws
  <2> QED BY <2>2, <2>3, AgreedStays DEF PInv
<1>2. Owned'
  <2>1. ASSUME NEW r \in Row, NEW s \in Claims(t.st, r)
        PROVE  Knows(IF s.id.dev = t.dev THEN t.st ELSE store[s.id.dev], s.id)
    <3>1. s \in Claims(store[t.dev], r)
      BY DEF Draws
    <3>2. Knows(store[s.id.dev], s.id)
      BY <3>1 DEF PInv, Owned
    <3> QED BY <3>2 DEF Knows
  <2> QED BY <2>1 DEF PInv, Owned
<1> QED BY <1>1, <1>2 DEF PInv

\* A transaction goes on without signing.
LEMMA TxStep ==
    ASSUME IInv, PInv, tx # NoTx, NEW t, tx' = t, t # NoTx, TxOK(t), t.dev = tx.dev,
           t.st.accepted = tx.st.accepted, Draws(t.st, tx.st),
           store' = store, edits' = edits
    PROVE  PInv'
<1>1. Agreed'
  <2>1. \A st \in States' : (\E c \in Device : st = store[c]) \/ st = t.st
    BY StatesAreNext
  <2>2. tx.st \in States /\ \A c \in Device : store[c] \in States
    BY StatesAre
  <2>3. \A su \in States', r \in Row : \A s \in Claims(su, r) :
           \E st \in States : s \in Claims(st, r)
    BY <2>1, <2>2 DEF Draws
  <2> QED BY <2>3, AgreedStays DEF PInv
<1>2. Owned'
  <2>1. ASSUME NEW r \in Row, NEW s \in Claims(t.st, r)
        PROVE  Knows(IF s.id.dev = t.dev THEN t.st ELSE store[s.id.dev], s.id)
    <3>1. s \in Claims(tx.st, r)
      BY DEF Draws
    <3>2. Knows(IF s.id.dev = tx.dev THEN tx.st ELSE store[s.id.dev], s.id)
      BY <3>1 DEF PInv, Owned
    <3> QED BY <3>2 DEF Knows
  <2> QED BY <2>1 DEF PInv, Owned
<1> QED BY <1>1, <1>2 DEF PInv

\* A transaction ends in the store su: what it held, as far as it reached.
LEMMA EndStep ==
    ASSUME IInv, PInv, tx # NoTx, tx' = NoTx, NEW su, store' = [store EXCEPT ![tx.dev] = su],
           StoreOK(su), Draws(su, tx.st),
           \A id \in Clock : Knows(tx.st, id) => Knows(su, id), edits' = edits
    PROVE  PInv'
<1>1. /\ tx.dev \in Device /\ StoreInv(tx.st) /\ StoreOK(tx.st)
      /\ \A c \in Device : StoreInv(store[c]) /\ StoreOK(store[c])
      /\ \A c \in Device : store'[c] = IF c = tx.dev THEN su ELSE store[c]
  BY DEF IInv, PInv, TxInv, TxOK
<1>2. \A c \in Device : StoreOK(store'[c])
  BY <1>1
<1>3. Agreed'
  <2>1. \A st \in States' : \E c \in Device : st = store'[c]
    BY StatesAreNext
  <2>2. tx.st \in States /\ \A c \in Device : store[c] \in States
    BY StatesAre
  <2>3. \A s2 \in States', r \in Row : \A s \in Claims(s2, r) :
           \E st \in States : s \in Claims(st, r)
    BY <1>1, <2>1, <2>2 DEF Draws
  <2> QED BY <2>3, AgreedStays DEF PInv
<1>4. Owned'
  <2> SUFFICES ASSUME NEW c \in Device, NEW r \in Row, NEW s \in Claims(store'[c], r)
               PROVE  Knows(store'[s.id.dev], s.id)
    BY DEF Owned
  <2>1. CASE c = tx.dev
    <3>1. s \in Claims(tx.st, r)
      BY <1>1, <2>1 DEF Draws
    <3>2. s.id \in Clock /\ s.id.dev \in Device
      BY <1>1, <3>1, ClaimTyped
    <3>3. Knows(IF s.id.dev = tx.dev THEN tx.st ELSE store[s.id.dev], s.id)
      BY <3>1 DEF PInv, Owned
    <3> QED BY <1>1, <3>2, <3>3
  <2>2. CASE c # tx.dev
    <3>1. s \in Claims(store[c], r)
      BY <1>1, <2>2
    <3>2. s.id \in Clock /\ s.id.dev \in Device
      BY <1>1, <3>1, ClaimTyped
    <3>3. Knows(store[s.id.dev], s.id)
      BY <3>1 DEF PInv, Owned
    <3>4. s.id.dev = tx.dev => Knows(tx.st, s.id)
      BY <3>3 DEF PInv, Owned, Knows
    <3> QED BY <1>1, <3>2, <3>3, <3>4
  <2> QED BY <2>1, <2>2
<1> QED BY <1>2, <1>3, <1>4 DEF PInv

\* A name at the transaction's next Lamport time is new in every store.
LEMMA NextNameIsNew ==
    ASSUME IInv, PInv, tx # NoTx, NEW n \in Nat, IsNextLamport(tx.st, n), NEW st \in States,
           NEW r \in Row, NEW s \in Claims(st, r)
    PROVE  s.id # [lam |-> n, dev |-> tx.dev]
<1> SUFFICES ASSUME s.id = [lam |-> n, dev |-> tx.dev]
             PROVE  FALSE
  OBVIOUS
<1>1. s.id.dev = tx.dev /\ s.id.lam = n
  OBVIOUS
<1>2. Knows(tx.st, s.id)
  <2>1. CASE st = tx.st
    BY <1>1, <2>1 DEF PInv, Owned
  <2>2. CASE \E d \in Device : st = store[d]
    <3>1. Knows(store[tx.dev], s.id)
      BY <1>1, <2>2 DEF PInv, Owned
    <3> QED BY <3>1 DEF PInv, Owned, Knows
  <2> QED BY <2>1, <2>2, StatesAre
<1>3. PICK x \in tx.st.accepted : n <= x.lam
  BY <1>1, <1>2 DEF Knows
<1>4. x.lam < n /\ x.lam \in Nat
  BY <1>3 DEF IsNextLamport, PInv, TxOK, StoreOK, Typed, Entry
<1> QED BY <1>3, <1>4

\* A transaction signs: each write it states is one its store holds, or is
\* named by the entry.
LEMMA SignStep ==
    ASSUME IInv, PInv, tx # NoTx, NEW t, tx' = t, t # NoTx, TxOK(t), t.dev = tx.dev,
           NEW e, t.st.accepted = tx.st.accepted \cup {e},
           e.lam \in Nat, e.dev = tx.dev, IsNextLamport(tx.st, e.lam),
           \A r \in Row : \A s \in Claims(t.st, r) :
               s \in Claims(tx.st, r) \/ (s = e.items[r] /\ s.id = EntryId(e)),
           store' = store, edits' = edits
    PROVE  PInv'
<1>1. tx.st \in States /\ \A c \in Device : store[c] \in States
  BY StatesAre
<1>2. \A su \in States', r \in Row : \A s \in Claims(su, r) :
         \/ \E st \in States : s \in Claims(st, r)
         \/ s = e.items[r] /\ s.id = EntryId(e)
  <2>1. \A st \in States' : (\E c \in Device : st = store[c]) \/ st = t.st
    BY StatesAreNext
  <2> QED BY <1>1, <2>1
<1>3. \A st \in States, r \in Row : \A s \in Claims(st, r) : s.id # EntryId(e)
  BY NextNameIsNew DEF EntryId
<1>4. Agreed'
  <2> SUFFICES ASSUME NEW st \in States', NEW su \in States', NEW r \in Row,
                      NEW s \in Claims(st, r), NEW u \in Claims(su, r), s.id = u.id
               PROVE  s.cells = u.cells
    BY DEF Agreed
  <2>1. CASE s.id = EntryId(e)
    <3>1. s = e.items[r]
      BY <1>2, <1>3, <2>1
    <3>2. u.id = EntryId(e)
      BY <2>1
    <3>3. u = e.items[r]
      BY <1>2, <1>3, <3>2
    <3> QED BY <3>1, <3>3
  <2>2. CASE s.id # EntryId(e)
    <3>1. /\ \E sv \in States : s \in Claims(sv, r)
          /\ \E sv \in States : u \in Claims(sv, r)
      BY <1>2, <2>2
    <3> QED BY <3>1 DEF PInv, Agreed
  <2> QED BY <2>1, <2>2
<1>5. Owned'
  <2>1. ASSUME NEW r \in Row, NEW s \in Claims(t.st, r)
        PROVE  Knows(IF s.id.dev = t.dev THEN t.st ELSE store[s.id.dev], s.id)
    <3>1. CASE s \in Claims(tx.st, r)
      <4>1. Knows(IF s.id.dev = tx.dev THEN tx.st ELSE store[s.id.dev], s.id)
        BY <3>1 DEF PInv, Owned
      <4> QED BY <4>1 DEF Knows
    <3>2. CASE s.id = EntryId(e)
      <4>1. s.id.dev = t.dev /\ s.id.lam = e.lam
        BY <3>2 DEF EntryId
      <4>2. e \in t.st.accepted /\ s.id.lam <= e.lam
        BY <4>1
      <4> QED BY <4>1, <4>2 DEF Knows
    <3> QED BY <3>1, <3>2
  <2>2. store[tx.dev].accepted \subseteq t.st.accepted
    BY DEF PInv, Owned
  <2> QED BY <2>1, <2>2 DEF PInv, Owned
<1> QED BY <1>4, <1>5 DEF PInv

-----------------------------------------------------------------------------
(* Every step *)

\* Empty stores satisfy the invariant.
LEMMA InitOK == Init => PInv
<1> SUFFICES ASSUME Init
             PROVE  PInv
  OBVIOUS
<1>1. EmptyRow \in RowState
  BY DEF EmptyRow, RowState, NoCarriers
<1>2. Typed(EmptyStore)
  BY <1>1, RowsAssumption DEF EmptyStore, Typed
<1>3. StoreOK(EmptyStore)
  BY <1>2 DEF StoreOK, EmptyStore, Published, EmptyRow
<1>4. \A r \in Row : Claims(EmptyStore, r) = {}
  BY DEF Claims, EmptyStore
<1>5. /\ \A d \in Device : store[d] = EmptyStore
      /\ tx = NoTx /\ edits \in 0..MaxEdits
      /\ \A st \in States : st = EmptyStore
  BY RowsAssumption DEF Init, States
<1>6. Agreed /\ Owned
  BY <1>4, <1>5 DEF Agreed, Owned
<1> QED BY <1>3, <1>5, <1>6 DEF PInv

\* A received entry.
LEMMA IngestOK ==
    ASSUME IInv, PInv, NEW d \in Device, NEW p \in Device, NEW e \in store[p].accepted,
           Ingest(d, p, e)
    PROVE  PInv'
<1> DEFINE st == Rooted(store[d], e, store[p])
           su == Evaluated(st, e, d, TRUE)
<1>1. /\ StoreInv(store[d]) /\ StoreOK(store[d]) /\ StoreInv(store[p]) /\ StoreOK(store[p])
      /\ edits \in 0..MaxEdits
  BY DEF IInv, PInv
<1>2. /\ StoreInv(st) /\ StoreOK(st)
      /\ st.accepted = store[d].accepted \cup {e}
      /\ \A r \in Row : Claims(st, r) \subseteq Claims(store[d], r) \cup Claims(store[p], r)
  BY <1>1, RootedOK
<1>3. /\ store' = [store EXCEPT ![d] = su] /\ tx = NoTx /\ tx' = NoTx /\ edits' = edits
  BY DEF Ingest
<1> HIDE DEF st
<1>4. StoreOK(su) /\ SameLog(su, st) /\ Draws(su, st)
  BY <1>2, EvaluatedOK
<1> HIDE DEF su
<1>5. \A r \in Row : Claims(su, r) \subseteq Claims(store[d], r) \cup Claims(store[p], r)
  BY <1>2, <1>4 DEF Draws
<1>6. store[d].accepted \subseteq su.accepted
  BY <1>2, <1>4 DEF SameLog
<1> QED BY <1>1, <1>3, <1>4, <1>5, <1>6, StoreStep

\* A raw write of a row: it touches no record.
LEMMA EditOK ==
    ASSUME IInv, PInv, NEW d \in Device, NEW r \in Row, NEW c \in Holdable(store[d]),
           Edit(d, r, c)
    PROVE  PInv'
<1> DEFINE st == store[d]
           row == [st.rows[r] EXCEPT !.cells = c]
           rows == [st.rows EXCEPT ![r] = row]
           su == [st EXCEPT !.rows = rows]
<1>1. StoreInv(st) /\ StoreOK(st) /\ edits \in 0..MaxEdits
  BY DEF IInv, PInv
<1>2. /\ store' = [store EXCEPT ![d] = su] /\ tx = NoTx /\ tx' = NoTx
      /\ edits' = edits + 1 /\ edits < MaxEdits
  BY DEF Edit
<1>3. c \in Cells \cup {Absent, Unreadable}
  BY RowsAssumption DEF Holdable
<1>4. st.rows \in [Row -> RowState]
  BY <1>1 DEF StoreOK, Typed
<1>5. row \in RowState /\ row.clock = st.rows[r].clock /\ row.pub = st.rows[r].pub
  BY <1>3, <1>4 DEF RowState
<1> HIDE DEF row
<1>6. /\ rows \in [Row -> RowState]
      /\ \A x \in Row : rows[x].clock = st.rows[x].clock /\ rows[x].pub = st.rows[x].pub
  BY <1>4, <1>5
<1> HIDE DEF rows
<1>7. /\ su.rows = rows /\ su.seen = st.seen /\ su.work = st.work /\ su.gap = st.gap
      /\ su.deferred = st.deferred /\ SameLog(su, st)
  BY <1>1 DEF StoreInv, Shaped, SameLog
<1> HIDE DEF su
<1>8. Typed(su)
  BY <1>1, <1>6, <1>7 DEF StoreOK, Typed, SameLog
<1>9. StoreOK(su)
  <2>1. \A id : Knows(su, id) <=> Knows(st, id)
    BY <1>7 DEF Knows, SameLog
  <2>2. \A x \in Row : Published(su.rows[x], su.seen[x])
    BY <1>1, <1>6, <1>7 DEF StoreOK, Published
  <2> QED BY <1>1, <1>7, <1>8, <2>1, <2>2 DEF StoreOK, SameLog
<1>10. /\ st.accepted \subseteq su.accepted
       /\ \A x \in Row : Claims(su, x) \subseteq Claims(st, x) \cup Claims(st, x)
  BY <1>7 DEF SameLog, Claims
<1>11. edits' \in 0..MaxEdits
  BY <1>1, <1>2, RowsAssumption
<1> QED BY <1>2, <1>9, <1>10, <1>11, StoreStep

\* A store with other bookkeeping of its chains, version and removals.
LEMMA BooksOK ==
    ASSUME NEW st, StoreInv(st), StoreOK(st), NEW su, su.rows = st.rows, su.seen = st.seen,
           su.accepted = st.accepted, su.gap = st.gap, su.deferred = st.deferred,
           su.ver \in 1..MaxVersion, su.floor = st.floor, su.owed \in [Device -> Int],
           su.epoch \in [Device -> Nat], su.work \subseteq Device
    PROVE  StoreOK(su) /\ Draws(su, st)
<1>1. Typed(su)
  BY DEF StoreOK, Typed
<1>2. \A id : Knows(su, id) <=> Knows(st, id)
  BY DEF Knows
<1> QED BY <1>1, <1>2 DEF StoreOK, Draws, Claims

\* A change of a device's enrolment is folded.
LEMMA FoldOK ==
    ASSUME IInv, PInv, NEW d \in Device, NEW x \in Device, Fold(d, x)
    PROVE  PInv'
<1> DEFINE st == store[d]
           su == Folded(st, x)
           owed == IF Removed(st, x) THEN st.owed[x] ELSE -1
           work == IF Removed(st, x) THEN st.work ELSE st.work \cup {x}
<1>1. StoreInv(st) /\ StoreOK(st) /\ edits \in 0..MaxEdits
  BY DEF IInv, PInv
<1>2. /\ store' = [store EXCEPT ![d] = su] /\ tx = NoTx /\ tx' = NoTx /\ edits' = edits
  BY DEF Fold
<1>3. su = [st EXCEPT !.epoch[x] = st.epoch[x] + 1, !.work = work, !.owed[x] = owed]
  BY DEF Folded
<1>4. /\ st.epoch \in [Device -> Nat] /\ st.owed \in [Device -> Int] /\ st.work \subseteq Device
      /\ st.ver \in 1..MaxVersion
  BY <1>1 DEF StoreOK, Typed
<1>5. owed \in Int /\ work \subseteq Device
  BY <1>4
<1> HIDE DEF su, owed, work
<1>6. /\ su.rows = st.rows /\ su.seen = st.seen /\ su.accepted = st.accepted
      /\ su.gap = st.gap /\ su.deferred = st.deferred /\ su.ver = st.ver
      /\ su.floor = st.floor /\ su.work = work
      /\ su.owed = [st.owed EXCEPT ![x] = owed]
      /\ su.epoch = [st.epoch EXCEPT ![x] = st.epoch[x] + 1]
  BY <1>1, <1>3 DEF StoreInv, Shaped
<1>7. su.owed \in [Device -> Int] /\ su.epoch \in [Device -> Nat]
  BY <1>4, <1>5, <1>6
<1>8. StoreOK(su) /\ Draws(su, st)
  BY <1>1, <1>4, <1>5, <1>6, <1>7, BooksOK
<1>9. \A r \in Row : Claims(su, r) \subseteq Claims(st, r) \cup Claims(st, r)
  BY <1>8 DEF Draws
<1> QED BY <1>1, <1>2, <1>6, <1>8, <1>9, StoreStep

\* A transaction's kind tells it from none.
LEMMA KindIsTx ==
    ASSUME NEW t, t.kind # "none"
    PROVE  t # NoTx
  BY DEF NoTx

\* The producer's pass begins: it is to sign every row with unsent work.
LEMMA BeginProduceOK ==
    ASSUME IInv, PInv, NEW d \in Device, BeginProduce(d)
    PROVE  PInv'
<1> DEFINE st == store[d]
           su == IF StreamPending(st) THEN st ELSE Restamped(st)
           owed == IF StreamPending(st) THEN {}
                   ELSE {r \in Row : OwesUpsert(st, r) \/ LocallyDeleted(st, r)}
           t == [kind |-> "produce", dev |-> d, who |-> d, st |-> su, rows |-> owed,
                 replay |-> st.deferred]
<1>1. StoreInv(st) /\ StoreOK(st) /\ OneName(st)
  BY OneNameHolds, StatesAre DEF IInv, PInv
<1>2. tx = NoTx /\ tx' = t /\ store' = store /\ edits' = edits
  BY DEF BeginProduce
<1>3. /\ StoreOK(su) /\ SameLog(su, st) /\ Draws(su, st)
      /\ \A r \in Row : su.rows[r].cells = st.rows[r].cells /\ su.rows[r].pub = st.rows[r].pub
  <2>1. CASE StreamPending(st)
    BY <1>1, <2>1 DEF SameLog, Draws
  <2>2. CASE ~StreamPending(st)
    <3>1. su = Restamped(st)
      BY <2>2
    <3> HIDE DEF su
    <3> QED BY <1>1, <3>1, RestampedOK
  <2> QED BY <2>1, <2>2
<1>4. StreamPending(su) <=> StreamPending(st)
  BY <1>3 DEF StreamPending, SameLog
<1>5. \A r \in owed : r \in Row /\ st.rows[r].cells # Unreadable
  BY MergeAssumption
     DEF OwesUpsert, LocallyDeleted, LocallyChanged, UnresolvedWinner, Absent, Unreadable
<1>6. ~StreamPending(st) => \A r \in Row : r \in owed \/ ~Dirty(st, r)
  BY <1>1, UnsentIsOwed
<1> HIDE DEF su, owed
<1>7. \A r \in Row : Dirty(su, r) <=> Dirty(st, r)
  BY <1>3 DEF Dirty, PublishedCells
<1>8. st.deferred \subseteq su.accepted
  BY <1>1, <1>3 DEF StoreOK, Typed, SameLog
<1>9. RowsChosen(t)
  BY <1>3, <1>5 DEF RowsChosen
<1>10. Settling(t)
  BY <1>4, <1>6, <1>7 DEF Settling
<1>11. TxOK(t)
  BY <1>3, <1>8, <1>9, <1>10 DEF TxOK
<1>12. t # NoTx
  BY KindIsTx
<1>13. t.dev \in Device /\ t.st.accepted = store[t.dev].accepted /\ Draws(t.st, store[t.dev])
  BY <1>3 DEF SameLog
<1> HIDE DEF t
<1> QED BY <1>2, <1>11, <1>12, <1>13, BeginStep

\* Opening the store begins the refold.
LEMMA OpenOK ==
    ASSUME IInv, PInv, NEW d \in Device, NEW v \in 1..MaxVersion, Open(d, v)
    PROVE  PInv'
<1> DEFINE st == store[d]
           su == [st EXCEPT !.ver = v]
           replay == IF v > st.ver THEN Pending(st) ELSE st.deferred
           t == [kind |-> "open", dev |-> d, who |-> d, st |-> su, rows |-> {}, replay |-> replay]
<1>1. StoreInv(st) /\ StoreOK(st)
  BY DEF IInv, PInv
<1>2. tx = NoTx /\ tx' = t /\ store' = store /\ edits' = edits
  BY DEF Open
<1>3. /\ su.rows = st.rows /\ su.seen = st.seen /\ su.accepted = st.accepted
      /\ su.gap = st.gap /\ su.deferred = st.deferred /\ su.ver = v
      /\ su.floor = st.floor /\ su.work = st.work /\ su.owed = st.owed /\ su.epoch = st.epoch
  BY <1>1 DEF StoreInv, Shaped
<1> HIDE DEF su
<1>4. StoreOK(su) /\ Draws(su, st)
  BY <1>1, <1>3, BooksOK DEF StoreOK, Typed
<1>5. replay \subseteq su.accepted
  BY <1>1, <1>3 DEF StoreOK, Typed, Pending
<1> HIDE DEF replay
<1>6. TxOK(t)
  BY <1>4, <1>5 DEF TxOK, RowsChosen, Settling
<1>7. t # NoTx
  BY KindIsTx
<1>8. t.dev \in Device /\ t.st.accepted = store[t.dev].accepted /\ Draws(t.st, store[t.dev])
  BY <1>3, <1>4
<1> HIDE DEF t
<1> QED BY <1>2, <1>6, <1>7, <1>8, BeginStep

\* Compaction begins with the rows it will carry.
LEMMA BeginCompactOK ==
    ASSUME IInv, PInv, NEW d \in Device, NEW run \in SUBSET Row, BeginCompact(d, run)
    PROVE  PInv'
<1> DEFINE st == store[d]
           t == [kind |-> "compact", dev |-> d, who |-> d, st |-> st, rows |-> run,
                 replay |-> {}]
<1>1. StoreInv(st) /\ StoreOK(st)
  BY DEF IInv, PInv
<1>2. tx = NoTx /\ tx' = t /\ store' = store /\ edits' = edits /\ IsRun(st, d, run)
  BY DEF BeginCompact
<1>3. From(st, d) \in Int /\ From(st, d) >= 0
  <2>1. st.floor[d] \in Int
    BY <1>1 DEF StoreOK, Typed
  <2> DEFINE S == {0, st.floor[d]}
             m == IF st.floor[d] > 0 THEN st.floor[d] ELSE 0
  <2>2. S \in SUBSET Int /\ S # {} /\ m \in Int /\ 0 \in S
    BY <2>1
  <2>3. \A x \in S : x <= m
    BY <2>1
  <2> HIDE DEF S, m
  <2>4. Max(S) \in Int /\ Max(S) >= 0
    BY <2>2, <2>3, MaxExists
  <2> QED BY <2>4 DEF From, S
<1>4. ASSUME NEW r \in run
      PROVE  LET x == st.rows[r] IN
             IF x.clock = NoClock THEN x.cells = Absent /\ x.tomb # NoClock
             ELSE x.cells \in Cells /\ (x.clock.dev = d \/ x.pub = x.cells)
  <2>1. Carriable(st, d, r) /\ r \in PinnedRows(st, d, Target(st, d))
    BY <1>2 DEF IsRun
  <2>2. From(st, d) <= PinOf(st, d, r)
    BY <2>1 DEF PinnedRows
  <2>3. PinOf(st, d, r) # -1
    BY <1>3, <2>2
  <2>4. st.rows[r].clock = NoClock => st.rows[r].tomb # NoClock
    BY <2>3 DEF PinOf
  <2> QED BY <2>1, <2>4 DEF Carriable, AsPublished
<1>5. RowsChosen(t)
  BY <1>4 DEF RowsChosen
<1>6. TxOK(t)
  BY <1>1, <1>5 DEF TxOK, Settling
<1>7. t # NoTx
  BY KindIsTx
<1>8. t.dev \in Device /\ t.st.accepted = store[t.dev].accepted /\ Draws(t.st, store[t.dev])
  BY DEF Draws
<1> HIDE DEF t
<1> QED BY <1>2, <1>6, <1>7, <1>8, BeginStep

\* What signing the row's own state does: the entry fits, it names the row
\* alone, and when it takes the row nothing of it is unsent.
LEMMA RowOpOK ==
    ASSUME NEW st, StoreInv(st), StoreOK(st), NEW n \in 0..MaxLamport, NEW dev \in Device,
           NEW r \in Row, st.rows[r].cells # Unreadable
    PROVE  LET id == [lam |-> n, dev |-> dev]
               y == RowOp(st, id, r)
           IN  /\ StoreOK(y) /\ StaysClean(st, y) /\ y.owed = st.owed
               /\ \A x \in Row : x # r => y.rows[x] = st.rows[x]
               /\ SelfApplies(st, id, r) => Clean(y.rows[r])
               /\ \E e : /\ y.accepted = st.accepted \cup {e} /\ e.lam = n /\ e.dev = dev
                         /\ \A x \in Row : \A s \in Claims(y, x) :
                               s \in Claims(st, x) \/ (s = e.items[x] /\ s.id = EntryId(e))
<1> DEFINE id == [lam |-> n, dev |-> dev]
           y == RowOp(st, id, r)
           gone == st.rows[r].cells = Absent
           item == [id |-> id, cells |-> IF gone THEN NoCells ELSE st.rows[r].cells]
           kind == IF gone THEN "remove" ELSE "upsert"
           items == [x \in Row |-> IF x = r THEN item ELSE NoItem]
           e == [dev |-> id.dev, lam |-> id.lam, kind |-> kind, ver |-> st.ver,
                 items |-> items]
<1>1. y = Authored(st, id, kind, items)
  BY DEF RowOp
<1>2. st.rows[r] \in RowState /\ st.ver \in 1..MaxVersion
  BY DEF StoreOK, Typed
<1>3. gone \/ st.rows[r].cells \in Cells
  BY <1>2 DEF RowState
<1>4. id \in Clock /\ n \in Nat /\ n <= MaxLamport
  BY RowsAssumption DEF Clock
<1>5. item \in Statement /\ item # NoItem
  <2>1. id # NoClock
    BY <1>4 DEF NoClock
  <2> QED BY <1>3, <1>4, <2>1 DEF Statement, NoItem
<1>6. /\ e.items = items /\ e.dev = dev /\ e.lam = n /\ e.kind = kind /\ e.ver = st.ver
      /\ EntryId(e) = id
  BY DEF EntryId
<1>7. \A x \in Row : items[x] = IF x = r THEN item ELSE NoItem
  OBVIOUS
<1>8. items \in [Row -> Statement \cup {NoItem}]
  BY <1>5
<1>9. Named(e) = {r}
  BY <1>5, <1>6, <1>7 DEF Named
<1>10. (Rewrites(e) <=> ~gone) /\ ~Restates(e)
  BY DEF Rewrites, Restates
<1>11. e \in Entry
  BY <1>2, <1>4, <1>8 DEF Entry
<1>12. item.id = id /\ item.cells = IF gone THEN NoCells ELSE st.rows[r].cells
  OBVIOUS
<1>13. item = [id |-> item.id, cells |-> item.cells]
  OBVIOUS
<1>14. \A x \in Named(e) : e.items[x] = item
  BY <1>6, <1>7, <1>9
<1> HIDE DEF e, items, item, kind
<1>15. Fits(e)
  <2>1. EntryOK(e)
    <3>1. e.dev \in Device /\ e.lam \in Nat
      BY <1>4, <1>6
    <3>2. IF Rewrites(e) THEN item.cells \in Content ELSE item.cells = NoCells
      BY <1>3, <1>10, <1>12 DEF Content
    <3> QED BY <1>4, <1>12, <1>13, <1>14, <3>1, <3>2 DEF EntryOK
  <2>2. Sound(e)
    BY <1>4, <1>6, <1>12, <1>14 DEF Sound
  <2> QED BY <1>11, <2>1, <2>2 DEF Fits
<1>16. e = [dev |-> id.dev, lam |-> id.lam, kind |-> kind, ver |-> st.ver, items |-> items]
  BY DEF e
<1> HIDE DEF id, y
<1>17. /\ StoreOK(y) /\ StaysClean(st, y)
       /\ y.accepted = st.accepted \cup {e}
       /\ y.owed = st.owed
       /\ \A x \in Row : \A s \in Claims(y, x) :
             s \in Claims(st, x) \/ (x \in Named(e) /\ s = e.items[x])
       /\ \A x \in Row : y.rows[x] =
             IF x \in Named(e) /\ ~StatesAhead(e) THEN Settle(st.rows[x], e, x, st.ver)
             ELSE st.rows[x]
  BY <1>1, <1>15, <1>16, AuthoredOK
<1>18. \A x \in Row : x # r => y.rows[x] = st.rows[x]
  BY <1>9, <1>17
<1>19. SelfApplies(st, id, r) => Clean(y.rows[r])
  <2> SUFFICES ASSUME SelfApplies(st, id, r)
               PROVE  Clean(y.rows[r])
    OBVIOUS
  <2>1. y.rows[r] = Settle(st.rows[r], e, r, st.ver)
    BY <1>9, <1>10, <1>17 DEF StatesAhead
  <2>2. CASE gone
    <3>1. y.rows[r] = SettleDelete(st.rows[r], id, EntryId(e))
      BY <1>9, <1>10, <1>12, <1>14, <2>1, <2>2 DEF Settle
    <3>2. ~Beats(st.rows[r].clock, id)
      BY <2>2 DEF SelfApplies
    <3>3. y.rows[r].pub = Unpublished /\ y.rows[r].cells = Absent
      BY <1>2, <1>4, <1>6, <3>1, <3>2, DeleteEffect
    <3> QED BY <3>3 DEF Clean, PublishedCells
  <2>3. CASE ~gone
    <3>1. y.rows[r] = SettleRow(st.rows[r], st.rows[r].cells, id, EntryId(e), st.ver)
      BY <1>9, <1>10, <1>12, <1>14, <2>1, <2>3 DEF Settle
    <3>2. Takes(st.rows[r], id) /\ st.rows[r].cells \in Cells /\ st.ver \in Nat
      BY <1>2, <1>3, <2>3, RowsAssumption DEF SelfApplies
    <3>3. y.rows[r].pub = st.rows[r].cells /\ y.rows[r].cells = st.rows[r].cells
      BY <1>2, <1>4, <1>6, <3>1, <3>2, WriteEffect
    <3>4. y.rows[r].pub # Unpublished
      BY <3>2, <3>3, MergeAssumption
    <3> QED BY <3>3, <3>4 DEF Clean, PublishedCells
  <2> QED BY <2>2, <2>3
<1>20. \A x \in Row : \A s \in Claims(y, x) :
          s \in Claims(st, x) \/ (s = e.items[x] /\ s.id = EntryId(e))
  BY <1>6, <1>12, <1>14, <1>17
<1> QED BY <1>6, <1>17, <1>18, <1>19, <1>20 DEF y, id

\* A row is signed and self-applied, by the producer or by a carrier.
LEMMA SignsRowOK ==
    ASSUME IInv, PInv, tx # NoTx, NEW r \in tx.rows, NEW n \in 0..MaxLamport,
           tx.st.rows[r].cells # Unreadable, SignsRow(r, n)
    PROVE  PInv'
<1> DEFINE id == [lam |-> n, dev |-> tx.dev]
           y == RowOp(tx.st, id, r)
           t == [tx EXCEPT !.st = y, !.rows = @ \ {r}]
<1>1. TxInv(tx) /\ TxOK(tx)
  BY DEF IInv, PInv
<1>2. StoreInv(tx.st) /\ StoreOK(tx.st) /\ tx.dev \in Device /\ r \in Row
  BY <1>1 DEF TxInv, TxOK
<1>3. /\ tx' = t /\ store' = store /\ edits' = edits
      /\ IsNextLamport(tx.st, n) /\ SelfApplies(tx.st, id, r)
  BY DEF SignsRow
<1>4. /\ StoreOK(y) /\ StaysClean(tx.st, y) /\ y.owed = tx.st.owed
      /\ \A x \in Row : x # r => y.rows[x] = tx.st.rows[x]
      /\ Clean(y.rows[r])
      /\ \E e : /\ y.accepted = tx.st.accepted \cup {e} /\ e.lam = n /\ e.dev = tx.dev
                /\ \A x \in Row : \A s \in Claims(y, x) :
                      s \in Claims(tx.st, x) \/ (s = e.items[x] /\ s.id = EntryId(e))
  BY <1>2, <1>3, RowOpOK
<1> HIDE DEF y
<1>5. PICK e : /\ y.accepted = tx.st.accepted \cup {e} /\ e.lam = n /\ e.dev = tx.dev
               /\ \A x \in Row : \A s \in Claims(y, x) :
                     s \in Claims(tx.st, x) \/ (s = e.items[x] /\ s.id = EntryId(e))
  BY <1>4
<1>6. /\ t.kind = tx.kind /\ t.dev = tx.dev /\ t.who = tx.who /\ t.st = y
      /\ t.rows = tx.rows \ {r} /\ t.replay = tx.replay
  BY <1>1 DEF TxInv
<1> HIDE DEF t
<1>7. \A x \in t.rows : x \in tx.rows /\ x \in Row /\ x # r /\ t.st.rows[x] = tx.st.rows[x]
  BY <1>1, <1>4, <1>6 DEF TxInv
<1>8. RowsChosen(t)
  <2>1. RowsChosen(tx)
    BY <1>1 DEF TxOK
  <2> QED BY <1>6, <1>7, <2>1 DEF RowsChosen
<1>9. Settling(t)
  <2> SUFFICES ASSUME t.kind \in {"produce", "readopt", "drained"}, ~StreamPending(t.st),
                      NEW x \in Row, ~(t.kind = "produce" /\ x \in t.rows)
               PROVE  ~Dirty(t.st, x)
    BY DEF Settling
  <2>1. ~StreamPending(tx.st)
    BY <1>4, <1>6 DEF StreamPending
  <2>2. CASE x = r
    BY <1>4, <1>6, <2>2 DEF Dirty, Clean
  <2>3. CASE x # r
    <3>1. ~Dirty(tx.st, x)
      BY <1>1, <1>6, <2>1, <2>3 DEF TxOK, Settling
    <3> QED BY <1>4, <1>6, <2>3, <3>1 DEF Dirty
  <2> QED BY <2>2, <2>3
<1>10. TxOK(t)
  BY <1>1, <1>4, <1>5, <1>6, <1>8, <1>9 DEF TxOK
<1>11. t # NoTx
  BY <1>10, KindIsTx DEF TxOK
<1>12. n \in Nat
  OBVIOUS
<1> QED BY <1>3, <1>5, <1>6, <1>10, <1>11, <1>12, SignStep

\* The producer signs readable rows, and so does whoever carries them.
LEMMA AuthorCarryOK ==
    ASSUME IInv, PInv, NEW r \in Row, NEW n \in 0..MaxLamport,
           AuthorRow(r, n) \/ CarryRow(r, n)
    PROVE  PInv'
<1>1. /\ tx # NoTx /\ r \in tx.rows /\ SignsRow(r, n)
      /\ \/ tx.kind = "produce"
         \/ tx.kind \in {"compact", "readopt"}
  BY DEF AuthorRow, CarryRow, Carrying
<1>2. RowsChosen(tx)
  BY <1>1 DEF PInv, TxOK
<1>3. tx.st.rows[r].cells # Unreadable
  BY <1>1, <1>2, MergeAssumption DEF RowsChosen, Absent, Unreadable
<1> QED BY <1>1, <1>3, SignsRowOK

\* Signing the statements `items` in one restatement: the rows still to be
\* carried are not among them, and its writes are in the store already.
LEMMA RestateOK ==
    ASSUME IInv, PInv, tx # NoTx, NEW n \in 0..MaxLamport, IsNextLamport(tx.st, n),
           tx.kind \in {"compact", "readopt"},
           NEW kind \in {"restate", "restaterows"}, NEW items, NEW rows \in SUBSET tx.rows,
           Fits([dev |-> tx.dev, lam |-> n, kind |-> kind, ver |-> tx.st.ver, items |-> items]),
           \A r \in rows : items[r] = NoItem,
           \A r \in Row : items[r].cells # NoCells => items[r] \in Claims(tx.st, r),
           tx' = [tx EXCEPT !.st = Authored(@, [lam |-> n, dev |-> tx.dev], kind, items),
                            !.rows = rows],
           store' = store, edits' = edits
    PROVE  PInv'
<1> DEFINE id == [lam |-> n, dev |-> tx.dev]
           y == Authored(tx.st, id, kind, items)
           e == [dev |-> id.dev, lam |-> id.lam, kind |-> kind, ver |-> tx.st.ver,
                 items |-> items]
           t == [tx EXCEPT !.st = y, !.rows = rows]
<1>1. TxInv(tx) /\ TxOK(tx)
  BY DEF IInv, PInv
<1>2. StoreInv(tx.st) /\ StoreOK(tx.st) /\ tx.dev \in Device
  BY <1>1 DEF TxInv, TxOK
<1>3. tx' = t
  OBVIOUS
<1>4. Fits(e) /\ e.items = items /\ e.lam = n /\ e.dev = tx.dev
  OBVIOUS
<1>5. /\ StoreOK(y) /\ StaysClean(tx.st, y)
      /\ y.accepted = tx.st.accepted \cup {e}
      /\ y.owed = tx.st.owed
      /\ \A r \in Row : \A s \in Claims(y, r) :
            s \in Claims(tx.st, r) \/ (r \in Named(e) /\ s = e.items[r])
      /\ \A r \in Row : y.rows[r] =
            IF r \in Named(e) /\ ~StatesAhead(e) THEN Settle(tx.st.rows[r], e, r, tx.st.ver)
            ELSE tx.st.rows[r]
  BY <1>2, <1>4, AuthoredOK
<1> HIDE DEF y, e
<1>6. /\ t.kind = tx.kind /\ t.dev = tx.dev /\ t.who = tx.who /\ t.st = y
      /\ t.rows = rows /\ t.replay = tx.replay
  BY <1>1 DEF TxInv
<1> HIDE DEF t
<1>7. \A r \in Row : \A s \in Claims(y, r) : s \in Claims(tx.st, r)
  <2> SUFFICES ASSUME NEW r \in Row, NEW s \in Claims(y, r), s = items[r]
               PROVE  s \in Claims(tx.st, r)
    BY <1>4, <1>5
  <2>1. s.cells # NoCells
    BY DEF Claims
  <2> QED BY <2>1
<1>8. \A r \in t.rows : r \in tx.rows /\ r \in Row /\ t.st.rows[r] = tx.st.rows[r]
  <2>1. \A r \in rows : r \notin Named(e)
    BY <1>4 DEF Named
  <2> QED BY <1>1, <1>5, <1>6, <2>1 DEF TxInv
<1>9. RowsChosen(t)
  <2>1. RowsChosen(tx)
    BY <1>1 DEF TxOK
  <2> QED BY <1>6, <1>8, <2>1 DEF RowsChosen
<1>10. Settling(t)
  <2> SUFFICES ASSUME t.kind \in {"produce", "readopt", "drained"}, ~StreamPending(t.st),
                      NEW x \in Row
               PROVE  ~Dirty(t.st, x)
    BY DEF Settling
  <2>1. ~StreamPending(tx.st)
    BY <1>5, <1>6 DEF StreamPending
  <2>2. ~Dirty(tx.st, x)
    BY <1>1, <1>6, <2>1 DEF TxOK, Settling
  <2> QED BY <1>5, <1>6, <2>2 DEF Dirty, StaysClean, Clean
<1>11. TxOK(t)
  BY <1>1, <1>5, <1>6, <1>9, <1>10 DEF TxOK
<1>12. t # NoTx
  BY <1>11, KindIsTx DEF TxOK
<1>13. n \in Nat
  OBVIOUS
<1> QED BY <1>3, <1>4, <1>5, <1>6, <1>7, <1>11, <1>12, <1>13, SignStep

\* The deletes that are carried are restated in one entry.
LEMMA CarryDeletesOK ==
    ASSUME IInv, PInv, NEW n \in 0..MaxLamport, CarryDeletes(n)
    PROVE  PInv'
<1> DEFINE items == [r \in Row |-> IF r \notin tx.rows \/ Live(r) THEN NoItem
                                   ELSE [id |-> tx.st.rows[r].tomb, cells |-> NoCells]]
           rows == {r \in tx.rows : Live(r)}
           e == [dev |-> tx.dev, lam |-> n, kind |-> "restate", ver |-> tx.st.ver,
                 items |-> items]
<1>1. /\ tx # NoTx /\ tx.kind \in {"compact", "readopt"} /\ IsNextLamport(tx.st, n)
      /\ tx' = [tx EXCEPT !.st = Authored(@, [lam |-> n, dev |-> tx.dev], "restate", items),
                          !.rows = rows]
      /\ store' = store /\ edits' = edits
  BY DEF CarryDeletes, Carrying
<1>2. TxInv(tx) /\ TxOK(tx) /\ tx.rows \subseteq Row /\ tx.dev \in Device
  BY <1>1 DEF IInv, PInv, TxInv
<1>3. \A r \in Row : \/ items[r] = NoItem
                     \/ /\ items[r] = [id |-> tx.st.rows[r].tomb, cells |-> NoCells]
                        /\ tx.st.rows[r].tomb \in Clock
  <2> SUFFICES ASSUME NEW r \in Row, r \in tx.rows, ~Live(r)
               PROVE  tx.st.rows[r].tomb \in Clock
    OBVIOUS
  <2>1. tx.st.rows[r].tomb # NoClock
    BY <1>1, <1>2 DEF TxOK, RowsChosen, Live
  <2> QED BY <1>2, <2>1 DEF TxOK, StoreOK, Typed, RowState
<1>4. \A r \in rows : items[r] = NoItem
  BY <1>2
<1>5. items = [r \in Row |-> items[r]] /\ rows \in SUBSET tx.rows
  OBVIOUS
<1> HIDE DEF items, rows
<1>6. items \in [Row -> Statement \cup {NoItem}]
  BY <1>3, <1>5 DEF Statement
<1>7. n \in Nat /\ n <= MaxLamport /\ tx.st.ver \in 1..MaxVersion
  BY <1>2, RowsAssumption DEF TxOK, StoreOK, Typed
<1>8. Fits(e)
  <2>1. e \in Entry
    BY <1>2, <1>6, <1>7 DEF Entry
  <2>2. Sound(e)
    BY <1>7 DEF Sound, Restates
  <2>3. EntryOK(e)
    <3>1. e.dev \in Device /\ e.lam \in Nat /\ ~Rewrites(e) /\ e.items = items
      BY <1>2, <1>7 DEF Rewrites
    <3>2. \A r \in Named(e) : /\ items[r] = [id |-> tx.st.rows[r].tomb, cells |-> NoCells]
                              /\ tx.st.rows[r].tomb \in Clock
      BY <1>3 DEF Named
    <3> HIDE DEF e
    <3>3. ASSUME NEW r \in Named(e)
          PROVE  /\ items[r] = [id |-> items[r].id, cells |-> items[r].cells]
                 /\ items[r].id \in Clock /\ items[r].cells = NoCells
      <4>1. items[r] = [id |-> tx.st.rows[r].tomb, cells |-> NoCells]
        BY <3>2
      <4>2. items[r].id = tx.st.rows[r].tomb /\ items[r].cells = NoCells
        BY <4>1
      <4> QED BY <3>2, <4>1, <4>2
    <3> QED BY <3>1, <3>3 DEF EntryOK
  <2> QED BY <2>1, <2>2, <2>3 DEF Fits
<1>9. \A r \in Row : items[r].cells = NoCells
  <2>1. NoItem.cells = NoCells
    BY DEF NoItem
  <2>2. ASSUME NEW r \in Row
        PROVE  items[r].cells = NoCells
    <3>1. CASE items[r] = NoItem
      BY <2>1, <3>1
    <3>2. CASE items[r] = [id |-> tx.st.rows[r].tomb, cells |-> NoCells]
      BY <3>2
    <3> QED BY <1>3, <3>1, <3>2
  <2> QED BY <2>2
<1> QED BY <1>1, <1>4, <1>5, <1>8, <1>9, RestateOK

\* The live rows that are carried are restated as they were published.
LEMMA CarryLiveOK ==
    ASSUME IInv, PInv, NEW n \in 0..MaxLamport, CarryLive(n)
    PROVE  PInv'
<1> DEFINE items == [r \in Row |-> IF r \notin tx.rows THEN NoItem
                                   ELSE [id |-> tx.st.rows[r].clock,
                                         cells |-> tx.st.rows[r].cells]]
           e == [dev |-> tx.dev, lam |-> n, kind |-> "restaterows", ver |-> tx.st.ver,
                 items |-> items]
<1>1. /\ tx # NoTx /\ tx.kind \in {"compact", "readopt"} /\ IsNextLamport(tx.st, n)
      /\ \A r \in tx.rows : Live(r) /\ ~AtTail(r)
      /\ tx' = [tx EXCEPT !.st = Authored(@, [lam |-> n, dev |-> tx.dev], "restaterows", items),
                          !.rows = {}]
      /\ store' = store /\ edits' = edits
  BY DEF CarryLive, Carrying
<1>2. TxInv(tx) /\ TxOK(tx) /\ tx.rows \subseteq Row /\ tx.dev \in Device
  BY <1>1 DEF IInv, PInv, TxInv
<1>3. \A r \in Row :
        \/ items[r] = NoItem
        \/ /\ items[r] = [id |-> tx.st.rows[r].clock, cells |-> tx.st.rows[r].cells]
           /\ tx.st.rows[r].clock \in Clock /\ tx.st.rows[r].cells \in Cells
           /\ items[r] \in Claims(tx.st, r)
  <2> SUFFICES ASSUME NEW r \in Row, r \in tx.rows
               PROVE  /\ tx.st.rows[r].clock \in Clock /\ tx.st.rows[r].cells \in Cells
                      /\ items[r] \in Claims(tx.st, r)
    OBVIOUS
  <2>1. tx.st.rows[r].clock # NoClock
    BY <1>1 DEF Live
  <2>2. tx.st.rows[r].cells \in Cells /\ tx.st.rows[r].pub = tx.st.rows[r].cells
    BY <1>1, <1>2, <2>1 DEF TxOK, RowsChosen, AtTail, Live
  <2>3. tx.st.rows[r].clock \in Clock
    BY <1>2, <2>1 DEF TxOK, StoreOK, Typed, RowState
  <2>4. tx.st.rows[r].pub # Unpublished
    BY <2>2, MergeAssumption
  <2>5. [id |-> tx.st.rows[r].clock, cells |-> tx.st.rows[r].pub] \in Claims(tx.st, r)
    BY <1>2, <2>4, RecordIsClaim DEF TxOK
  <2> QED BY <2>2, <2>3, <2>5
<1>5. items = [r \in Row |-> items[r]]
  OBVIOUS
<1> HIDE DEF items
<1>6. items \in [Row -> Statement \cup {NoItem}]
  BY <1>3, <1>5 DEF Statement
<1>7. n \in Nat /\ n <= MaxLamport /\ tx.st.ver \in 1..MaxVersion
  BY <1>2, RowsAssumption DEF TxOK, StoreOK, Typed
<1>8. Fits(e)
  <2>1. e \in Entry
    BY <1>2, <1>6, <1>7 DEF Entry
  <2>2. Sound(e)
    BY <1>7 DEF Sound, Restates
  <2>3. EntryOK(e)
    <3>1. e.dev \in Device /\ e.lam \in Nat /\ Rewrites(e) /\ e.items = items
      BY <1>2, <1>7 DEF Rewrites
    <3>2. \A r \in Named(e) :
            /\ items[r] = [id |-> tx.st.rows[r].clock, cells |-> tx.st.rows[r].cells]
            /\ tx.st.rows[r].clock \in Clock /\ tx.st.rows[r].cells \in Content
      BY <1>3 DEF Named, Content
    <3> HIDE DEF e
    <3>3. ASSUME NEW r \in Named(e)
          PROVE  /\ items[r] = [id |-> items[r].id, cells |-> items[r].cells]
                 /\ items[r].id \in Clock /\ items[r].cells \in Content
      <4>1. items[r] = [id |-> tx.st.rows[r].clock, cells |-> tx.st.rows[r].cells]
        BY <3>2
      <4>2. items[r].id = tx.st.rows[r].clock /\ items[r].cells = tx.st.rows[r].cells
        BY <4>1
      <4> QED BY <3>2, <4>1, <4>2
    <3> QED BY <3>1, <3>3 DEF EntryOK
  <2> QED BY <2>1, <2>2, <2>3 DEF Fits
<1>9. \A r \in Row : items[r].cells # NoCells => items[r] \in Claims(tx.st, r)
  <2>1. NoItem.cells = NoCells
    BY DEF NoItem
  <2> QED BY <1>3, <2>1
<1>10. {} \in SUBSET tx.rows /\ \A r \in {} : items[r] = NoItem
  OBVIOUS
<1> QED BY <1>1, <1>8, <1>9, <1>10, RestateOK

\* A pending entry is replayed inside the transaction.
LEMMA ReplayOK ==
    ASSUME IInv, PInv, tx # NoTx, NEW e \in tx.replay, ReplayNext(e)
    PROVE  PInv'
<1> DEFINE done == Evaluated(tx.st, e, tx.dev, FALSE)
           su == Rearmed(done, tx.st, e)
           t == [tx EXCEPT !.st = su, !.replay = @ \ {e}]
<1>1. TxInv(tx) /\ TxOK(tx)
  BY DEF IInv, PInv
<1>2. StoreInv(tx.st) /\ StoreOK(tx.st) /\ e \in tx.st.accepted
  BY <1>1 DEF TxInv, TxOK
<1>3. tx' = t /\ store' = store /\ edits' = edits /\ tx.rows = {}
  BY DEF ReplayNext
<1>4. StoreOK(done) /\ SameLog(done, tx.st) /\ Draws(done, tx.st) /\ StaysClean(tx.st, done)
  BY <1>2, EvaluatedOK
<1>5. StoreInv(done)
  BY <1>2, EvaluatedKeeps DEF StoreInv, EntriesOK
<1> HIDE DEF done
<1>6. PICK work \in SUBSET Device : su = done \/ su = [done EXCEPT !.work = done.work \cup work]
  <2> DEFINE named == {e.dev} \cup {e.items[r].id.dev : r \in
                        IF e \in Pending(done) THEN Named(e) \ Blocked(tx.st, e) ELSE Named(e)}
             w == {x \in Device : x \in named /\ Removed(done, x)}
  <2>1. su = IF Moved(done, tx.st, e) THEN [done EXCEPT !.work = @ \cup w] ELSE done
    BY DEF Rearmed
  <2>2. w \in SUBSET Device
    OBVIOUS
  <2> HIDE DEF w, su
  <2> QED BY <2>1, <2>2
<1> HIDE DEF su
<1>7. /\ su.rows = done.rows /\ su.seen = done.seen /\ su.accepted = done.accepted
      /\ su.gap = done.gap /\ su.deferred = done.deferred /\ su.ver = done.ver
      /\ su.floor = done.floor /\ su.owed = done.owed /\ su.epoch = done.epoch
      /\ su.work \subseteq done.work \cup Device
  BY <1>5, <1>6 DEF StoreInv, Shaped
<1>8. StoreOK(su) /\ Draws(su, done)
  BY <1>4, <1>5, <1>7, BooksOK DEF StoreOK, Typed
<1>9. Draws(su, tx.st) /\ su.accepted = tx.st.accepted /\ su.owed = tx.st.owed
      /\ StaysClean(tx.st, su)
  BY <1>4, <1>7, <1>8 DEF Draws, SameLog, StaysClean
<1>10. /\ t.kind = tx.kind /\ t.dev = tx.dev /\ t.who = tx.who /\ t.st = su
       /\ t.rows = {} /\ t.replay = tx.replay \ {e}
  BY <1>1, <1>3 DEF TxInv
<1> HIDE DEF t
<1>11. RowsChosen(t)
  BY <1>10 DEF RowsChosen
<1>12. Settling(t)
  <2> SUFFICES ASSUME t.kind \in {"produce", "readopt", "drained"}, ~StreamPending(t.st),
                      NEW x \in Row
               PROVE  ~Dirty(t.st, x)
    BY DEF Settling
  <2>1. ~StreamPending(tx.st)
    BY <1>9, <1>10 DEF StreamPending
  <2>2. ~Dirty(tx.st, x)
    BY <1>1, <1>3, <1>10, <2>1 DEF TxOK, Settling
  <2> QED BY <1>9, <1>10, <2>2 DEF Dirty, StaysClean, Clean
<1>13. TxOK(t)
  BY <1>1, <1>8, <1>9, <1>10, <1>11, <1>12 DEF TxOK
<1>14. t # NoTx
  BY <1>13, KindIsTx DEF TxOK
<1> QED BY <1>3, <1>9, <1>10, <1>13, <1>14, TxStep

\* A transaction ends: committed, undone, or with chain prefixes dropped.
LEMMA EndOK ==
    ASSUME IInv, PInv, Commit \/ Abort \/ CompactChains
    PROVE  PInv'
<1>1. CASE Commit
  <2>1. /\ tx # NoTx /\ tx' = NoTx /\ store' = [store EXCEPT ![tx.dev] = tx.st]
        /\ edits' = edits
    BY <1>1 DEF Commit
  <2>2. StoreOK(tx.st) /\ Draws(tx.st, tx.st)
    BY <2>1 DEF PInv, TxOK, Draws
  <2> QED BY <2>1, <2>2, EndStep
<1>2. CASE Abort
  <2>1. tx # NoTx /\ tx' = NoTx /\ store' = store /\ edits' = edits
    BY <1>2 DEF Abort
  <2>2. \A st \in States' : \E c \in Device : st = store[c]
    BY <2>1, StatesAreNext
  <2>3. Agreed'
    BY <2>2, AgreedStays, StatesAre DEF PInv
  <2>4. Owned'
    BY <2>1 DEF PInv, Owned
  <2> QED BY <2>1, <2>3, <2>4 DEF PInv
<1>3. CASE CompactChains
  <2> DEFINE su == Compacted(tx.st, tx.dev, store[tx.dev])
  <2>1. /\ tx # NoTx /\ tx' = NoTx /\ store' = [store EXCEPT ![tx.dev] = su]
        /\ edits' = edits
        /\ \A c \in Device : su.floor[c] # tx.st.floor[c] => su.floor[c] \in Lams(Chain(tx.st, c))
    BY <1>3 DEF CompactChains
  <2>2. StoreInv(tx.st) /\ StoreOK(tx.st)
    BY <2>1 DEF IInv, TxInv, PInv, TxOK
  <2>3. /\ StoreOK(su) /\ Draws(su, tx.st)
        /\ \A id \in Clock : Knows(tx.st, id) => Knows(su, id)
    BY <2>1, <2>2, CompactedOK
  <2> HIDE DEF su
  <2> QED BY <2>1, <2>3, EndStep
<1> QED BY <1>1, <1>2, <1>3

\* A removal is taken up, or finished with.
LEMMA ReadoptOK ==
    ASSUME IInv, PInv, (\E x \in Device : BeginReadopt(x)) \/ EndReadopt
    PROVE  PInv'
<1>1. CASE \E x \in Device : BeginReadopt(x)
  <2>1. PICK x \in Device : BeginReadopt(x)
    BY <1>1
  <2> DEFINE rows == IF Removed(tx.st, x)
                     THEN {r \in Candidates(tx.st, x, tx.dev) : Adoptable(tx.st, r)}
                     ELSE {}
             t == [tx EXCEPT !.kind = "readopt", !.who = x, !.rows = rows]
  <2>2. /\ tx # NoTx /\ tx.kind = "produce" /\ tx.rows = {} /\ ~StreamPending(tx.st)
        /\ tx' = t /\ store' = store /\ edits' = edits
    BY <2>1 DEF BeginReadopt
  <2>3. TxInv(tx) /\ TxOK(tx)
    BY <2>2 DEF IInv, PInv
  <2>4. ASSUME NEW r \in rows
        PROVE  LET y == tx.st.rows[r] IN
               IF y.clock = NoClock THEN y.cells = Absent /\ y.tomb # NoClock
               ELSE y.cells \in Cells /\ y.pub = y.cells
    <3>1. r \in Candidates(tx.st, x, tx.dev) /\ Adoptable(tx.st, r)
      OBVIOUS
    <3>2. r \in Row
      BY <3>1 DEF Candidates
    <3>3. tx.st.rows[r].cells \in Cells \cup {Absent, Unreadable}
      BY <2>3, <3>2 DEF TxOK, StoreOK, Typed, RowState
    <3>4. CASE tx.st.rows[r].clock = NoClock
      BY <3>1, <3>4 DEF Candidates, Adoptable
    <3>5. CASE tx.st.rows[r].clock # NoClock
      BY <3>1, <3>3, <3>5 DEF Adoptable, Unrepairable, AsPublished
    <3> QED BY <3>4, <3>5
  <2>5. rows \subseteq Row
    BY DEF Candidates
  <2> HIDE DEF rows
  <2>6. /\ t.kind = "readopt" /\ t.dev = tx.dev /\ t.who = x /\ t.st = tx.st
        /\ t.rows = rows /\ t.replay = tx.replay
    BY <2>3 DEF TxInv
  <2> HIDE DEF t
  <2>7. RowsChosen(t)
    BY <2>4, <2>6 DEF RowsChosen
  <2>8. Settling(t)
    <3>1. \A r \in Row : ~Dirty(tx.st, r)
      BY <2>2, <2>3 DEF TxOK, Settling
    <3> QED BY <2>6, <3>1 DEF Settling
  <2>9. TxOK(t)
    BY <2>3, <2>6, <2>7, <2>8 DEF TxOK
  <2>10. t # NoTx
    BY <2>6, KindIsTx
  <2>11. Draws(t.st, tx.st)
    BY <2>6 DEF Draws
  <2> QED BY <2>2, <2>6, <2>9, <2>10, <2>11, TxStep
<1>2. CASE EndReadopt
  <2> DEFINE su == [tx.st EXCEPT !.work = @ \ {tx.who}]
             t1 == [tx EXCEPT !.kind = "drained", !.who = tx.dev]
             t2 == [tx EXCEPT !.kind = "produce", !.who = tx.dev, !.st = su]
             stuck == /\ Removed(tx.st, tx.who)
                      /\ \E r \in Candidates(tx.st, tx.who, tx.dev) : Unrepairable(tx.st, r)
  <2>0. /\ tx # NoTx /\ tx.kind = "readopt" /\ tx.rows = {}
        /\ tx' = IF stuck THEN t1 ELSE t2
        /\ store' = store /\ edits' = edits
    BY <1>2 DEF EndReadopt
  <2>1. /\ tx # NoTx /\ tx.kind = "readopt" /\ tx.rows = {}
        /\ tx' = t1 \/ tx' = t2
        /\ store' = store /\ edits' = edits
    <3> HIDE DEF stuck, t1, t2
    <3> QED BY <2>0
  <2>2. TxInv(tx) /\ TxOK(tx) /\ StoreInv(tx.st) /\ StoreOK(tx.st)
    BY <2>1 DEF IInv, PInv, TxInv, TxOK
  <2>3. /\ su.rows = tx.st.rows /\ su.seen = tx.st.seen /\ su.accepted = tx.st.accepted
        /\ su.gap = tx.st.gap /\ su.deferred = tx.st.deferred /\ su.ver = tx.st.ver
        /\ su.floor = tx.st.floor /\ su.owed = tx.st.owed /\ su.epoch = tx.st.epoch
        /\ su.work \subseteq tx.st.work
    BY <2>2 DEF StoreInv, Shaped
  <2> HIDE DEF su
  <2>4. StoreOK(su) /\ Draws(su, tx.st)
    BY <2>2, <2>3, BooksOK DEF StoreOK, Typed
  <2>5. ASSUME NEW t, tx' = t, t = t1 \/ t = t2
        PROVE  PInv'
    <3>1. /\ t.kind \in {"drained", "produce"} /\ t.dev = tx.dev /\ t.who = tx.dev
          /\ t.rows = {} /\ t.replay = tx.replay
          /\ t.st = tx.st \/ t.st = su
      BY <2>1, <2>2, <2>5 DEF TxInv
    <3>2. /\ StoreOK(t.st) /\ Draws(t.st, tx.st) /\ t.st.accepted = tx.st.accepted
          /\ t.st.owed = tx.st.owed /\ t.st.rows = tx.st.rows
      BY <2>2, <2>3, <2>4, <3>1 DEF Draws
    <3>3. RowsChosen(t)
      BY <3>1 DEF RowsChosen
    <3>4. Settling(t)
      BY <2>1, <2>2, <3>1, <3>2 DEF TxOK, Settling, StreamPending, Dirty
    <3>5. TxOK(t)
      BY <2>2, <3>1, <3>2, <3>3, <3>4 DEF TxOK, TxInv
    <3>6. t # NoTx
      BY <3>1, KindIsTx
    <3> QED BY <2>1, <2>5, <3>1, <3>2, <3>5, <3>6, TxStep
  <2> HIDE DEF t1, t2
  <2> QED BY <2>1, <2>5
<1> QED BY <1>1, <1>2

\* No step leaves the invariant.
LEMMA NextOK ==
    ASSUME IInv, PInv, [Next]_vars
    PROVE  PInv'
<1>1. CASE \E d, p \in Device : \E e \in store[p].accepted : Ingest(d, p, e)
  BY <1>1, IngestOK
<1>2. CASE \E d \in Device, r \in Row : \E c \in Holdable(store[d]) : Edit(d, r, c)
  BY <1>2, EditOK
<1>3. CASE \E d \in Device : BeginProduce(d)
  BY <1>3, BeginProduceOK
<1>4. CASE \E d \in Device : \E v \in 1..MaxVersion : Open(d, v)
  BY <1>4, OpenOK
<1>5. CASE \E d \in Device, run \in SUBSET Row : BeginCompact(d, run)
  BY <1>5, BeginCompactOK
<1>6. CASE \E r \in Row, n \in 0..MaxLamport : AuthorRow(r, n) \/ CarryRow(r, n)
  BY <1>6, AuthorCarryOK
<1>7. CASE tx # NoTx /\ \E e \in tx.replay : ReplayNext(e)
  BY <1>7, ReplayOK
<1>8. CASE \E n \in 0..MaxLamport : CarryDeletes(n)
  BY <1>8, CarryDeletesOK
<1>9. CASE \E n \in 0..MaxLamport : CarryLive(n)
  BY <1>9, CarryLiveOK
<1>10. CASE \E d, x \in Device : Fold(d, x)
  BY <1>10, FoldOK
<1>11. CASE (\E x \in Device : BeginReadopt(x)) \/ EndReadopt
  BY <1>11, ReadoptOK
<1>12. CASE Commit \/ Abort \/ CompactChains
  BY <1>12, EndOK
<1>13. CASE UNCHANGED vars
  BY <1>13 DEF vars, PInv, Agreed, Owned, States
<1> QED
  BY <1>1, <1>2, <1>3, <1>4, <1>5, <1>6, <1>7, <1>8, <1>9, <1>10, <1>11, <1>12, <1>13 DEF Next

-----------------------------------------------------------------------------
(* What holds of every store *)

\* In every store, in every log and in every transaction, a write is told by
\* the time and the device that signed it first; the device's own store knows
\* every such name; what a transaction still has to sign is as it chose it.
THEOREM NamesAreUnique == Spec => []PInv
<1>1. Init => PInv
  BY InitOK
<1>2. IInv /\ PInv /\ [Next]_vars => PInv'
  BY NextOK
<1> QED BY <1>1, <1>2, RowInvariance, PTL DEF Spec

\* For any devices, rows, contents, versions and budgets: every table keeps
\* the types its columns declare, and only entries that are still in the log
\* are owed a replay (mark_entry_pending).
THEOREM RowTypesHold == Spec => []TypeOK
<1>1. IInv /\ PInv => TypeOK
  <2> SUFFICES ASSUME IInv, PInv
               PROVE  TypeOK
    OBVIOUS
  <2>1. ASSUME NEW st, StoreInv(st), StoreOK(st)
        PROVE  st \in Store /\ Pending(st) \subseteq st.accepted
    <3>1. Typed(st) /\ Shaped(st)
      BY <2>1 DEF StoreOK, StoreInv
    <3>2. st.gap \in SUBSET Entry /\ st.deferred \in SUBSET Entry
      BY <3>1 DEF Typed
    <3>3. st \in Store
      BY <3>1, <3>2 DEF Typed, Shaped, Store
    <3> QED BY <3>1, <3>3 DEF Typed, Pending
  <2>2. \A d \in Device : store[d] \in Store /\ Pending(store[d]) \subseteq store[d].accepted
    BY <2>1 DEF IInv, PInv
  <2>3. store \in [Device -> Store]
    BY <2>2 DEF IInv
  <2>4. tx # NoTx => tx \in TxType
    <3> SUFFICES ASSUME tx # NoTx
                 PROVE  tx \in TxType
      OBVIOUS
    <3>1. TxInv(tx) /\ TxOK(tx)
      BY DEF IInv, PInv
    <3>2. tx.st \in Store
      BY <2>1, <3>1 DEF TxInv, TxOK
    <3>3. tx.replay \in SUBSET Entry
      BY <3>1 DEF TxOK, StoreOK, Typed
    <3> QED BY <3>1, <3>2, <3>3 DEF TxInv, TxOK, TxType
  <2> QED BY <2>2, <2>3, <2>4 DEF TypeOK, PInv
<1> QED BY <1>1, RowInvariance, NamesAreUnique, PTL

\* For any devices, rows, contents, versions and budgets: the published record
\* the producer compares a row with is the write its clock names, also after
\* it was restamped by an upgraded binary, and is gone with the clock.
THEOREM RecordIsWinner == Spec => []PublishedIsWinner
<1>1. PInv => PublishedIsWinner
  <2> SUFFICES ASSUME PInv, NEW st \in States
               PROVE  StoreOK(st)
    BY DEF PublishedIsWinner, StoreOK, Published
  <2> QED BY StatesAre DEF PInv, TxOK
<1> QED BY <1>1, NamesAreUnique, PTL

\* For any devices, rows, contents, versions and budgets: an op that a store
\* signs at its tail takes its own row, so produce_and_author and
\* author_repair never meet the foreign clock they fail on.
THEOREM OwnOpsApply == Spec => []SelfApplyWins
<1>1. IInv /\ PInv => SelfApplyWins
  <2> SUFFICES ASSUME IInv, PInv, tx # NoTx, NEW r \in tx.rows, NEW n \in 0..MaxLamport,
                      IsNextLamport(tx.st, n)
               PROVE  SelfApplies(tx.st, [lam |-> n, dev |-> tx.dev], r)
    BY DEF SelfApplyWins
  <2> DEFINE x == tx.st.rows[r]
             id == [lam |-> n, dev |-> tx.dev]
  <2>1. /\ RowInv(x, tx.st.seen[r]) /\ StoreOK(tx.st) /\ r \in Row
        /\ x.clock \in Clk /\ x.tomb \in Clk
    BY DEF IInv, TxInv, StoreInv, RowsInv, RowInv, RowType, PInv, TxOK
  <2>2. \A s \in tx.st.seen[r] : s.id.lam < n
    <3> SUFFICES ASSUME NEW s \in tx.st.seen[r]
                 PROVE  s.id.lam < n
      OBVIOUS
    <3>1. PICK y \in tx.st.accepted : s.id.lam <= y.lam
      BY <2>1 DEF StoreOK, Knows
    <3>2. y.lam < n /\ y.lam \in Nat
      BY <2>1 DEF IsNextLamport, StoreOK, Typed, Entry
    <3>3. s.id.lam \in Nat
      BY <2>1 DEF StoreOK, Typed, Statement, Clock
    <3> QED BY <3>1, <3>2, <3>3
  <2>3. x.clock.lam < n /\ x.tomb.lam < n
    <3>1. NoClock.lam < n
      BY DEF NoClock
    <3> QED BY <2>1, <2>2, <3>1 DEF RowInv, Latest, Writes, Deletes
  <2>4. x.clock.lam \in Int /\ x.tomb.lam \in Int
    BY <2>1, ClkParts
  <2>5. id.lam = n
    OBVIOUS
  <2> HIDE DEF id
  <2>6. Beats(id, x.clock) /\ Beats(id, x.tomb) /\ ~Beats(x.clock, id)
    BY <2>3, <2>4, <2>5 DEF Beats
  <2> QED BY <2>6 DEF SelfApplies, Takes, id
<1> QED BY <1>1, RowInvariance, NamesAreUnique, PTL

\* For any devices, rows, contents, versions and budgets: a pass of the
\* producer that may author leaves no row behind that differs from what was
\* published of it (produce_row_ops, and the refold and re-adoption after it).
THEOREM PassLeavesNothing == Spec => ProduceSettles
<1>1. IInv /\ PInv /\ [Next]_vars =>
        [tx # NoTx /\ tx.kind \in {"produce", "drained"} /\ Commit /\ ~StreamPending(tx.st) =>
            \A r \in Row : ~Dirty(store'[tx.dev], r)]_vars
  <2> SUFFICES ASSUME IInv, PInv, tx # NoTx, tx.kind \in {"produce", "drained"}, Commit,
                      ~StreamPending(tx.st), NEW r \in Row
               PROVE  ~Dirty(store'[tx.dev], r)
    OBVIOUS
  <2>1. TxOK(tx) /\ tx.dev \in Device /\ tx.rows = {}
    BY DEF PInv, IInv, TxInv, Commit
  <2>2. ~Dirty(tx.st, r)
    BY <2>1 DEF TxOK, Settling
  <2>3. store'[tx.dev] = tx.st
    BY <2>1 DEF Commit, IInv
  <2> QED BY <2>2, <2>3
<1> QED BY <1>1, RowInvariance, NamesAreUnique, PTL DEF Spec, ProduceSettles
=============================================================================
