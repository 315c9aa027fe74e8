----------------------------- MODULE TableChain -----------------------------
(***************************************************************************)
(* The signed per-device chains of one table-sync stream as ONE store      *)
(* keeps them (crates/rag-rat-oplog/src/table_sync: store.rs, coverage.rs, *)
(* retention.rs, engine.rs).  A store is a record of the tables it keeps;  *)
(* the operators below are the functions of the code over that record.     *)
(* ChainStore, the module with state, applies them.                        *)
(*                                                                         *)
(* An entry is abstracted to what the chain rules read: its hash, signer,  *)
(* Lamport time and predecessor hash.  Signature, stream and size checks   *)
(* have passed already (the transport drops what fails them), and the      *)
(* payload appears only as "projected" or "pending".                       *)
(***************************************************************************)
EXTENDS Naturals, FiniteSets

CONSTANTS
    Device,             \* the device fingerprints of the account
    Entry,              \* every entry signed on the stream, honestly or not
    MaxEntryLamport,    \* MAX_ENTRY_LAMPORT, the protocol ceiling
    MaxLamportAdvance,  \* MAX_LAMPORT_ADVANCE
    MaxGappedPerChain   \* MAX_GAPPED_PER_CHAIN

NoHash == 0

ASSUME BoundsAssumption ==
    /\ MaxEntryLamport \in Nat
    /\ MaxLamportAdvance \in Nat
    /\ MaxGappedPerChain \in Nat \ {0}

\* Hashes identify entries (collision freedom), 0 is no hash, and no entry
\* cites itself: an entry's hash is taken over its predecessor's.
ASSUME EntryAssumption ==
    /\ \A e \in Entry : /\ e.hash \in Nat \ {NoHash}
                        /\ e.dev \in Device
                        /\ e.lam \in Nat
                        /\ e.prev \in Nat
                        /\ e.prev # e.hash
    /\ \A e, f \in Entry : e.hash = f.hash => e = f

-----------------------------------------------------------------------------
(* Cursors and the store's tables *)

\* A position in a chain: store::ChainCursor.
Cursor == [lam : Nat, hash : Nat]
NoCursor == [lam |-> 0, hash |-> NoHash]
CursorOf(e) == [lam |-> e.lam, hash |-> e.hash]

\* A row of table_sync_suffix_coverage.
Obligation == [floor : Nat, tip : Cursor]
NoObligation == [floor |-> 0, tip |-> NoCursor]

\* accepted: table_sync_entries; pending: those with a pending_reason;
\* gapped: table_sync_gapped_entries; tip: table_sync_chain_tips;
\* floor: table_sync_retained_floors; cover: table_sync_suffix_coverage;
\* writers: the roster-effective writers of the account.
Store == [accepted : SUBSET Entry,
          pending  : SUBSET Entry,
          gapped   : SUBSET Entry,
          tip      : [Device -> Cursor],
          floor    : [Device -> Cursor],
          cover    : [Device -> Obligation],
          writers  : SUBSET Device]

EmptyStore(writers) ==
    [accepted |-> {}, pending |-> {}, gapped |-> {},
     tip   |-> [d \in Device |-> NoCursor],
     floor |-> [d \in Device |-> NoCursor],
     cover |-> [d \in Device |-> NoObligation],
     writers |-> writers]

Chain(s, d) == {e \in s.accepted : e.dev = d}
Held(s, d)  == {e \in s.gapped : e.dev = d}

\* chain_tail: the cursor of the highest accepted entry of the device.
ChainTail(s, d) ==
    IF Chain(s, d) = {} THEN NoCursor
    ELSE CursorOf(CHOOSE e \in Chain(s, d) : \A x \in Chain(s, d) : x.lam <= e.lam)

EntryExists(s, hash) == \E e \in s.accepted : e.hash = hash

StreamPending(s) == \E d \in Device : s.cover[d] # NoObligation

\* The Lamport times stream_max_lamport takes the maximum of.
StreamLamports(s) ==
    {e.lam : e \in s.accepted}
        \cup {s.tip[d].lam : d \in {x \in Device : s.tip[x] # NoCursor}}

\* next_stream_lamport.
IsNextLamport(s, n) ==
    /\ IF StreamLamports(s) = {} THEN n = 0
       ELSE \E m \in StreamLamports(s) :
              n = m + 1 /\ \A k \in StreamLamports(s) : k <= m
    /\ n < MaxEntryLamport

\* The two Lamport bounds accept_row_entry enforces with an error.
WithinLamportBounds(s, e) ==
    /\ e.lam < MaxEntryLamport
    /\ \/ e.lam <= MaxLamportAdvance
       \/ \E m \in StreamLamports(s) : e.lam <= m + MaxLamportAdvance

-----------------------------------------------------------------------------
(* classify: how an entry fits the tail of its device's chain *)

\* Mutant: adoption forgets the witness a purge left behind.
AdoptsRootIgnoringWitness(s, e, floor) ==
    /\ floor = CursorOf(e)
    /\ Chain(s, e.dev) # {} => floor.lam > ChainTail(s, e.dev).lam

\* The entry IS the advertised floor and the chain may adopt it as its root.
AdoptsRoot(s, e, floor) ==
    /\ floor = CursorOf(e)
    /\ IF Chain(s, e.dev) = {}
       THEN LET witness == s.tip[e.dev] IN
            ~(/\ witness # NoCursor
              /\ floor # witness
              /\ floor.lam <= witness.lam)
       ELSE floor.lam > ChainTail(s, e.dev).lam

FitToWitness(witness, e) ==
    IF CursorOf(e) = witness THEN "restore"
    ELSE IF e.prev = witness.hash /\ e.lam > witness.lam THEN "ok"
    ELSE IF e.prev = NoHash \/ e.lam <= witness.lam THEN "conflict"
    ELSE "gap"

\* Mutant: a later entry extends the chain whatever it links to.
FitToTailByTime(s, e) ==
    IF Chain(s, e.dev) = {}
    THEN IF e.prev = NoHash THEN "ok" ELSE "gap"
    ELSE IF e.lam > ChainTail(s, e.dev).lam THEN "ok" ELSE "conflict"

\* Mutant: a second successor of a stored ancestor is taken for a gap.
FitToTailNoAncestorCheck(s, e) ==
    LET tail == ChainTail(s, e.dev)
    IN  IF Chain(s, e.dev) = {}
        THEN IF e.prev = NoHash THEN "ok" ELSE "gap"
        ELSE IF e.prev = NoHash \/ e.lam <= tail.lam THEN "conflict"
             ELSE IF e.prev = tail.hash THEN "ok" ELSE "gap"

FitToTail(s, e) ==
    LET tail == ChainTail(s, e.dev)
    IN  IF Chain(s, e.dev) = {}
        THEN IF e.prev = NoHash THEN "ok"
             ELSE IF EntryExists(s, e.prev) THEN "conflict" ELSE "gap"
        ELSE IF e.prev = NoHash THEN "conflict"
             ELSE IF e.prev = tail.hash /\ e.lam > tail.lam THEN "ok"
             ELSE IF e.lam <= tail.lam \/ EntryExists(s, e.prev) THEN "conflict"
             ELSE "gap"

Classify(s, e, floor) ==
    IF AdoptsRoot(s, e, floor) THEN "root"
    ELSE IF Chain(s, e.dev) = {} /\ s.tip[e.dev] # NoCursor
         THEN FitToWitness(s.tip[e.dev], e)
         ELSE FitToTail(s, e)

-----------------------------------------------------------------------------
(* Held entries *)

\* (lamport, hash) order: a property of the entries, not of arrival order.
Before(e, f) == e.lam < f.lam \/ (e.lam = f.lam /\ e.hash < f.hash)

HeldChildren(s, d, parent) == {g \in Held(s, d) : g.prev = parent}

\* The least set of held entries closed under citation of `hash`.
HeldDescendants(s, hash) ==
    LET Closed(D) == \A g \in s.gapped :
                       (g.prev = hash \/ \E x \in D : g.prev = x.hash) => g \in D
    IN  {g \in s.gapped : \A D \in SUBSET s.gapped : Closed(D) => g \in D}

\* discard_gapped_descendants
DiscardDescendants(s, hash) ==
    [s EXCEPT !.gapped = @ \ HeldDescendants(s, hash)]

\* discard_foreign_chain_citations: held entries of OTHER devices that cite
\* the hash just accepted, with everything held behind them.
DiscardForeignCitations(s, d, hash) ==
    LET cited == {g \in s.gapped : g.prev = hash /\ g.dev # d}
    IN  [s EXCEPT !.gapped =
            @ \ (cited \cup UNION {HeldDescendants(s, g.hash) : g \in cited})]

\* retain_gapped_entry: at the cap, the entry furthest from the tail goes,
\* be it the newcomer or one already held.
RetainGapped(s, e) ==
    LET held == Held(s, e.dev)
        furthest == CHOOSE g \in held : \A h \in held : h = g \/ Before(h, g)
    IN  IF Cardinality(held) < MaxGappedPerChain
        THEN [s EXCEPT !.gapped = @ \cup {e}]
        ELSE IF Before(e, furthest)
             THEN [s EXCEPT !.gapped = (@ \ {furthest}) \cup {e}]
             ELSE s

\* The sweep both floor writers end with: nothing held below the floor.
SweepBelow(s, d, lam) ==
    [s EXCEPT !.gapped = {g \in @ : ~(g.dev = d /\ g.lam < lam)}]

-----------------------------------------------------------------------------
(* insert_entry and accept_row_entry *)

\* The witness rises with the entry and is never lowered.
InsertEntry(s, e, pending) ==
    [s EXCEPT !.accepted = @ \cup {e},
              !.pending = IF pending THEN @ \cup {e} ELSE @,
              !.tip[e.dev] =
                  IF @ = NoCursor \/ e.lam > @.lam THEN CursorOf(e) ELSE @]

\* record_adopted_floor
RecordAdoptedFloor(s, d, floor) ==
    SweepBelow([s EXCEPT !.floor[d] =
                   IF @ = NoCursor \/ floor.lam > @.lam THEN floor ELSE @],
               d, floor.lam)

BelowFloor(s, e) == s.floor[e.dev] # NoCursor /\ e.lam < s.floor[e.dev].lam

\* A parked copy of the advertised floor leaves the held table and competes
\* for adoption like any arrival.
AdoptableFloorRoot(s, e, floor) ==
    /\ floor = CursorOf(e)
    /\ Chain(s, e.dev) = {} \/ e.lam > ChainTail(s, e.dev).lam

\* Mutant: the held entry is read, not taken.
NotUnparked(s, e) == s

Unparked(s, e) == [s EXCEPT !.gapped = @ \ {e}]

\* The outcome of accept_row_entry for an entry within the Lamport bounds.
AcceptOutcome(s, e, floor) ==
    IF e \in s.accepted \/ BelowFloor(s, e) THEN "present"
    ELSE IF e.dev \notin s.writers THEN "unauthorized"
    ELSE IF e \in s.gapped /\ ~AdoptableFloorRoot(s, e, floor) THEN "held"
    ELSE Classify(Unparked(s, e), e, floor)

StoringOutcomes == {"ok", "root", "restore"}

\* The store accept_row_entry leaves, where the payload's verdict (`pending`)
\* matters only if the entry is stored.
AcceptRowEntry(s, e, floor, pending) ==
    LET outcome == AcceptOutcome(s, e, floor)
        u == Unparked(s, e)
    IN  CASE outcome \in {"ok", "restore"} -> InsertEntry(u, e, pending)
          [] outcome = "root" ->
                InsertEntry(RecordAdoptedFloor(u, e.dev, floor), e, pending)
          [] outcome = "gap" -> RetainGapped(u, e)
          [] outcome = "conflict" -> u
          [] OTHER -> s

-----------------------------------------------------------------------------
(* Compaction *)

\* compact_overdue_against and compact_chain_prefix.  Which entry a chain's
\* budget and pins make its floor is left open here (TableRows decides it);
\* it is an accepted entry past the current floor and never past a pending one.
CompactionTargets(s, d) ==
    {x \in Chain(s, d) :
        /\ x.lam > s.floor[d].lam
        /\ \A p \in s.pending : p.dev = d => x.lam <= p.lam}

\* Mutant: all up to the floor goes, the floor and pending entries with it.
CompactPrefixesInclusive(s, floors) ==
    LET Below(e) == \E x \in floors : e.dev = x.dev /\ e.lam <= x.lam
    IN  [s EXCEPT
           !.accepted = {e \in @ : ~Below(e)},
           !.gapped = {g \in @ : ~Below(g)},
           !.floor = [d \in Device |->
                        IF \E x \in floors : x.dev = d
                        THEN CursorOf(CHOOSE x \in floors : x.dev = d) ELSE @[d]]]

\* compact_chain_prefix on the chain of each new floor entry.
CompactPrefixes(s, floors) ==
    LET Below(e) == \E x \in floors : e.dev = x.dev /\ e.lam < x.lam
    IN  [s EXCEPT
           !.accepted = {e \in @ : Below(e) => e \in s.pending},
           !.gapped = {g \in @ : ~Below(g)},
           !.floor = [d \in Device |->
                        IF \E x \in floors : x.dev = d
                        THEN CursorOf(CHOOSE x \in floors : x.dev = d) ELSE @[d]]]

-----------------------------------------------------------------------------
(* Suffix coverage *)

\* ingest_received_against, after the ingest: an adoption that moved the
\* floor records what the peer promised above it (coverage::record), then
\* clear_delivered drops an obligation whose exact tip is accepted.
RecordCoverage(s, d, floorBefore, advertisedTip) ==
    IF s.floor[d] # floorBefore
    THEN [s EXCEPT !.cover[d] = [floor |-> s.floor[d].lam, tip |-> advertisedTip]]
    ELSE s

ClearDelivered(s, d) ==
    IF \E e \in Chain(s, d) : CursorOf(e) = s.cover[d].tip
    THEN [s EXCEPT !.cover[d] = NoObligation]
    ELSE s

\* Mutant: delivery is never checked.
SettleCoverageRecordOnly(s, d, floorBefore, advertisedTip) ==
    RecordCoverage(s, d, floorBefore, advertisedTip)

SettleCoverage(s, d, floorBefore, advertisedTip) ==
    ClearDelivered(RecordCoverage(s, d, floorBefore, advertisedTip), d)
=============================================================================
