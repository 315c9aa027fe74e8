---------------------------- MODULE TableSession -----------------------------
(***************************************************************************)
(* Table-sync sessions between stores (crates/rag-rat-sync/src/            *)
(* table_session.rs) over the transport's reads of a store                 *)
(* (crates/rag-rat-oplog/src/table_sync/transport.rs) and TableChain.      *)
(*                                                                         *)
(* One stream; one session at a time, as a dialer holds its database's     *)
(* session lock; each side is a sequence of steps between two frames, and  *)
(* between any two of them another process may author, compact, purge the  *)
(* repository or move entries in a session of its own.  A session may end  *)
(* at any frame (timeout, lost connection, crash).                         *)
(*                                                                         *)
(* A chain signed twice forks at its beginning, so that the promotion loop *)
(* meets no siblings (ChainStore has the general loop).                    *)
(***************************************************************************)
EXTENDS TableChain, Sequences, SequencesExt

CONSTANTS
    Node,               \* the stores
    SignsAs,            \* [Node -> Device] the device each store signs as
    Seed,               \* [Node -> set of entries] what each store starts with
    Keeper,             \* a store nobody purges: it keeps its chains' tails
    Dials,              \* [Node -> set of nodes] the peers each store dials
    ChainsPerPage,      \* limits.chains_per_page
    ChainsPerSession,   \* limits.chains_per_session
    EntriesPerPage,     \* limits.entries_per_page
    EntriesPerSession,  \* limits.entries_per_session
    MaxRounds,          \* MAX_RECONCILE_ROUNDS
    Window,             \* frames the connection buffers
    MaxFaults           \* bounds purges, compactions, aborts and side sessions

\* A chain nobody signed twice.
Honest == {d \in Device : \A e, f \in Entry : e.dev = d /\ f.dev = d /\ e.prev = f.prev => e = f}

ASSUME SessionAssumption ==
    /\ Device \subseteq Nat \ {0}  \* ordered; 0 is before the first
    /\ Keeper \in Node
    /\ \A n \in Node : SignsAs[n] \in Device /\ Dials[n] \subseteq Node \ {n}
    /\ {ChainsPerPage, ChainsPerSession, EntriesPerPage, EntriesPerSession, Window} \subseteq Nat \ {0}
    /\ MaxFaults \in Nat
    /\ \A n \in Node : /\ Seed[n] \subseteq Entry /\ IsFiniteSet(Seed[n])
                       /\ \A e, f \in Seed[n] : e.dev = f.dev /\ e.lam = f.lam => e = f

\* sign_next_row_entry signs after the tail of the device's own chain, at a
\* later time.  A chain signed twice forks only at its beginning; of any other
\* chain nothing lies between an entry and the one it follows.
ASSUME SigningAssumption ==
    /\ \A e, f \in Entry : e.prev = f.hash => e.dev = f.dev /\ f.lam < e.lam
    /\ \A e, f \in Entry :
          e.dev = f.dev /\ e.prev = f.prev /\ e.prev # NoHash => e = f
    /\ \A x, e \in Entry :
          x.dev = e.dev /\ x.dev \in Honest =>
             /\ x.lam = e.lam => x = e
             /\ \A f \in Entry : e.prev = f.hash => ~(f.lam < x.lam /\ x.lam < e.lam)

VARIABLES
    db,      \* [Node -> Store]
    sess,    \* the session in progress, or NoSession
    faults   \* how many of MaxFaults happened

vars == <<db, sess, faults>>

-----------------------------------------------------------------------------
(* What the transport reads of a store *)

\* A row of accepted_chain_page: a store that owes a suffix advertises the tip
\* it was promised.
ChainHead(s, d) ==
    [dev   |-> d,
     tip   |-> IF s.cover[d] # NoObligation THEN s.cover[d].tip ELSE ChainTail(s, d),
     floor |-> s.floor[d]]

\* The first `limit` members of a set in the order of their distinct keys.
FirstInOrder(S, key, limit) ==
    LET Rank(x) == Cardinality({y \in S : key[y] <= key[x]})
    IN  [i \in 1..(IF Cardinality(S) < limit THEN Cardinality(S) ELSE limit) |->
            CHOOSE x \in S : Rank(x) = i]

ChainPage(s, after, limit) ==
    LET page == FirstInOrder({d \in Device : d > after /\ Chain(s, d) # {}},
                             [d \in Device |-> d], limit)
    IN  [i \in DOMAIN page |-> ChainHead(s, page[i])]

ChainFrontier(s, d) ==
    LET tail == ChainTail(s, d)
        witness == s.tip[d]
    IN  IF tail = NoCursor /\ witness = NoCursor THEN [kind |-> "empty", at |-> NoCursor]
        ELSE IF tail = NoCursor \/ (witness # NoCursor /\ witness.lam > tail.lam)
        THEN [kind |-> "restore", at |-> witness]
        ELSE [kind |-> "accepted", at |-> tail]

\* cursor_matches: TRUE, FALSE or the UnservableChainCursor it raises.
Matches(s, d, c)   == \E e \in Chain(s, d) : CursorOf(e) = c
Conflicts(s, d, c) == \E e \in Chain(s, d) : e.lam = c.lam /\ e.hash # c.hash

\* below_rootless_holdings: the cursor is below all that is held, and what is
\* held does not begin at the beginning.
BelowRootlessHoldings(s, d, lam) ==
    \E e \in Chain(s, d) :
        /\ \A x \in Chain(s, d) : e.lam <= x.lam
        /\ e.prev # NoHash
        /\ lam < e.lam

\* The peer is further through the suffix this store still owes.
PeerIsAhead(s, d, c) ==
    /\ s.cover[d] # NoObligation
    /\ Chain(s, d) # {}
    /\ c.lam > ChainTail(s, d).lam
    /\ c.lam <= s.cover[d].tip.lam

DirectSuccessors(s, d, c) == {e \in Chain(s, d) : e.prev = c.hash /\ e.lam > c.lam}

\* accepted_chain_entries: "page" with the entries, "skip" for a cursor that
\* is unservable, "error" for the one that fails the session.
ChainEntries(s, d, start, limit) ==
    LET c == start.at
        From(lam) ==
            [kind |-> "page",
             entries |-> FirstInOrder({e \in Chain(s, d) : e.lam >= lam},
                                     [e \in Chain(s, d) |-> e.lam], limit)]
        Nothing == [kind |-> "page", entries |-> <<>>]
        Skip  == [kind |-> "skip", entries |-> <<>>]
        Error == [kind |-> "error", entries |-> <<>>]
    IN  IF start.kind = "beginning" THEN From(0)
        ELSE IF PeerIsAhead(s, d, c)
             THEN IF c.lam = s.cover[d].tip.lam /\ c # s.cover[d].tip THEN Error ELSE Nothing
        ELSE IF Conflicts(s, d, c) THEN Skip
        ELSE IF start.kind = "after"
             THEN IF Matches(s, d, c) THEN From(c.lam + 1)
                  ELSE IF BelowRootlessHoldings(s, d, c.lam) THEN Nothing ELSE Skip
        ELSE IF Matches(s, d, c) THEN From(c.lam)
        ELSE IF DirectSuccessors(s, d, c) # {}
             THEN From((CHOOSE e \in DirectSuccessors(s, d, c) : TRUE).lam)
        ELSE IF BelowRootlessHoldings(s, d, c.lam) THEN Nothing ELSE Skip

-----------------------------------------------------------------------------
(* ingest: ingest_received_against around engine::ingest *)

\* The promotion loop: everything held in an unbroken line behind the entry.
Promote(s, e) ==
    LET line == HeldDescendants(s, e.hash)
        last == CHOOSE x \in line \cup {e} : \A y \in line \cup {e} : y.lam <= x.lam
    IN  [s EXCEPT !.accepted = @ \cup line,
                  !.gapped = @ \ line,
                  !.tip[e.dev] = IF last.lam > @.lam THEN CursorOf(last) ELSE @]

AdvertisementIsValid(head) ==
    head.floor # NoCursor =>
        /\ head.floor.lam <= head.tip.lam
        /\ head.tip.lam < MaxEntryLamport
        /\ head.floor.lam = head.tip.lam => head.floor = head.tip

IngestFails(s, head, e) == ~AdvertisementIsValid(head) \/ ~WithinLamportBounds(s, e)

Ingested(s, head, e) ==
    LET stored == AcceptRowEntry(s, e, head.floor, FALSE)
        settled == IF AcceptOutcome(s, e, head.floor) \in StoringOutcomes
                   THEN Promote(stored, e) ELSE stored
    IN  SettleCoverage(settled, e.dev, s.floor[e.dev], head.tip)

-----------------------------------------------------------------------------
(* chain_plan *)

\* Mutant: the retained floor is ignored (before #1127 and #1481).
SendFromNoFloor(head, frontier) ==
    IF frontier.kind = "accepted" THEN [kind |-> "after", at |-> frontier.at]
    ELSE [kind |-> "at", at |-> frontier.at]

\* Where to send from: a peer below the retained floor is re-rooted onto it.
SendFrom(head, frontier) ==
    IF head.floor # NoCursor /\ frontier.at.lam < head.floor.lam
    THEN [kind |-> "at", at |-> head.floor]
    ELSE IF frontier.kind = "accepted" THEN [kind |-> "after", at |-> frontier.at]
    ELSE [kind |-> "at", at |-> frontier.at]

NoStart == [kind |-> "none", at |-> NoCursor]

ChainPlan(head, frontier) ==
    LET at == frontier.at IN
    CASE frontier.kind = "empty" -> [plan |-> "send", start |-> [kind |-> "beginning", at |-> NoCursor]]
      [] frontier.kind = "accepted" /\ at.lam >= head.tip.lam ->
            [plan |-> IF at.lam > head.tip.lam \/ at = head.tip THEN "complete" ELSE "diverged",
             start |-> NoStart]
      [] frontier.kind = "restore" /\ at.lam > head.tip.lam -> [plan |-> "pending", start |-> NoStart]
      [] OTHER -> [plan |-> "send", start |-> SendFrom(head, frontier)]

-----------------------------------------------------------------------------
(* The session *)

NoSession == [place |-> "none"]

\* A session at the beginning of its first direction.  Who dialed, the round
\* of the reconcile loop, what moved, is pending or was skipped in either
\* direction, and whether another process disturbed one of the stores
\* meanwhile.  Of the direction, the sender: place, after (last device
\* offered), page (the chains of the inventory still to serve, with the
\* answers), start (the cursor of the chain being served), chains and sent
\* (against the caps), owes (stream_pending); the receiver: expect, offered
\* (its copy of the inventory), got.  wire: the frames in flight.
Session(x, y, round) ==
    [dialer |-> x, round |-> round, moved |-> FALSE, pending |-> FALSE,
     skipped |-> {}, disturbed |-> FALSE,
     place |-> "start", from |-> x, to |-> y, after |-> 0, page |-> <<>>, start |-> NoStart,
     chains |-> 0, sent |-> 0, owes |-> FALSE,
     expect |-> "stream", offered |-> <<>>, got |-> 0, wire |-> <<>>]

\* The other direction of the same session.
Turned(s) ==
    [Session(s.to, s.from, s.round) EXCEPT
        !.dialer = s.dialer, !.moved = s.moved, !.pending = s.pending,
        !.skipped = s.skipped, !.disturbed = s.disturbed]

Frame(type, body) == [type |-> type, body |-> body]

Put(frames) == sess.wire \o frames
HasRoom == Len(sess.wire) < Window

Init ==
    /\ db = [n \in Node |->
               LET s == EmptyStore(Device)
               IN  [s EXCEPT !.accepted = Seed[n],
                             !.tip = [d \in Device |-> ChainTail([s EXCEPT !.accepted = Seed[n]], d)]]]
    /\ sess = NoSession
    /\ faults = 0

\* connect_and_table_reconcile dials; both sides exchange their manifests.
Dial(x, y) ==
    /\ sess = NoSession /\ y \in Dials[x]
    /\ sess' = Session(x, y, 1)
    /\ UNCHANGED <<db, faults>>

\* Mutant: the stream's flag is not carried into the session's report.
EndStreamQuiet(s, owes) ==
    [s EXCEPT !.place = "sent", !.owes = owes,
              !.wire = @ \o <<Frame("streamdone", owes), Frame("done", owes)>>]

\* The sender ends its only stream.
EndStream(s, owes) ==
    [s EXCEPT !.place = "sent", !.owes = owes, !.pending = @ \/ owes,
              !.wire = @ \o <<Frame("streamdone", owes), Frame("done", owes)>>]

\* send_direction, the top of the page loop: offer the next page of chains, or
\* end the stream.
Offer ==
    /\ sess # NoSession /\ sess.place \in {"start", "offer"} /\ HasRoom
    /\ LET s == db[sess.from]
           owes == IF sess.place = "start" THEN StreamPending(s) ELSE sess.owes
           room == ChainsPerSession - sess.chains
           page == ChainPage(s, sess.after, IF room < ChainsPerPage THEN room ELSE ChainsPerPage)
       IN  sess' = IF room = 0 /\ ChainPage(s, sess.after, 1) # <<>>
                   THEN [sess EXCEPT !.place = "error"]
                   ELSE IF page = <<>> THEN EndStream(sess, owes)
                   ELSE [sess EXCEPT !.place = "await", !.owes = owes,
                                     !.chains = @ + Len(page),
                                     !.wire = Put(<<Frame("inventory", page)>>)]
    /\ UNCHANGED <<db, faults>>

\* receive_direction answers an inventory with its frontiers.
Answer ==
    /\ sess # NoSession /\ sess.wire # <<>> /\ sess.expect = "stream"
    /\ Head(sess.wire).type = "inventory"
    /\ LET heads == Head(sess.wire).body IN
       sess' = [sess EXCEPT
                  !.wire = Tail(@), !.expect = "page", !.offered = heads,
                  !.place = "serve", !.start = NoStart, !.after = Last(heads).dev,
                  !.page = [i \in DOMAIN heads |->
                              [head |-> heads[i],
                               frontier |-> ChainFrontier(db[sess.to], heads[i].dev)]]]
    /\ UNCHANGED <<db, faults>>

\* The chain being served and where to read it from.
Serving == Head(sess.page)
Plan    == ChainPlan(Serving.head, Serving.frontier)
Cursor0 == IF sess.start = NoStart THEN Plan.start ELSE sess.start
Read    ==
    ChainEntries(db[sess.from], Serving.head.dev, Cursor0,
                 IF EntriesPerPage < EntriesPerSession - sess.sent
                 THEN EntriesPerPage ELSE EntriesPerSession - sess.sent)
MayServe == sess # NoSession /\ sess.place = "serve" /\ sess.page # <<>> /\ sess.sent < EntriesPerSession
Sends    == sess.start # NoStart \/ Plan.plan = "send"

\* A chain with nothing to send: complete, owed by us, or diverged.
PassOver ==
    /\ MayServe /\ ~Sends
    /\ sess' = [sess EXCEPT !.page = Tail(@),
                            !.owes = @ \/ Plan.plan = "pending",
                            !.skipped = IF Plan.plan = "diverged" THEN @ \cup {Serving.head.dev} ELSE @]
    /\ UNCHANGED <<db, faults>>

\* One page of entries.
SendPage ==
    /\ MayServe /\ Sends /\ HasRoom
    /\ Read.kind = "page" /\ Read.entries # <<>>
    /\ sess' = [sess EXCEPT !.start = [kind |-> "after", at |-> CursorOf(Last(Read.entries))],
                            !.sent = @ + Len(Read.entries),
                            !.moved = TRUE,
                            !.wire = Put(<<Frame("entries", Read.entries)>>)]
    /\ UNCHANGED <<db, faults>>

\* Mutant: an empty page always means that all was delivered.
DeliveredAlways(start, tip) == TRUE

\* An exhausted chain was delivered if the last cursor reached the offered tip.
Delivered(start, tip) ==
    /\ start.kind = "after"
    /\ start.at.lam > tip.lam \/ start.at = tip

\* The page is empty or the cursor is unservable: on to the next chain.
EndChain ==
    /\ MayServe /\ Sends
    /\ Read.entries = <<>>
    /\ sess' = CASE Read.kind = "error" -> [sess EXCEPT !.place = "error"]
                 [] Read.kind = "skip" ->
                      [sess EXCEPT !.page = Tail(@), !.start = NoStart,
                                   !.skipped = @ \cup {Serving.head.dev}]
                 [] Read.kind = "page" ->
                      [sess EXCEPT !.page = Tail(@), !.start = NoStart,
                                   !.owes = @ \/ ~Delivered(Cursor0, Serving.head.tip)]
    /\ UNCHANGED <<db, faults>>

\* Mutant: the cap leaves the loop before the inventory is ended.
EndInventoryCut ==
    /\ sess # NoSession /\ sess.place = "serve" /\ HasRoom
    /\ \/ /\ sess.sent >= EntriesPerSession
          /\ sess' = EndStream([sess EXCEPT !.page = <<>>, !.start = NoStart], TRUE)
       \/ /\ sess.sent < EntriesPerSession /\ sess.page = <<>>
          /\ sess' = [sess EXCEPT !.wire = Put(<<Frame("invdone", 0)>>), !.start = NoStart,
                                  !.place = "offer"]
    /\ UNCHANGED <<db, faults>>

\* The inventory is served, or the entry cap is reached.
EndInventory ==
    /\ sess # NoSession /\ sess.place = "serve" /\ HasRoom
    /\ LET done == [sess EXCEPT !.wire = Put(<<Frame("invdone", 0)>>), !.page = <<>>, !.start = NoStart] IN
       \/ /\ sess.sent >= EntriesPerSession
          /\ sess' = EndStream(done, TRUE)
       \/ /\ sess.sent < EntriesPerSession /\ sess.page = <<>>
          /\ sess' = [done EXCEPT !.place = "offer"]
    /\ UNCHANGED <<db, faults>>

\* receive_direction ingests the entries of a frame, each in its transaction.
Deliver ==
    /\ sess # NoSession /\ sess.wire # <<>> /\ Head(sess.wire).type = "entries"
    /\ sess.expect = "page"
    /\ LET frame == Head(sess.wire)
           e == Head(frame.body)
           head == sess.offered[CHOOSE i \in DOMAIN sess.offered : sess.offered[i].dev = e.dev]
           rest == IF Len(frame.body) = 1 THEN Tail(sess.wire)
                   ELSE <<Frame("entries", Tail(frame.body))>> \o Tail(sess.wire)
       IN  IF sess.got + Len(frame.body) > EntriesPerSession \/ IngestFails(db[sess.to], head, e)
           THEN sess' = [sess EXCEPT !.place = "error"] /\ UNCHANGED db
           ELSE /\ sess' = [sess EXCEPT !.got = @ + 1, !.wire = rest]
                /\ db' = [db EXCEPT ![sess.to] = Ingested(@, head, e)]
    /\ UNCHANGED faults

\* The frames that only move the receiver on; any frame it does not expect is
\* a protocol error.
Expected == [invdone |-> "page", streamdone |-> "stream", done |-> "done",
             inventory |-> "stream", entries |-> "page"]
Follow   == [invdone |-> "stream", streamdone |-> "done", done |-> "end"]

Advance ==
    /\ sess # NoSession /\ sess.wire # <<>>
    /\ LET type == Head(sess.wire).type IN
       /\ type \in DOMAIN Follow \/ Expected[type] # sess.expect
       /\ sess' = IF Expected[type] = sess.expect
                  THEN [sess EXCEPT !.wire = Tail(@), !.expect = Follow[type]]
                  ELSE [sess EXCEPT !.place = "error"]
    /\ UNCHANGED <<db, faults>>

\* The dialer has sent and turns to receiving; the acceptor sends.
TurnAround ==
    /\ sess # NoSession /\ sess.expect = "end" /\ sess.from = sess.dialer
    /\ sess' = Turned(sess)
    /\ UNCHANGED <<db, faults>>

\* Both directions are done and acknowledged: another round of the reconcile
\* loop if this one moved or left anything, up to the cap.
Moved == sess.moved \/ sess.pending
Finished == sess # NoSession /\ sess.expect = "end" /\ sess.from # sess.dialer
Finish ==
    /\ Finished
    /\ sess' = IF Moved /\ sess.round < MaxRounds
               THEN Session(sess.dialer, sess.from, sess.round + 1)
               ELSE NoSession
    /\ UNCHANGED <<db, faults>>

-----------------------------------------------------------------------------
(* Everybody else *)

Touched(n) ==
    IF sess # NoSession /\ n \in {sess.from, sess.to} THEN [sess EXCEPT !.disturbed = TRUE] ELSE sess

Fault == faults < MaxFaults /\ faults' = faults + 1

\* The session ends: an idle timeout, a lost connection, a killed process; an
\* errored one always.
Abort ==
    /\ sess # NoSession
    /\ IF sess.place = "error" THEN UNCHANGED faults ELSE Fault
    /\ sess' = NoSession
    /\ UNCHANGED db

\* prepare, first half (sign_next_row_entry): a local edit is signed.
Author(n, e) ==
    /\ e.dev = SignsAs[n]
    /\ ~StreamPending(db[n])
    /\ db[n].tip[e.dev] # NoCursor => ChainTail(db[n], e.dev) = db[n].tip[e.dev]
    /\ IsNextLamport(db[n], e.lam)
    /\ e.prev = ChainTail(db[n], e.dev).hash
    /\ db' = [db EXCEPT ![n] = InsertEntry(@, e, FALSE)]
    /\ sess' = Touched(n)
    /\ UNCHANGED faults

\* prepare, second half: a chain over its budget is compacted.
Compact(n, x) ==
    /\ Fault
    /\ ~StreamPending(db[n])
    /\ x \in CompactionTargets(db[n], x.dev)
    /\ db' = [db EXCEPT ![n] = CompactPrefixes(@, {x})]
    /\ sess' = Touched(n)

\* purge_repo_rows.
Purge(n) ==
    /\ Fault /\ n # Keeper /\ db[n].accepted \cup db[n].gapped # {}
    /\ db' = [db EXCEPT ![n] = [@ EXCEPT !.accepted = {}, !.pending = {}, !.gapped = {},
                                         !.floor = [d \in Device |-> NoCursor]]]
    /\ sess' = Touched(n)

\* Another session brings n, meanwhile, the first entry m would send it, and ends.
SideSession(m, n, d) ==
    /\ Fault /\ m # n /\ Chain(db[m], d) # {}
    /\ sess # NoSession /\ n \in {sess.from, sess.to}
    /\ LET head == ChainHead(db[m], d)
           plan == ChainPlan(head, ChainFrontier(db[n], d))
           read == ChainEntries(db[m], d, plan.start, 1)
       IN  /\ plan.plan = "send" /\ read.entries # <<>>
           /\ ~IngestFails(db[n], head, read.entries[1])
           /\ db' = [db EXCEPT ![n] = Ingested(@, head, read.entries[1])]
    /\ sess' = Touched(n)

-----------------------------------------------------------------------------

SessionStep ==
    \/ Offer \/ Answer \/ PassOver \/ SendPage \/ EndChain \/ EndInventory
    \/ Deliver \/ Advance \/ TurnAround \/ Finish

Next ==
    \/ \E x, y \in Node : Dial(x, y)
    \/ SessionStep
    \/ Abort
    \/ \E n \in Node : \/ \E e \in Entry : Author(n, e) \/ Compact(n, e)
                       \/ Purge(n)
                       \/ \E m \in Node, d \in Device : SideSession(m, n, d)

Spec == Init /\ [][Next]_vars

\* A session in progress moves on, and every store keeps dialing its peers.
FairSpec ==
    Spec /\ WF_vars(SessionStep) /\ \A n \in Node : \A m \in Dials[n] : SF_vars(Dial(n, m))

-----------------------------------------------------------------------------
(* Properties *)

\* The types, and what sessions keep of every store: a suffix is owed only
\* while its promised tip is still ahead of the chain, also when the promise
\* was read before another session moved the chain.
SessionInv ==
    /\ db \in [Node -> Store]
    /\ faults \in 0..MaxFaults
    /\ sess # NoSession => sess.got <= sess.sent /\ sess.sent <= EntriesPerSession
    /\ \A n \in Node, d \in Honest :
          /\ ChainTail(db[n], d).lam <= db[n].tip[d].lam
          /\ db[n].cover[d] # NoObligation => ChainTail(db[n], d).lam < db[n].cover[d].tip.lam

\* Whatever is purged, compacted, re-rooted or delivered by others between two
\* frames, two honest stores never fail a session: a chain that cannot be
\* served is skipped alone (#1480).
NoSessionError == sess # NoSession => sess.place # "error"

\* "converged is true when the loop stopped on a fully quiet round, so both
\* peers hold the union of what each offered" (endpoint/dial.rs): a quiet round
\* under which nothing changed leaves equal the chains it did not skip.
QuietIsConverged ==
    Finished /\ ~Moved /\ ~sess.disturbed =>
        \A d \in Device \ sess.skipped : ChainTail(db[sess.from], d) = ChainTail(db[sess.to], d)

\* A store that owes a suffix says so: a finished session in which a side ends
\* with an obligation is reported pending or moved something.
OwedIsPending ==
    Finished /\ ~sess.disturbed /\ (StreamPending(db[sess.from]) \/ StreamPending(db[sess.to]))
        => Moved

\* Every store that dials the keeper ends up with its chains and owes nothing,
\* whatever purges, compactions, aborted and overlapping sessions with others
\* came first.
InSync ==
    \A n \in {x \in Node : Keeper \in Dials[x]}, d \in Honest :
        ChainTail(db[n], d) = ChainTail(db[Keeper], d) /\ db[n].cover[d] = NoObligation
Converges == <>[]InSync
=============================================================================
