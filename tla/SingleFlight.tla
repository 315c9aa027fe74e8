---------------------------- MODULE SingleFlight -----------------------------
(***************************************************************************)
(* Cross-process single-flight coalescing                                  *)
(* (crates/rag-rat-base/src/single_flight.rs).  Per key three files: the   *)
(* flight lock, held by the one runner for its whole drain; the marker,    *)
(* carrying the coalesced payload; the marker lock, held for each access   *)
(* to the marker.  One action per step between two lock operations.        *)
(*                                                                         *)
(* A payload is the set of the signals merged into it (merge is union, the *)
(* PathSet case; the strongest-request and unit payloads are images of     *)
(* it).  None is Rust's None: no payload in hand, or no marker file.  The  *)
(* empty set is a payload: what a marker torn by a crash decodes to.       *)
(***************************************************************************)
EXTENDS FiniteSets

CONSTANTS
    Proc,      \* the processes that trigger
    Key,       \* the repository identities flights are keyed by
    Signal,    \* one per trigger, so that each can be followed
    Inert,     \* the signals handed to queue() instead of run()
    Outcome,   \* what passes may decide: "ran", "requeue", "carry"
    Crashes,   \* whether processes may be killed
    None, NoProc

ASSUME FlightAssumption ==
    /\ Inert \subseteq Signal
    /\ \A S \in SUBSET Signal : S # None
    /\ NoProc \notin Proc
    /\ Key # {}
    /\ Crashes \in BOOLEAN

Payload == SUBSET Signal

\* FlightPayload::merge lifted to Option, and the signals a payload carries.
Sigs(x) == IF x = None THEN {} ELSE x
Merge(a, b) == IF a = None THEN b ELSE IF b = None THEN a ELSE a \cup b

VARIABLES
    pc,      \* where each process is
    key,     \* the key of the flight it is on
    hand,    \* the payload it has in memory
    mlock,   \* [Key -> Proc or NoProc] the marker lock
    flight,  \* [Key -> Proc or NoProc] the flight lock
    marker,  \* [Key -> payload or None] the marker file
    ran,     \* signals some finished pass covered
    lost     \* signals that died with a process

vars == <<pc, key, hand, mlock, flight, marker, ran, lost>>

\* idle; enter: in run(), before the try-acquire; merge: coalescing;
\* queue: parking; absorb: at the top of drain's loop; pass: in run_fn;
\* requeue, carry: after a pass stopped or failed; carried: payload handed
\* back; dead: killed.
PC == {"dead", "idle", "enter", "merge", "queue", "absorb", "pass", "requeue", "carry", "carried"}
NeedsMarker == {"enter", "queue", "absorb", "requeue", "carry"}
OnFlight == {"absorb", "pass", "requeue", "carry"}

Init ==
    /\ pc     = [p \in Proc |-> "idle"]
    /\ key    = [p \in Proc |-> CHOOSE k \in Key : TRUE]   \* read only on a flight
    /\ hand   = [p \in Proc |-> None]
    /\ mlock  = [k \in Key |-> NoProc]
    /\ flight = [k \in Key |-> NoProc]
    /\ marker = [k \in Key |-> None]
    /\ ran    = {}
    /\ lost   = {}

Goto(p, l) == pc' = [pc EXCEPT ![p] = l]
Unlock(k)  == mlock' = [mlock EXCEPT ![k] = NoProc]

\* Every signal is somewhere: the signals that live processes and markers hold.
Kept == UNION ({Sigs(hand[p]) : p \in Proc} \cup {Sigs(marker[k]) : k \in Key})
Issued == Kept \cup ran \cup lost

-----------------------------------------------------------------------------
(* run, queue and the marker lock *)

\* A process enters run() or queue() with a signal nobody has issued yet.
Submit(p, k, s, l) ==
    /\ pc[p] = "idle"
    /\ s \notin Issued
    /\ hand' = [hand EXCEPT ![p] = {s}]
    /\ key'  = [key EXCEPT ![p] = k]
    /\ Goto(p, l)
    /\ UNCHANGED <<mlock, flight, marker, ran, lost>>

Run(p, k, s)   == s \notin Inert /\ Submit(p, k, s, "enter")
Queue(p, k, s) == s \in Inert /\ Submit(p, k, s, "queue")

\* Mutant: the marker lock is not exclusive.
LockMarkerAlways(p, places) ==
    /\ pc[p] \in places
    /\ mlock[key[p]] # p
    /\ mlock' = [mlock EXCEPT ![key[p]] = p]
    /\ UNCHANGED <<pc, key, hand, flight, marker, ran, lost>>

\* lock_marker: blocks while another process holds it.
LockMarkerAt(p, places) ==
    /\ pc[p] \in places
    /\ mlock[key[p]] = NoProc
    /\ mlock' = [mlock EXCEPT ![key[p]] = p]
    /\ UNCHANGED <<pc, key, hand, flight, marker, ran, lost>>
LockMarker(p) == LockMarkerAt(p, NeedsMarker)

\* Mutant: the try-acquire always succeeds.
TryFlightBlind(p) ==
    LET k == key[p] IN
    /\ pc[p] = "enter" /\ mlock[k] = p
    /\ flight' = [flight EXCEPT ![k] = p]
    /\ Unlock(k)
    /\ Goto(p, "absorb")
    /\ UNCHANGED <<key, hand, marker, ran, lost>>

\* run: try the flight lock under the marker lock; the winner unlocks the
\* marker and drains, the loser keeps it and merges.
TryFlight(p) ==
    LET k == key[p] IN
    /\ pc[p] = "enter" /\ mlock[k] = p
    /\ IF flight[k] = NoProc
       THEN /\ flight' = [flight EXCEPT ![k] = p]
            /\ Unlock(k)
            /\ Goto(p, "absorb")
       ELSE /\ Goto(p, "merge")
            /\ UNCHANGED <<mlock, flight>>
    /\ UNCHANGED <<key, hand, marker, ran, lost>>

\* Mutant: the payload replaces what is queued instead of joining it.
MergeIntoMarkerOver(p) ==
    LET k == key[p] IN
    /\ mlock[k] = p /\ pc[p] \in {"merge", "queue"}
    /\ marker' = [marker EXCEPT ![k] = hand[p]]
    /\ hand'   = [hand EXCEPT ![p] = None]
    /\ Unlock(k)
    /\ Goto(p, "idle")
    /\ UNCHANGED <<key, flight, ran, lost>>

\* MarkerGuard::merge by a contender (Coalesced) or by queue().
MergeIntoMarker(p) ==
    LET k == key[p] IN
    /\ mlock[k] = p /\ pc[p] \in {"merge", "queue"}
    /\ marker' = [marker EXCEPT ![k] = Merge(hand[p], @)]
    /\ hand'   = [hand EXCEPT ![p] = None]
    /\ Unlock(k)
    /\ Goto(p, "idle")
    /\ UNCHANGED <<key, flight, ran, lost>>

-----------------------------------------------------------------------------
(* drain *)

\* Mutant: the runner leaves after its own pass without a last look.
AbsorbNoLastLook(p) ==
    LET k == key[p] IN
    /\ pc[p] = "absorb" /\ mlock[k] = p
    /\ Unlock(k)
    /\ IF hand[p] = None
       THEN /\ flight' = [flight EXCEPT ![k] = NoProc]
            /\ Goto(p, "idle")
            /\ UNCHANGED <<hand, marker>>
       ELSE /\ marker' = [marker EXCEPT ![k] = None]
            /\ hand'   = [hand EXCEPT ![p] = Merge(@, marker[k])]
            /\ Goto(p, "pass")
            /\ UNCHANGED flight
    /\ UNCHANGED <<key, ran, lost>>

\* The top of the loop: take the marker, and on (None, None) release the
\* flight lock under the same hold.
Absorb(p) ==
    LET k == key[p]
        next == Merge(hand[p], marker[k])
    IN
    /\ pc[p] = "absorb" /\ mlock[k] = p
    /\ marker' = [marker EXCEPT ![k] = None]
    /\ hand'   = [hand EXCEPT ![p] = next]
    /\ Unlock(k)
    /\ IF next = None
       THEN /\ flight' = [flight EXCEPT ![k] = NoProc]
            /\ Goto(p, "idle")
       ELSE /\ Goto(p, "pass")
            /\ UNCHANGED flight
    /\ UNCHANGED <<key, ran, lost>>

\* Step::Ran.
PassRan(p) ==
    /\ pc[p] = "pass" /\ "ran" \in Outcome
    /\ ran'  = ran \cup Sigs(hand[p])
    /\ hand' = [hand EXCEPT ![p] = None]
    /\ Goto(p, "absorb")
    /\ UNCHANGED <<key, mlock, flight, marker, lost>>

\* Step::StopRequeue and Err start the same exit; Step::StopCarry its own.
PassStops(p) ==
    /\ pc[p] = "pass"
    /\ \E l \in {"requeue", "carry"} \cap Outcome : Goto(p, l)
    /\ UNCHANGED <<key, hand, mlock, flight, marker, ran, lost>>

\* Mutant: the error path leaves the marker lock behind.
RequeueLeak(p) ==
    LET k == key[p] IN
    /\ pc[p] = "requeue" /\ mlock[k] = p
    /\ marker' = [marker EXCEPT ![k] = Merge(hand[p], @)]
    /\ hand'   = [hand EXCEPT ![p] = None]
    /\ flight' = [flight EXCEPT ![k] = NoProc]
    /\ Goto(p, "idle")
    /\ UNCHANGED <<key, mlock, ran, lost>>

\* The payload goes back into the marker, the flight lock is released under
\* the same hold.
Requeue(p) ==
    LET k == key[p] IN
    /\ pc[p] = "requeue" /\ mlock[k] = p
    /\ marker' = [marker EXCEPT ![k] = Merge(hand[p], @)]
    /\ hand'   = [hand EXCEPT ![p] = None]
    /\ flight' = [flight EXCEPT ![k] = NoProc]
    /\ Unlock(k)
    /\ Goto(p, "idle")
    /\ UNCHANGED <<key, ran, lost>>

\* The marker joins the payload, which is handed back to the caller.
Carry(p) ==
    LET k == key[p] IN
    /\ pc[p] = "carry" /\ mlock[k] = p
    /\ marker' = [marker EXCEPT ![k] = None]
    /\ hand'   = [hand EXCEPT ![p] = Merge(@, marker[k])]
    /\ flight' = [flight EXCEPT ![k] = NoProc]
    /\ Unlock(k)
    /\ Goto(p, "carried")
    /\ UNCHANGED <<key, ran, lost>>

\* The caller of a carried payload runs again under another key.
Rekey(p, k) ==
    /\ pc[p] = "carried" /\ k # key[p]
    /\ key' = [key EXCEPT ![p] = k]
    /\ Goto(p, "enter")
    /\ UNCHANGED <<hand, mlock, flight, marker, ran, lost>>

\* Mutant: the locks are pid files a kill leaves behind.
CrashLeavesLocks(p) ==
    /\ Crashes /\ pc[p] \notin {"idle", "dead"}
    /\ lost' = lost \cup Sigs(hand[p])
    /\ hand' = [hand EXCEPT ![p] = None]
    /\ Goto(p, "dead")
    /\ UNCHANGED <<key, mlock, flight, marker, ran>>

\* A process is killed; the operating system releases its locks.  A write in
\* progress (fs::write truncates first) leaves an empty marker.
Crash(p) ==
    LET k == key[p]
        writes == mlock[k] = p /\ pc[p] \in {"merge", "queue", "requeue"}
    IN
    /\ Crashes /\ pc[p] \notin {"idle", "dead"}
    /\ \/ /\ lost' = lost \cup Sigs(hand[p])
          /\ UNCHANGED marker
       \/ /\ writes
          /\ lost' = lost \cup Sigs(hand[p]) \cup Sigs(marker[k])
          /\ marker' = [marker EXCEPT ![k] = {}]
    /\ hand'   = [hand EXCEPT ![p] = None]
    /\ mlock'  = [mlock EXCEPT ![k] = IF @ = p THEN NoProc ELSE @]
    /\ flight' = [flight EXCEPT ![k] = IF @ = p THEN NoProc ELSE @]
    /\ Goto(p, "dead")
    /\ UNCHANGED <<key, ran>>

Step(p) ==
    \/ LockMarker(p) \/ TryFlight(p) \/ MergeIntoMarker(p) \/ Absorb(p)
    \/ PassRan(p) \/ PassStops(p) \/ Requeue(p) \/ Carry(p)
    \/ \E k \in Key : Rekey(p, k)

Next ==
    \E p \in Proc :
        \/ \E k \in Key, s \in Signal : Run(p, k, s) \/ Queue(p, k, s)
        \/ Step(p)
        \/ Crash(p)

\* A live process keeps stepping and a flock that stays free is granted; the
\* triggers and the kills are the environment's.
Fairness == \A p \in Proc : WF_vars(Step(p))

Spec == Init /\ [][Next]_vars /\ Fairness

-----------------------------------------------------------------------------
(* The promise *)

\* The refinement mapping: a runner between two passes still has its payload
\* waiting; one in a pass, or leaving after one, has it running.
Between(k) == flight[k] # NoProc /\ pc[flight[k]] = "absorb"
InPass(k)  == flight[k] # NoProc /\ pc[flight[k]] # "absorb"

Pending == [k \in Key |-> Sigs(marker[k]) \cup IF Between(k) THEN Sigs(hand[flight[k]]) ELSE {}]
Running == [k \in Key |-> IF InPass(k) THEN Sigs(hand[flight[k]]) ELSE {}]
Busy    == {k \in Key : InPass(k)}
Active  == {k \in Key : flight[k] # NoProc}
Orphan  == {k \in Key : flight[k] = NoProc /\ \E p \in Proc : key[p] = k /\ pc[p] = "merge"}
Dead    == {p \in Proc : pc[p] = "dead"}

C == INSTANCE Coalescer WITH
        pending <- Pending, running <- Running, busy <- Busy,
        active <- Active, orphan <- Orphan, dead <- Dead

TypeOK ==
    /\ pc     \in [Proc -> PC]
    /\ key    \in [Proc -> Key]
    /\ hand   \in [Proc -> Payload \cup {None}]
    /\ mlock  \in [Key -> Proc \cup {NoProc}]
    /\ flight \in [Key -> Proc \cup {NoProc}]
    /\ marker \in [Key -> Payload \cup {None}]
    /\ ran    \in SUBSET Signal
    /\ lost   \in SUBSET Signal

\* The locks and the places of the processes agree: a lock is held by the one
\* process at a place that takes it, a payload is in hand exactly between its
\* trigger and its pass, and (unless processes are killed) a contender that
\* merges still has a runner.
LocksHeld ==
    /\ \A p \in Proc : pc[p] \in OnFlight => flight[key[p]] = p
    /\ \A p \in Proc : pc[p] = "merge" =>
            /\ mlock[key[p]] = p
            /\ Crashes \/ flight[key[p]] # NoProc
    /\ \A k \in Key : flight[k] # NoProc =>
            key[flight[k]] = k /\ pc[flight[k]] \in OnFlight
    /\ \A k \in Key : mlock[k] # NoProc =>
            key[mlock[k]] = k /\ pc[mlock[k]] \in NeedsMarker \cup {"merge"}
    /\ \A p \in Proc :
            /\ pc[p] \in {"idle", "dead"} => hand[p] = None
            /\ pc[p] \notin {"idle", "dead", "absorb"} => hand[p] # None
            /\ pc[p] = "queue" => hand[p] \subseteq Inert

FlightInv == TypeOK /\ LocksHeld

\* Single flight: the passes of one key never overlap, whoever triggered.
OnePassPerKey ==
    \A p, q \in Proc :
        pc[p] = "pass" /\ pc[q] = "pass" /\ key[p] = key[q] => p = q

\* No step but a kill forgets a signal: what was issued stays in a payload, in
\* a marker or among what ran.
NeverForgets ==
    [][Dead' = Dead => Kept \cup ran \subseteq (Kept \cup ran)']_vars

\* Every file access of run, drain and queue implements the promise of
\* Coalescer: the exit handoff leaves no accepted signal without a runner.
Implements == C!Safe

\* Every signal that waits while a runner is on the flight gets its pass, or
\* the runner stops, fails or dies (fairness of the processes).
Served == C!Live

\* "Nothing wedges": with finitely many triggers and re-keyings (callers bound
\* both) every run() and queue() call returns: the lock order is deadlock free
\* and no lock is left behind, by an error or by a kill.
Returns ==
    <>[](\A p \in Proc : pc[p] # "carried")
        => \A p \in Proc : pc[p] # "idle" ~> pc[p] \in {"idle", "dead"}
=============================================================================
