----------------------------- MODULE Coalescer ------------------------------
(***************************************************************************)
(* What a single flight promises its triggers                              *)
(* (crates/rag-rat-base/src/single_flight.rs, module docs), without locks, *)
(* files or processes.  Per key: the signals waiting for a pass, the       *)
(* signals of the pass in progress, and whether a runner is obliged to     *)
(* look at what waits.  SingleFlight is shown to implement this.           *)
(***************************************************************************)
EXTENDS FiniteSets

CONSTANTS Proc, Key, Signal,
          Inert     \* the signals parked with queue(), which asks no runner to come

VARIABLES pending,  \* [Key -> SUBSET Signal] accepted and waiting
          running,  \* [Key -> SUBSET Signal] covered by the pass in progress
          busy,     \* the keys with a pass in progress
          active,   \* the keys with a runner obliged to drain what waits
          orphan,   \* the keys whose runner died under a trigger counting on it
          dead      \* the processes that were killed

vars == <<pending, running, busy, active, orphan, dead>>

Init ==
    /\ pending = [k \in Key |-> {}]
    /\ running = [k \in Key |-> {}]
    /\ busy = {} /\ active = {} /\ orphan = {} /\ dead = {}

\* A trigger is accepted: after it, a runner is obliged.
Accept(k, S) ==
    /\ pending' = [pending EXCEPT ![k] = @ \cup S]
    /\ active'  = active \cup {k}
    /\ UNCHANGED <<running, busy, orphan, dead>>

\* queue(): the signal waits for whoever runs next.
Park(k, S) ==
    /\ S \subseteq Inert
    /\ pending' = [pending EXCEPT ![k] = @ \cup S]
    /\ UNCHANGED <<running, busy, active, orphan, dead>>

\* The one trigger whose runner died while it was handing its signal over.
Deposit(k, S) ==
    /\ k \in orphan
    /\ pending' = [pending EXCEPT ![k] = @ \cup S]
    /\ orphan'  = orphan \ {k}
    /\ UNCHANGED <<running, busy, active, dead>>

\* A pass covers everything that waits.
StartPass(k) ==
    /\ k \in active \ busy
    /\ running' = [running EXCEPT ![k] = pending[k]]
    /\ pending' = [pending EXCEPT ![k] = {}]
    /\ busy'    = busy \cup {k}
    /\ UNCHANGED <<active, orphan, dead>>

Finish(k) ==
    /\ k \in busy
    /\ running' = [running EXCEPT ![k] = {}]
    /\ busy'    = busy \ {k}
    /\ UNCHANGED <<pending, active, orphan, dead>>

\* The exit handoff: the obligation ends only when nothing waits.
Rest(k) ==
    /\ k \in active \ busy /\ pending[k] = {}
    /\ active' = active \ {k}
    /\ UNCHANGED <<pending, running, busy, orphan, dead>>

\* A pass that stopped or failed keeps the signals S for the key (all of them)
\* or for its caller (none of them), and retires.
Stop(k, S) ==
    /\ k \in busy
    /\ pending' = [pending EXCEPT ![k] = S]
    /\ running' = [running EXCEPT ![k] = {}]
    /\ busy'    = busy \ {k}
    /\ active'  = active \ {k}
    /\ UNCHANGED <<orphan, dead>>
GiveBack(k)  == Stop(k, pending[k] \cup running[k])
CarryAway(k) == Stop(k, {})

\* A process dies: what it had in hand, or was writing, is gone.
Die(k) ==
    /\ \E p \in Proc \ dead : dead' = dead \cup {p}
    /\ \E S \in SUBSET pending[k] : pending' = [pending EXCEPT ![k] = S]
    /\ \/ UNCHANGED <<running, busy, active>>
       \/ /\ running' = [running EXCEPT ![k] = {}]
          /\ busy'    = busy \ {k}
          /\ active'  = active \ {k}
    /\ orphan' \in {orphan \cup {k}, orphan \ {k}}

Next ==
    \E k \in Key :
        \/ \E S \in SUBSET Signal : Accept(k, S) \/ Park(k, S) \/ Deposit(k, S)
        \/ StartPass(k) \/ Finish(k) \/ Rest(k)
        \/ GiveBack(k) \/ CarryAway(k) \/ Die(k)

\* The part of the promise that says what may happen.
Safe == Init /\ [][Next]_vars

\* A runner that is obliged starts a pass over what waits, and ends it.
Live ==
    \A k \in Key : /\ WF_vars(pending[k] # {} /\ StartPass(k))
                   /\ WF_vars(Finish(k) \/ GiveBack(k) \/ CarryAway(k))
=============================================================================
