------------------------- MODULE PapertrailAutosync --------------------------
(***************************************************************************)
(* The papertrail flight (crates/rag-rat-core/src/index/                   *)
(* papertrail_autosync.rs) on top of SingleFlight: automatic triggers      *)
(* (run), the explicit command (run_manual), the pass they share           *)
(* (run_pass), and the two things that change under them: the repository's *)
(* resolved identity, which keys the flight, and the state of the index.   *)
(*                                                                         *)
(* Identities are numbered in the order a checkout can move through them.  *)
(* SingleFlight's processes get the places "mirror" (the scheduled walk),  *)
(* and "wait", "opened", "manual", "take", "preserve", "drop" of the       *)
(* explicit command.                                                       *)
(***************************************************************************)
EXTENDS SingleFlight, Naturals

CONSTANTS
    Attempts,   \* how often run and run_manual re-key (3 in the code)
    Manual,     \* the processes that are the explicit command
    MayFail,    \* whether opening the database and mirroring may fail
    FirstStore  \* "absent", "registered" or "indexed"

ASSUME AutosyncAssumption ==
    /\ Key \subseteq Nat /\ 1 \in Key
    /\ Attempts \in Nat \ {0}
    /\ Manual \subseteq Proc
    /\ MayFail \in BOOLEAN
    /\ FirstStore \in {"absent", "registered", "indexed"}

VARIABLES
    identity,  \* what write_lock_repo_id resolves to now
    store,     \* "absent": no database; "registered": no index pass ran; "indexed"
    attempt    \* [Proc -> 0..Attempts] the loop counter of run and run_manual

avars == <<vars, identity, store, attempt>>
world == <<identity, store>>

AutosyncInit ==
    /\ Init
    /\ identity = 1
    /\ store = FirstStore
    /\ attempt = [p \in Proc |-> 0]

-----------------------------------------------------------------------------
(* The world *)

\* The checkout resolves to a better identity (LocalOnly to Portable, a pin).
Upgrade ==
    /\ identity + 1 \in Key
    /\ identity' = identity + 1
    /\ UNCHANGED <<vars, store, attempt>>

\* The database is created, then indexed.
Build ==
    /\ store' = [absent |-> "registered", registered |-> "indexed", indexed |-> "indexed"][store]
    /\ store # "indexed"
    /\ UNCHANGED <<vars, identity, attempt>>

-----------------------------------------------------------------------------
(* run: an automatic trigger *)

\* With no database the request is only queued, else the flight is run.
Trigger(p, s) ==
    /\ p \notin Manual
    /\ Submit(p, identity, s, IF store = "absent" THEN "queue" ELSE "enter")
    /\ attempt' = [attempt EXCEPT ![p] = 1]
    /\ UNCHANGED world

\* The steps of SingleFlight that read neither identity nor index.
FlightStep(p) ==
    /\ LockMarker(p) \/ TryFlight(p) \/ MergeIntoMarker(p) \/ Absorb(p)
       \/ Requeue(p) \/ Carry(p)
    /\ UNCHANGED <<world, attempt>>

\* run_pass up to the walk: a database that does not open is an error, then
\* the re-key check, then the indexed-only gate.
RunPass(p) ==
    /\ pc[p] = "pass"
    /\ \/ MayFail /\ Goto(p, "requeue")
       \/ identity # key[p] /\ Goto(p, "carry")
       \/ identity = key[p] /\ store # "indexed" /\ Goto(p, "requeue")
       \/ identity = key[p] /\ store = "indexed" /\ Goto(p, "mirror")
    /\ UNCHANGED <<key, hand, mlock, flight, marker, ran, lost, world, attempt>>

\* papertrail_sync_scheduled ends: Step::Ran, or an error.
MirrorEnds(p) ==
    /\ pc[p] = "mirror"
    /\ \/ /\ ran'  = ran \cup Sigs(hand[p])
          /\ hand' = [hand EXCEPT ![p] = None]
          /\ Goto(p, "absorb")
       \/ /\ MayFail
          /\ Goto(p, "requeue")
          /\ UNCHANGED <<ran, hand>>
    /\ UNCHANGED <<key, mlock, flight, marker, lost, world, attempt>>

\* Mutant: the retry resolves no new identity and counts no attempt.
CarriedForever(p) ==
    /\ pc[p] = "carried"
    /\ Goto(p, "enter")
    /\ UNCHANGED <<key, attempt, hand, mlock, flight, marker, ran, lost, world>>

\* Stopped(Some): run retries under the identity of now, and queues the
\* request there when its attempts are spent; run_manual only queues it.
Carried(p) ==
    /\ pc[p] = "carried"
    /\ key' = [key EXCEPT ![p] = identity]
    /\ IF p \notin Manual /\ attempt[p] < Attempts
       THEN /\ attempt' = [attempt EXCEPT ![p] = @ + 1]
            /\ Goto(p, "enter")
       ELSE Goto(p, "queue") /\ UNCHANGED attempt
    /\ UNCHANGED <<hand, mlock, flight, marker, ran, lost, world>>

-----------------------------------------------------------------------------
(* run_manual: the explicit command *)

\* The command (one call per process) resolves its key, unless there is no
\* database.
ManualStart(p) ==
    /\ p \in Manual /\ pc[p] = "idle" /\ attempt[p] = 0
    /\ store # "absent"
    /\ attempt' = [attempt EXCEPT ![p] = 1]
    /\ key' = [key EXCEPT ![p] = identity]
    /\ Goto(p, "wait")
    /\ UNCHANGED <<hand, mlock, flight, marker, ran, lost, world>>

\* Mutant: the command does not wait for the flight.
ManualAcquireNow(p) ==
    /\ pc[p] = "wait"
    /\ flight' = [flight EXCEPT ![key[p]] = p]
    /\ Goto(p, "opened")
    /\ UNCHANGED <<key, hand, mlock, marker, ran, lost, world, attempt>>

\* It takes the flight lock itself, blocking, with no marker lock held.
ManualAcquire(p) ==
    /\ pc[p] = "wait" /\ flight[key[p]] = NoProc
    /\ flight' = [flight EXCEPT ![key[p]] = p]
    /\ Goto(p, "opened")
    /\ UNCHANGED <<key, hand, mlock, marker, ran, lost, world, attempt>>

\* The re-key check after the open.
ManualCheck(p) ==
    /\ pc[p] = "opened"
    /\ Goto(p, IF identity # key[p] THEN "take" ELSE "manual")
    /\ UNCHANGED <<key, hand, mlock, flight, marker, ran, lost, world, attempt>>

\* The walk succeeded: drain the follow-ups.
ManualRan(p) ==
    /\ pc[p] = "manual"
    /\ Goto(p, "absorb")
    /\ UNCHANGED <<key, hand, mlock, flight, marker, ran, lost, world, attempt>>

\* The open or the walk failed: the flight lock drops with the error, and no
\* marker lock is held.
ManualFails(p) ==
    /\ MayFail /\ pc[p] \in {"opened", "manual"}
    /\ flight' = [flight EXCEPT ![key[p]] = NoProc]
    /\ Goto(p, "idle")
    /\ UNCHANGED <<key, hand, mlock, marker, ran, lost, world, attempt>>

\* A stale key: SingleFlight::take, then preserve_for_fresh_key.
ManualLock(p) ==
    /\ LockMarkerAt(p, {"take", "preserve"})
    /\ UNCHANGED <<world, attempt>>

\* Mutant: the stale key's queue is read and not preserved.
ManualTakeDrops(p) ==
    LET k == key[p] IN
    /\ pc[p] = "take" /\ mlock[k] = p
    /\ marker' = [marker EXCEPT ![k] = None]
    /\ Unlock(k)
    /\ Goto(p, "drop")
    /\ UNCHANGED <<key, hand, flight, ran, lost, world, attempt>>

ManualTake(p) ==
    LET k == key[p] IN
    /\ pc[p] = "take" /\ mlock[k] = p
    /\ hand'   = [hand EXCEPT ![p] = marker[k]]
    /\ marker' = [marker EXCEPT ![k] = None]
    /\ Unlock(k)
    /\ IF marker[k] = None
       THEN Goto(p, "drop") /\ UNCHANGED key
       ELSE Goto(p, "preserve") /\ key' = [key EXCEPT ![p] = identity]
    /\ UNCHANGED <<flight, ran, lost, world, attempt>>

ManualPreserve(p) ==
    LET k == key[p] IN
    /\ pc[p] = "preserve" /\ mlock[k] = p
    /\ marker' = [marker EXCEPT ![k] = Merge(hand[p], @)]
    /\ hand'   = [hand EXCEPT ![p] = None]
    /\ Unlock(k)
    /\ Goto(p, "drop")
    /\ UNCHANGED <<key, flight, ran, lost, world, attempt>>

\* Only now the stale flight lock is dropped, and the loop goes round.
ManualDrop(p) ==
    /\ pc[p] = "drop"
    /\ flight' = [k \in Key |-> IF flight[k] = p THEN NoProc ELSE flight[k]]
    /\ IF attempt[p] < Attempts
       THEN /\ attempt' = [attempt EXCEPT ![p] = @ + 1]
            /\ key' = [key EXCEPT ![p] = identity]
            /\ Goto(p, "wait")
       ELSE Goto(p, "idle") /\ UNCHANGED <<key, attempt>>
    /\ UNCHANGED <<hand, mlock, marker, ran, lost, world>>

-----------------------------------------------------------------------------

AutosyncStep(p) ==
    \/ FlightStep(p) \/ RunPass(p) \/ MirrorEnds(p) \/ Carried(p)
    \/ ManualAcquire(p) \/ ManualCheck(p) \/ ManualRan(p) \/ ManualFails(p)
    \/ ManualLock(p) \/ ManualTake(p) \/ ManualPreserve(p) \/ ManualDrop(p)

AutosyncNext ==
    \/ Upgrade
    \/ Build
    \/ \E p \in Proc : \/ \E s \in Signal : Trigger(p, s)
                       \/ ManualStart(p)
                       \/ AutosyncStep(p)

\* As in SingleFlight: a live process keeps stepping, a free flock is granted.
AutosyncSpec ==
    AutosyncInit /\ [][AutosyncNext]_avars /\ \A p \in Proc : WF_avars(AutosyncStep(p))

-----------------------------------------------------------------------------
(* Properties *)

\* Automatic passes and explicit commands share the flight: two walks of one
\* identity never run at once (run_manual, "SHARING the per-repo flight lock with
\* automatic sync").
OneWalkPerKey ==
    \A p, q \in Proc :
        /\ pc[p] \in {"mirror", "manual"} /\ pc[q] \in {"mirror", "manual"}
        /\ key[p] = key[q]
        => p = q

\* Whatever fails, is not indexed or changes identity, no request is forgotten:
\* it has run, waits in a marker or is in the hands of a live process.
NothingForgotten == [][Issued \subseteq Issued']_avars

\* Every trigger and every command returns.
AllReturn == \A p \in Proc : pc[p] # "idle" ~> pc[p] = "idle"
=============================================================================
