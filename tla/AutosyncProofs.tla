---------------------------- MODULE AutosyncProofs ---------------------------
(***************************************************************************)
(* Proofs about PapertrailAutosync, for any number of triggers, commands,  *)
(* identities and attempts: the automatic passes and the explicit command  *)
(* share the flight, whatever identity the repository moves to under them, *)
(* and no request is forgotten on the way.                                 *)
(***************************************************************************)
EXTENDS PapertrailAutosync, SingleFlightProofs

-----------------------------------------------------------------------------
(* The inductive invariant *)

ManualPlaces == {"wait", "opened", "manual", "take", "preserve", "drop"}

\* Where a process holds the flight lock of the key it works under.
OnSharedFlight == OnFlight \cup {"mirror", "opened", "manual", "take"}

AutosyncTypes ==
    /\ pc     \in [Proc -> PC \cup ManualPlaces \cup {"mirror"}]
    /\ key    \in [Proc -> Key]
    /\ hand   \in [Proc -> Payload \cup {None}]
    /\ mlock  \in [Key -> Proc \cup {NoProc}]
    /\ flight \in [Key -> Proc \cup {NoProc}]
    /\ marker \in [Key -> Payload \cup {None}]
    /\ ran \in SUBSET Signal /\ lost \in SUBSET Signal
    /\ identity \in Key
    /\ store \in {"absent", "registered", "indexed"}
    /\ attempt \in [Proc -> 0..Attempts]

\* A walker holds the flight of its key.  A held flight lock belongs to a
\* process that will release it: one on that flight, or a command that has
\* re-keyed and not yet dropped the stale lock.
FlightShared ==
    /\ \A p \in Proc : pc[p] \in OnSharedFlight => flight[key[p]] = p
    /\ \A k \in Key : flight[k] # NoProc =>
            \/ key[flight[k]] = k /\ pc[flight[k]] \in OnSharedFlight
            \/ pc[flight[k]] \in {"preserve", "drop"}
    /\ \A k \in Key : mlock[k] # NoProc =>
            /\ key[mlock[k]] = k
            /\ pc[mlock[k]] \in NeedsMarker \cup {"merge", "take", "preserve"}
    /\ \A p \in Proc : pc[p] = "merge" => mlock[key[p]] = p

\* Where nothing is in hand, so that the next payload overwrites none.
EmptyHanded ==
    \A p \in Proc :
        pc[p] \in {"idle", "wait", "opened", "manual", "take", "drop"} => hand[p] = None

AutosyncInv == AutosyncTypes /\ FlightShared /\ EmptyHanded

\* The initial state: no lock, no payload, the first identity.
LEMMA AutosyncInitInv == AutosyncInit => AutosyncInv
<1> SUFFICES ASSUME AutosyncInit PROVE AutosyncInv
  OBVIOUS
<1>1. AutosyncTypes
  BY FlightAssumption, AutosyncAssumption DEF AutosyncInit, Init, AutosyncTypes, PC, Payload
<1>2. FlightShared /\ EmptyHanded
  BY FlightAssumption
     DEF AutosyncInit, Init, FlightShared, EmptyHanded, OnSharedFlight, OnFlight
<1> QED BY <1>1, <1>2 DEF AutosyncInv

\* Every step of AutosyncNext by a process.
AutosyncAction(p) ==
    (\E s \in Signal : Trigger(p, s)) \/ ManualStart(p) \/ AutosyncStep(p)

\* Each action keeps the types.
LEMMA AutosyncTypeStep ==
    ASSUME AutosyncTypes, NEW p \in Proc, AutosyncAction(p)
    PROVE  AutosyncTypes'
<1> USE AutosyncAssumption DEF AutosyncTypes, Goto, Unlock, world
<1>1. ASSUME NEW s \in Signal, Trigger(p, s) PROVE AutosyncTypes'
  <2>1. {s} \in Payload
    BY DEF Payload
  <2> QED BY <1>1, <2>1 DEF Trigger, Submit, PC
<1>2. CASE ManualStart(p)
  BY <1>2 DEF ManualStart, ManualPlaces
<1>3. CASE FlightStep(p)
  <2>1. UNCHANGED <<identity, store, attempt>>
    BY <1>3 DEF FlightStep
  <2>2. CASE LockMarker(p)
    BY <2>1, <2>2 DEF LockMarker, LockMarkerAt
  <2>3. CASE TryFlight(p)
    BY <2>1, <2>3 DEF TryFlight, PC
  <2>4. CASE MergeIntoMarker(p)
    BY <2>1, <2>4, MergeType DEF MergeIntoMarker, PC
  <2>5. CASE Absorb(p)
    BY <2>1, <2>5, MergeType DEF Absorb, PC
  <2>6. CASE Requeue(p)
    BY <2>1, <2>6, MergeType DEF Requeue, PC
  <2>7. CASE Carry(p)
    BY <2>1, <2>7, MergeType DEF Carry, PC
  <2> QED BY <1>3, <2>2, <2>3, <2>4, <2>5, <2>6, <2>7 DEF FlightStep
<1>4. CASE RunPass(p)
  BY <1>4 DEF RunPass, PC
<1>5. CASE MirrorEnds(p)
  BY <1>5, SigsType DEF MirrorEnds, PC
<1>6. CASE Carried(p)
  BY <1>6 DEF Carried, PC
<1>7. CASE ManualAcquire(p)
  BY <1>7 DEF ManualAcquire, ManualPlaces
<1>8. CASE ManualCheck(p) \/ ManualRan(p)
  BY <1>8 DEF ManualCheck, ManualRan, ManualPlaces, PC
<1>9. CASE ManualFails(p)
  BY <1>9 DEF ManualFails, PC
<1>10. CASE ManualLock(p)
  BY <1>10 DEF ManualLock, LockMarkerAt
<1>11. CASE ManualTake(p)
  BY <1>11 DEF ManualTake, ManualPlaces
<1>12. CASE ManualPreserve(p)
  BY <1>12, MergeType DEF ManualPreserve, ManualPlaces
<1>13. CASE ManualDrop(p)
  BY <1>13 DEF ManualDrop, ManualPlaces, PC
<1> QED BY <1>1, <1>2, <1>3, <1>4, <1>5, <1>6, <1>7, <1>8, <1>9, <1>10, <1>11, <1>12, <1>13
        DEF AutosyncAction, AutosyncStep

\* Each action keeps locks, places and hands in agreement.
LEMMA AutosyncLockStep ==
    ASSUME AutosyncInv, NEW p \in Proc, AutosyncAction(p)
    PROVE  FlightShared' /\ EmptyHanded'
<1> USE FlightAssumption
    DEF AutosyncInv, AutosyncTypes, FlightShared, EmptyHanded, Goto, Unlock,
        OnSharedFlight, OnFlight, NeedsMarker
<1>1. ASSUME NEW s \in Signal, Trigger(p, s) PROVE FlightShared' /\ EmptyHanded'
  BY <1>1 DEF Trigger, Submit
<1>2. CASE ManualStart(p)
  BY <1>2 DEF ManualStart
<1>3. CASE LockMarker(p) \/ ManualLock(p)
  BY <1>3 DEF LockMarker, LockMarkerAt, ManualLock
<1>4. CASE TryFlight(p)
  BY <1>4 DEF TryFlight
<1>5. CASE MergeIntoMarker(p)
  BY <1>5 DEF MergeIntoMarker
<1>6. CASE Absorb(p)
  BY <1>6, MergeType DEF Absorb
<1>7. CASE Requeue(p)
  BY <1>7 DEF Requeue
<1>8. CASE Carry(p)
  BY <1>8 DEF Carry
<1>9. CASE RunPass(p)
  BY <1>9 DEF RunPass
<1>10. CASE MirrorEnds(p)
  BY <1>10 DEF MirrorEnds
<1>11. CASE Carried(p)
  BY <1>11 DEF Carried
<1>12. CASE ManualAcquire(p)
  BY <1>12 DEF ManualAcquire
<1>13. CASE ManualCheck(p) \/ ManualRan(p)
  BY <1>13 DEF ManualCheck, ManualRan
<1>14. CASE ManualFails(p)
  BY <1>14 DEF ManualFails
<1>15. CASE ManualTake(p)
  BY <1>15 DEF ManualTake
<1>16. CASE ManualPreserve(p)
  BY <1>16 DEF ManualPreserve
<1>17. CASE ManualDrop(p)
  BY <1>17 DEF ManualDrop
<1> QED BY <1>1, <1>2, <1>3, <1>4, <1>5, <1>6, <1>7, <1>8, <1>9, <1>10, <1>11, <1>12,
           <1>13, <1>14, <1>15, <1>16, <1>17
        DEF AutosyncAction, AutosyncStep, FlightStep

\* The world's steps touch no lock and no request.
LEMMA WorldStep ==
    ASSUME AutosyncTypes, Upgrade \/ Build \/ UNCHANGED avars
    PROVE  AutosyncTypes' /\ UNCHANGED vars
<1>1. CASE Upgrade
  BY <1>1 DEF Upgrade, AutosyncTypes, vars
<1>2. CASE Build
  BY <1>2 DEF Build, AutosyncTypes, vars
<1>3. CASE UNCHANGED avars
  BY <1>3 DEF avars, AutosyncTypes, vars
<1> QED BY <1>1, <1>2, <1>3

\* AutosyncInv is inductive.
LEMMA AutosyncInvStep ==
    ASSUME AutosyncInv, [AutosyncNext]_avars
    PROVE  AutosyncInv'
<1>1. CASE Upgrade \/ Build \/ UNCHANGED avars
  <2>1. AutosyncTypes' /\ UNCHANGED vars
    BY <1>1, WorldStep DEF AutosyncInv
  <2>2. FlightShared' /\ EmptyHanded'
    BY <2>1 DEF vars, AutosyncInv, FlightShared, EmptyHanded
  <2> QED BY <2>1, <2>2 DEF AutosyncInv
<1>2. ASSUME NEW p \in Proc, AutosyncAction(p) PROVE AutosyncInv'
  BY <1>2, AutosyncTypeStep, AutosyncLockStep DEF AutosyncInv
<1> QED BY <1>1, <1>2 DEF AutosyncNext, AutosyncAction

\* The flight, the marker locks and the places of triggers and commands
\* always agree: no error path, no re-keying and no exhausted retry of run or
\* run_manual leaves a lock behind with nobody to release it.
THEOREM AutosyncLocksAgree == AutosyncSpec => []AutosyncInv
BY AutosyncInitInv, AutosyncInvStep, PTL DEF AutosyncSpec

\* run, run_manual: two walks of one identity never run at once, automatic or
\* explicit, while the identity that keys them changes.
THEOREM OneWalk == AutosyncSpec => []OneWalkPerKey
<1>1. AutosyncInv => OneWalkPerKey
  BY DEF AutosyncInv, FlightShared, OneWalkPerKey, OnSharedFlight
<1> QED BY <1>1, AutosyncLocksAgree, PTL

-----------------------------------------------------------------------------
(* No request is forgotten *)

\* Each action keeps every issued request somewhere.
LEMMA ForgottenStep ==
    ASSUME AutosyncInv, NEW p \in Proc, AutosyncAction(p)
    PROVE  Kept \cup ran \subseteq (Kept \cup ran)' /\ lost' = lost
<1> USE DEF AutosyncInv, AutosyncTypes
<1>0. lost' = lost
  BY DEF AutosyncAction, Trigger, Submit, ManualStart, AutosyncStep, FlightStep,
         LockMarker, LockMarkerAt, TryFlight, MergeIntoMarker, Absorb, Requeue, Carry,
         RunPass, MirrorEnds, Carried, ManualAcquire, ManualCheck, ManualRan, ManualFails,
         ManualLock, ManualTake, ManualPreserve, ManualDrop
<1> SUFFICES ASSUME NEW s \in Kept \cup ran PROVE s \in (Kept \cup ran)'
  BY <1>0
<1>1. /\ key[p] \in Key
      /\ hand[p] \in Payload \cup {None}
      /\ marker[key[p]] \in Payload \cup {None}
      /\ Sigs(None) = {}
  BY DEF Sigs
<1>2. ASSUME NEW t \in Signal, Trigger(p, t) PROVE s \in (Kept \cup ran)'
  <2>1. hand[p] = None
    BY <1>2 DEF Trigger, Submit, EmptyHanded
  <2> QED BY <1>1, <1>2, <2>1, KeptWhere, KeptWhereNext DEF Trigger, Submit
<1>3. CASE hand' = hand /\ marker' = marker /\ ran' = ran
  BY <1>3, KeptWhere, KeptWhereNext
<1>4. CASE MergeIntoMarker(p) \/ Requeue(p) \/ ManualPreserve(p)
  <2>1. Sigs(marker'[key[p]]) = Sigs(hand[p]) \cup Sigs(marker[key[p]])
    BY <1>1, <1>4, MergeType DEF MergeIntoMarker, Requeue, ManualPreserve
  <2> QED BY <1>1, <1>4, <2>1, KeptWhere, KeptWhereNext
          DEF MergeIntoMarker, Requeue, ManualPreserve
<1>5. CASE Absorb(p) \/ Carry(p)
  <2>1. Sigs(hand'[p]) = Sigs(hand[p]) \cup Sigs(marker[key[p]])
    BY <1>1, <1>5, MergeType DEF Absorb, Carry
  <2> QED BY <1>1, <1>5, <2>1, KeptWhere, KeptWhereNext DEF Absorb, Carry
\* take overwrites the hand: it is empty there.
<1>6. CASE ManualTake(p)
  <2>1. hand[p] = None
    BY <1>6 DEF ManualTake, EmptyHanded
  <2>2. hand'[p] = marker[key[p]]
    BY <1>6 DEF ManualTake
  <2> QED BY <1>1, <1>6, <2>1, <2>2, KeptWhere, KeptWhereNext DEF ManualTake
<1>7. CASE MirrorEnds(p)
  BY <1>1, <1>7, KeptWhere, KeptWhereNext DEF MirrorEnds
<1> QED
  BY <1>2, <1>3, <1>4, <1>5, <1>6, <1>7
  DEF AutosyncAction, AutosyncStep, FlightStep, ManualStart, LockMarker, LockMarkerAt,
      TryFlight, RunPass, Carried, ManualAcquire, ManualCheck, ManualRan, ManualFails,
      ManualLock, ManualDrop

\* Whatever fails, is not indexed or changes identity, a request that was
\* issued has run, waits in a marker or is in the hands of a live process.
THEOREM NothingForgottenHolds == AutosyncSpec => NothingForgotten
<1>1. AutosyncInv /\ [AutosyncNext]_avars => [Issued \subseteq Issued']_avars
  <2> SUFFICES ASSUME AutosyncInv, AutosyncNext PROVE Issued \subseteq Issued'
    OBVIOUS
  <2>1. CASE Upgrade \/ Build
    <3>1. UNCHANGED vars
      BY <2>1, WorldStep DEF AutosyncInv
    <3> QED BY <3>1 DEF vars, Issued, Kept, Sigs
  <2>2. ASSUME NEW p \in Proc, AutosyncAction(p) PROVE Issued \subseteq Issued'
    <3>1. Kept \cup ran \subseteq (Kept \cup ran)' /\ lost' = lost
      BY <2>2, ForgottenStep
    <3> QED BY <3>1 DEF Issued
  <2> QED BY <2>1, <2>2 DEF AutosyncNext, AutosyncAction
<1> QED BY <1>1, AutosyncLocksAgree, PTL DEF AutosyncSpec, NothingForgotten
=============================================================================
