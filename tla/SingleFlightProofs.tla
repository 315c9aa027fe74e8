-------------------------- MODULE SingleFlightProofs -------------------------
(***************************************************************************)
(* Proofs about SingleFlight, for any processes, keys and signals: the     *)
(* inductive invariant FlightInv, and from it that passes never overlap,   *)
(* that no signal is forgotten, and that the file protocol implements the  *)
(* safety half of Coalescer.                                               *)
(***************************************************************************)
EXTENDS SingleFlight, TLAPS

-----------------------------------------------------------------------------
(* Payloads *)

\* Merging two optional payloads gives an optional payload.
LEMMA MergeType ==
    ASSUME NEW a \in Payload \cup {None}, NEW b \in Payload \cup {None}
    PROVE  /\ Merge(a, b) \in Payload \cup {None}
           /\ (Merge(a, b) = None <=> a = None /\ b = None)
           /\ Sigs(Merge(a, b)) = Sigs(a) \cup Sigs(b)
<1>1. a \cup b # None \/ a = None \/ b = None
  BY FlightAssumption DEF Payload
<1> QED  BY <1>1, FlightAssumption DEF Merge, Payload, Sigs

\* The signals of an optional payload are signals.
LEMMA SigsType ==
    ASSUME NEW a \in Payload \cup {None}
    PROVE  Sigs(a) \subseteq Signal
BY DEF Sigs, Payload

-----------------------------------------------------------------------------
(* The invariant *)

\* Every step of Next is one of the actions, by one process.
Action(p) ==
    \/ \E k \in Key, s \in Signal : Run(p, k, s) \/ Queue(p, k, s)
    \/ Step(p)
    \/ Crash(p)

\* The initial state has every lock free and every hand empty.
LEMMA InitInv == Init => FlightInv
BY FlightAssumption
   DEF Init, FlightInv, TypeOK, LocksHeld, PC, OnFlight, NeedsMarker, Payload

\* Each action keeps the types.
LEMMA TypeStep ==
    ASSUME TypeOK, NEW p \in Proc, Action(p)
    PROVE  TypeOK'
<1> USE DEF TypeOK, Goto, Unlock
<1>1. ASSUME NEW k \in Key, NEW s \in Signal, Run(p, k, s) \/ Queue(p, k, s)
      PROVE  TypeOK'
  <2>1. {s} \in Payload
    BY DEF Payload
  <2> QED  BY <1>1, <2>1 DEF Run, Queue, Submit, PC
<1>2. CASE LockMarker(p)
  BY <1>2 DEF LockMarker, LockMarkerAt
<1>3. CASE TryFlight(p)
  BY <1>3 DEF TryFlight, PC
<1>4. CASE MergeIntoMarker(p)
  BY <1>4, MergeType DEF MergeIntoMarker, PC
<1>5. CASE Absorb(p)
  BY <1>5, MergeType DEF Absorb, PC
<1>6. CASE PassRan(p)
  BY <1>6, SigsType DEF PassRan, PC
<1>7. CASE PassStops(p)
  BY <1>7 DEF PassStops, PC
<1>8. CASE Requeue(p)
  BY <1>8, MergeType DEF Requeue, PC
<1>9. CASE Carry(p)
  BY <1>9, MergeType DEF Carry, PC
<1>10. ASSUME NEW k \in Key, Rekey(p, k)
       PROVE  TypeOK'
  BY <1>10 DEF Rekey, PC
<1>11. CASE Crash(p)
  <2>1. {} \in Payload
    BY DEF Payload
  <2>2. Sigs(hand[p]) \subseteq Signal /\ Sigs(marker[key[p]]) \subseteq Signal
    BY SigsType
  <2>3. lost' \in SUBSET Signal /\ marker' \in [Key -> Payload \cup {None}]
    <3>1. CASE lost' = lost \cup Sigs(hand[p]) /\ marker' = marker
      BY <3>1, <2>2
    <3>2. CASE /\ lost' = lost \cup Sigs(hand[p]) \cup Sigs(marker[key[p]])
               /\ marker' = [marker EXCEPT ![key[p]] = {}]
      BY <3>2, <2>1, <2>2
    <3> QED  BY <1>11, <3>1, <3>2 DEF Crash
  <2> QED  BY <1>11, <2>3 DEF Crash, PC
<1> QED  BY <1>1, <1>2, <1>3, <1>4, <1>5, <1>6, <1>7, <1>8, <1>9, <1>10, <1>11
         DEF Action, Step

\* Each action keeps locks, places and hands in agreement.
LEMMA LocksStep ==
    ASSUME FlightInv, NEW p \in Proc, Action(p)
    PROVE  LocksHeld'
<1> USE FlightAssumption DEF FlightInv, TypeOK, LocksHeld, Goto, Unlock, OnFlight, NeedsMarker
<1>1. ASSUME NEW k \in Key, NEW s \in Signal, Run(p, k, s) \/ Queue(p, k, s)
      PROVE  LocksHeld'
  <2>1. {s} # None
    OBVIOUS
  <2> QED  BY <1>1, <2>1 DEF Run, Queue, Submit
<1>2. CASE LockMarker(p)
  BY <1>2 DEF LockMarker, LockMarkerAt
<1>3. CASE TryFlight(p)
  BY <1>3 DEF TryFlight
<1>4. CASE MergeIntoMarker(p)
  BY <1>4 DEF MergeIntoMarker
<1>5. CASE Absorb(p)
  BY <1>5, MergeType DEF Absorb
<1>6. CASE PassRan(p)
  BY <1>6 DEF PassRan
<1>7. CASE PassStops(p)
  BY <1>7 DEF PassStops
<1>8. CASE Requeue(p)
  BY <1>8 DEF Requeue
<1>9. CASE Carry(p)
  BY <1>9, MergeType DEF Carry
<1>10. ASSUME NEW k \in Key, Rekey(p, k)
       PROVE  LocksHeld'
  BY <1>10 DEF Rekey
<1>11. CASE Crash(p)
  BY <1>11 DEF Crash
<1> QED  BY <1>1, <1>2, <1>3, <1>4, <1>5, <1>6, <1>7, <1>8, <1>9, <1>10, <1>11
         DEF Action, Step

\* FlightInv is inductive.
LEMMA InvStep == FlightInv /\ [Next]_vars => FlightInv'
<1> SUFFICES ASSUME FlightInv, [Next]_vars PROVE FlightInv'
  OBVIOUS
<1>1. CASE UNCHANGED vars
  BY <1>1 DEF FlightInv, TypeOK, LocksHeld, vars
<1>2. CASE Next
  <2>1. PICK p \in Proc : Action(p)
    BY <1>2 DEF Next, Action
  <2> QED  BY <2>1, TypeStep, LocksStep DEF FlightInv
<1> QED  BY <1>1, <1>2

\* The lock files and the processes always agree (FlightInv), whatever the
\* number of processes, keys and signals, with kills or without.
THEOREM FlightInvHolds == Spec => []FlightInv
BY InitInv, InvStep, PTL DEF Spec

\* Two passes of one key never overlap.
THEOREM OnePass == Spec => []OnePassPerKey
<1>1. FlightInv => OnePassPerKey
  BY DEF FlightInv, LocksHeld, OnePassPerKey, OnFlight
<1> QED  BY <1>1, FlightInvHolds, PTL

-----------------------------------------------------------------------------
(* No signal is forgotten *)

\* Where a signal that was not lost can be.
LEMMA KeptWhere ==
    ASSUME NEW s
    PROVE  s \in Kept \cup ran <=> \/ \E p \in Proc : s \in Sigs(hand[p])
                                   \/ \E k \in Key : s \in Sigs(marker[k])
                                   \/ s \in ran
BY DEF Kept

\* The same in the next state.
LEMMA KeptWhereNext ==
    ASSUME NEW s
    PROVE  s \in (Kept \cup ran)' <=> \/ \E p \in Proc : s \in Sigs(hand'[p])
                                      \/ \E k \in Key : s \in Sigs(marker'[k])
                                      \/ s \in ran'
BY DEF Kept, Sigs

\* A step that is no kill keeps every signal somewhere.
LEMMA ForgetStep ==
    ASSUME FlightInv, NEW p \in Proc, Action(p), Dead' = Dead
    PROVE  Kept \cup ran \subseteq (Kept \cup ran)'
<1> SUFFICES ASSUME NEW s \in Kept \cup ran PROVE s \in (Kept \cup ran)'
  OBVIOUS
<1> USE DEF FlightInv, TypeOK
<1>0. /\ key[p] \in Key
      /\ hand[p] \in Payload \cup {None}
      /\ marker[key[p]] \in Payload \cup {None}
      /\ Sigs(None) = {}
  BY DEF Sigs
<1>1. ASSUME NEW k \in Key, NEW t \in Signal, Run(p, k, t) \/ Queue(p, k, t)
      PROVE  s \in (Kept \cup ran)'
  <2>1. hand[p] = None
    BY <1>1 DEF Run, Queue, Submit, LocksHeld
  <2> QED  BY <1>0, <1>1, <2>1, KeptWhere, KeptWhereNext DEF Run, Queue, Submit
<1>2. CASE LockMarker(p) \/ TryFlight(p) \/ PassStops(p) \/ \E k \in Key : Rekey(p, k)
  BY <1>2, KeptWhere, KeptWhereNext
     DEF LockMarker, LockMarkerAt, TryFlight, PassStops, Rekey
<1>3. CASE MergeIntoMarker(p) \/ Requeue(p)
  <2>1. Sigs(marker'[key[p]]) = Sigs(hand[p]) \cup Sigs(marker[key[p]])
    BY <1>0, <1>3, MergeType DEF MergeIntoMarker, Requeue
  <2> QED  BY <1>0, <1>3, <2>1, KeptWhere, KeptWhereNext DEF MergeIntoMarker, Requeue
<1>4. CASE Absorb(p) \/ Carry(p)
  <2>1. Sigs(hand'[p]) = Sigs(hand[p]) \cup Sigs(marker[key[p]])
    BY <1>0, <1>4, MergeType DEF Absorb, Carry
  <2> QED  BY <1>0, <1>4, <2>1, KeptWhere, KeptWhereNext DEF Absorb, Carry
<1>5. CASE PassRan(p)
  BY <1>0, <1>5, KeptWhere, KeptWhereNext DEF PassRan
<1>6. CASE Crash(p)
  BY <1>6 DEF Crash, Goto, Dead
<1> QED  BY <1>1, <1>2, <1>3, <1>4, <1>5, <1>6 DEF Action, Step

\* No step of run, drain or queue forgets a signal it was given, with any
\* number of processes merging, taking and requeueing; only a kill does.
THEOREM NothingLost == Spec => NeverForgets
<1>1. FlightInv /\ [Next]_vars => [Dead' = Dead => Kept \cup ran \subseteq (Kept \cup ran)']_vars
  <2> SUFFICES ASSUME FlightInv, Next, Dead' = Dead PROVE Kept \cup ran \subseteq (Kept \cup ran)'
    OBVIOUS
  <2>1. PICK p \in Proc : Action(p)
    BY DEF Next, Action
  <2> QED  BY <2>1, ForgetStep
<1> QED  BY <1>1, FlightInvHolds, PTL DEF Spec, NeverForgets

-----------------------------------------------------------------------------
(* The refinement *)

\* The initial state is an initial state of the promise.
LEMMA InitRefines == Init => C!Init
BY DEF Init, C!Init, Pending, Running, Busy, Active, Orphan, Dead, Between, InPass, Sigs

\* The mapped variables, key by key.
Same(k) ==
    /\ Pending'[k] = Pending[k] /\ Running'[k] = Running[k]
    /\ k \in Busy' <=> k \in Busy
    /\ k \in Active' <=> k \in Active
    /\ k \in Orphan' <=> k \in Orphan

\* What the mapped variables are at one key.
LEMMA At ==
    ASSUME NEW k \in Key
    PROVE  /\ Between(k) => Pending[k] = Sigs(marker[k]) \cup Sigs(hand[flight[k]])
           /\ ~Between(k) => Pending[k] = Sigs(marker[k])
           /\ Running[k] = IF InPass(k) THEN Sigs(hand[flight[k]]) ELSE {}
           /\ k \in Busy <=> InPass(k)
           /\ k \in Active <=> flight[k] # NoProc
           /\ k \in Orphan <=>
                 flight[k] = NoProc /\ \E q \in Proc : key[q] = k /\ pc[q] = "merge"
BY DEF Pending, Running, Busy, Active, Orphan

\* The same in the next state.
LEMMA AtNext ==
    ASSUME NEW k \in Key
    PROVE  /\ flight'[k] # NoProc /\ pc'[flight'[k]] = "absorb"
                 => Pending'[k] = Sigs(marker'[k]) \cup Sigs(hand'[flight'[k]])
           /\ ~(flight'[k] # NoProc /\ pc'[flight'[k]] = "absorb")
                 => Pending'[k] = Sigs(marker'[k])
           /\ Running'[k] = IF flight'[k] # NoProc /\ pc'[flight'[k]] # "absorb"
                            THEN Sigs(hand'[flight'[k]]) ELSE {}
           /\ k \in Busy' <=> flight'[k] # NoProc /\ pc'[flight'[k]] # "absorb"
           /\ k \in Active' <=> flight'[k] # NoProc
           /\ k \in Orphan' <=>
                 flight'[k] = NoProc /\ \E q \in Proc : key'[q] = k /\ pc'[q] = "merge"
BY DEF Pending, Running, Busy, Active, Orphan, Between, InPass, Sigs

\* A key whose runner stays as it is waits for what its marker gains.
LEMMA Waits ==
    ASSUME NEW k \in Key, NEW S,
           Sigs(marker'[k]) = Sigs(marker[k]) \cup S, flight'[k] = flight[k],
           flight[k] # NoProc => /\ pc'[flight[k]] = pc[flight[k]]
                                 /\ hand'[flight[k]] = hand[flight[k]]
    PROVE  /\ Pending'[k] = Pending[k] \cup S
           /\ Running'[k] = Running[k]
           /\ k \in Busy' <=> k \in Busy
           /\ k \in Active' <=> k \in Active
<1>1. Pending'[k] = Pending[k] \cup S
  <2>1. CASE Between(k)
    <3>1. Sigs(hand'[flight'[k]]) = Sigs(hand[flight[k]])
      BY <2>1 DEF Between
    <3>2. flight'[k] # NoProc /\ pc'[flight'[k]] = "absorb"
      BY <2>1 DEF Between
    <3>3. Pending[k] = Sigs(marker[k]) \cup Sigs(hand[flight[k]])
      BY <2>1, At
    <3>4. Pending'[k] = Sigs(marker'[k]) \cup Sigs(hand'[flight'[k]])
      BY <3>2, AtNext
    <3> QED  BY <3>1, <3>3, <3>4
  <2>2. CASE ~Between(k)
    <3>1. ~(flight'[k] # NoProc /\ pc'[flight'[k]] = "absorb")
      BY <2>2 DEF Between
    <3>2. Pending[k] = Sigs(marker[k])
      BY <2>2, At
    <3>3. Pending'[k] = Sigs(marker'[k])
      BY <3>1, AtNext
    <3> QED  BY <3>2, <3>3
  <2> QED  BY <2>1, <2>2
<1>2. Running'[k] = Running[k]
  BY At, AtNext DEF InPass
<1>3. k \in Busy' <=> k \in Busy
  BY At, AtNext DEF InPass
<1>4. k \in Active' <=> k \in Active
  BY At, AtNext
<1> QED  BY <1>1, <1>2, <1>3, <1>4

\* A key whose marker, runner and contenders stay the same looks the same.
LEMMA SameKey ==
    ASSUME NEW k \in Key,
           marker'[k] = marker[k], flight'[k] = flight[k],
           flight[k] # NoProc => /\ pc'[flight[k]] = pc[flight[k]]
                                 /\ hand'[flight[k]] = hand[flight[k]],
           \A q \in Proc : (key[q] = k /\ pc[q] = "merge") <=> (key'[q] = k /\ pc'[q] = "merge")
    PROVE  Same(k)
<1>1. Sigs(marker'[k]) = Sigs(marker[k]) \cup {}
  OBVIOUS
<1>2. /\ Pending'[k] = Pending[k] \cup {} /\ Running'[k] = Running[k]
      /\ k \in Busy' <=> k \in Busy
      /\ k \in Active' <=> k \in Active
  BY <1>1, Waits
<1>3. k \in Orphan' <=> k \in Orphan
  BY At, AtNext
<1> QED  BY <1>2, <1>3 DEF Same

\* Outside its own key a step of p changes nothing the promise sees.
LEMMA OtherKeys ==
    ASSUME FlightInv, FlightInv', NEW p \in Proc, key' = key,
           \A j \in Key \ {key[p]} : marker'[j] = marker[j] /\ flight'[j] = flight[j],
           \A q \in Proc \ {p} : pc'[q] = pc[q] /\ hand'[q] = hand[q]
    PROVE  \A j \in Key \ {key[p]} : Same(j)
<1> SUFFICES ASSUME NEW j \in Key \ {key[p]} PROVE Same(j)
  OBVIOUS
<1>1. flight[j] # p
  <2>1. flight[j] # NoProc => key[flight[j]] = j
    BY DEF FlightInv, LocksHeld
  <2> QED  BY <2>1, FlightAssumption
<1>2. flight[j] # NoProc => flight[j] \in Proc \ {p}
  BY <1>1 DEF FlightInv, TypeOK
<1>3. \A q \in Proc : (key[q] = j /\ pc[q] = "merge") <=> (key'[q] = j /\ pc'[q] = "merge")
  OBVIOUS
<1> QED  BY <1>2, <1>3, SameKey

\* If every key looks the same, so does the promise's state.
LEMMA AllSame ==
    ASSUME \A k \in Key : Same(k), Dead' = Dead
    PROVE  UNCHANGED C!vars
<1>1. Pending' = Pending /\ Running' = Running
  BY DEF Same, Pending, Running
<1>2. Busy' = Busy /\ Active' = Active /\ Orphan' = Orphan
  BY DEF Same, Busy, Active, Orphan
<1> QED  BY <1>1, <1>2 DEF C!vars

\* If every key but k looks the same, the functions change at k only, and the
\* sets gain or lose at most k.
LEMMA AtKey ==
    ASSUME NEW k \in Key, \A j \in Key \ {k} : Same(j)
    PROVE  /\ Pending' = [Pending EXCEPT ![k] = Pending'[k]]
           /\ Running' = [Running EXCEPT ![k] = Running'[k]]
           /\ Busy' = IF k \in Busy' THEN Busy \cup {k} ELSE Busy \ {k}
           /\ Active' = IF k \in Active' THEN Active \cup {k} ELSE Active \ {k}
           /\ Orphan' = IF k \in Orphan' THEN Orphan \cup {k} ELSE Orphan \ {k}
<1>1. Pending' = [Pending EXCEPT ![k] = Pending'[k]]
  BY DEF Same, Pending
<1>2. Running' = [Running EXCEPT ![k] = Running'[k]]
  BY DEF Same, Running
<1>3. Busy' = IF k \in Busy' THEN Busy \cup {k} ELSE Busy \ {k}
  BY DEF Same, Busy
<1>4. Active' = IF k \in Active' THEN Active \cup {k} ELSE Active \ {k}
  BY DEF Same, Active
<1>5. Orphan' = IF k \in Orphan' THEN Orphan \cup {k} ELSE Orphan \ {k}
  BY DEF Same, Orphan
<1> QED  BY <1>1, <1>2, <1>3, <1>4, <1>5

\* And what looks the same at k too has not changed at all.
LEMMA KeepsKey ==
    ASSUME NEW k \in Key, \A j \in Key \ {k} : Same(j)
    PROVE  /\ Pending'[k] = Pending[k] => Pending' = Pending
           /\ Running'[k] = Running[k] => Running' = Running
           /\ (k \in Busy' <=> k \in Busy) => Busy' = Busy
           /\ (k \in Active' <=> k \in Active) => Active' = Active
           /\ (k \in Orphan' <=> k \in Orphan) => Orphan' = Orphan
<1>1. Pending'[k] = Pending[k] => Pending' = Pending
  BY DEF Same, Pending
<1>2. Running'[k] = Running[k] => Running' = Running
  BY DEF Same, Running
<1>3. (k \in Busy' <=> k \in Busy) => Busy' = Busy
  BY DEF Same, Busy
<1>4. (k \in Active' <=> k \in Active) => Active' = Active
  BY DEF Same, Active
<1>5. (k \in Orphan' <=> k \in Orphan) => Orphan' = Orphan
  BY DEF Same, Orphan
<1> QED  BY <1>1, <1>2, <1>3, <1>4, <1>5

\* Only a kill changes who is dead.
LEMMA DeadStep ==
    ASSUME FlightInv, NEW p \in Proc, pc' = [pc EXCEPT ![p] = pc'[p]],
           pc[p] # "dead", pc'[p] # "dead"
    PROVE  Dead' = Dead
BY DEF Dead, FlightInv, TypeOK

\* While p holds the marker lock of its key, no other process merges there.
LEMMA OneMerger ==
    ASSUME FlightInv, NEW p \in Proc, mlock[key[p]] = p
    PROVE  \A q \in Proc : key[q] = key[p] /\ pc[q] = "merge" => q = p
BY DEF FlightInv, LocksHeld

\* Entering, re-keying and locking are stutters of the promise.
LEMMA OffstageRefines ==
    ASSUME FlightInv, FlightInv', NEW p \in Proc,
           \/ \E k \in Key, s \in Signal : Run(p, k, s) \/ Queue(p, k, s)
           \/ LockMarker(p)
           \/ \E k \in Key : Rekey(p, k)
    PROVE  UNCHANGED C!vars
<1> USE FlightAssumption DEF FlightInv, TypeOK
<1>1. /\ flight' = flight /\ marker' = marker
      /\ pc' = [pc EXCEPT ![p] = pc'[p]]
      /\ \A q \in Proc \ {p} : pc'[q] = pc[q] /\ key'[q] = key[q] /\ hand'[q] = hand[q]
      /\ pc[p] # "dead" /\ pc'[p] # "dead"
  BY DEF Run, Queue, Submit, LockMarker, LockMarkerAt, Rekey, Goto, NeedsMarker
<1>2. Dead' = Dead
  BY <1>1, DeadStep
<1>3. CASE pc' = pc /\ hand' = hand /\ key' = key
  BY <1>1, <1>2, <1>3, SameKey, AllSame
<1>4. CASE pc[p] \in {"idle", "carried"} /\ pc'[p] \in {"enter", "queue"}
  <2> SUFFICES ASSUME NEW k \in Key PROVE Same(k)
    BY <1>2, AllSame
  <2>1. flight[k] # NoProc => flight[k] \in Proc \ {p}
    BY <1>4 DEF LocksHeld, OnFlight
  <2>2. \A q \in Proc : (key[q] = k /\ pc[q] = "merge") <=> (key'[q] = k /\ pc'[q] = "merge")
    BY <1>1, <1>4
  <2> QED  BY <1>1, <2>1, <2>2, SameKey
<1> QED  BY <1>3, <1>4
         DEF Run, Queue, Submit, LockMarker, LockMarkerAt, Rekey, Goto

\* run: the winner of the flight lock is accepted as the runner, the loser
\* waits for its merge.
LEMMA TryRefines ==
    ASSUME FlightInv, FlightInv', NEW p \in Proc, TryFlight(p)
    PROVE  C!Next \/ UNCHANGED C!vars
<1> DEFINE k == key[p]
<1>1. /\ k \in Key /\ key' = key /\ marker' = marker /\ hand' = hand
      /\ pc' = [pc EXCEPT ![p] = pc'[p]] /\ pc[p] = "enter" /\ mlock[k] = p
      /\ pc'[p] \in {"absorb", "merge"}
      /\ \A j \in Key \ {k} : flight'[j] = flight[j]
      /\ \A q \in Proc \ {p} : pc'[q] = pc[q]
  BY DEF TryFlight, Goto, FlightInv, TypeOK
<1>2. Dead' = Dead
  BY <1>1, DeadStep
<1>3. \A q \in Proc : key[q] = k => pc[q] # "merge"
  BY <1>1, OneMerger
<1>4. Sigs(hand[p]) \in SUBSET Signal
  BY SigsType DEF FlightInv, TypeOK
<1>5. \A j \in Key \ {k} : Same(j)
  BY <1>1, OtherKeys
<1>6. CASE flight[k] = NoProc
  <2>1. flight'[k] = p /\ pc'[p] = "absorb" /\ p # NoProc
    BY <1>6, <1>1, FlightAssumption DEF TryFlight, Goto, FlightInv, TypeOK
  <2>2. Pending'[k] = Pending[k] \cup Sigs(hand[p])
    BY <1>1, <1>6, <2>1, At, AtNext DEF Between
  <2>3. Running'[k] = Running[k]
    BY <1>1, <1>6, <2>1, At, AtNext DEF InPass
  <2>4. k \notin Busy /\ k \notin Busy' /\ k \in Active' /\ k \notin Orphan /\ k \notin Orphan'
    BY <1>1, <1>3, <1>6, <2>1, At, AtNext DEF InPass
  <2>5. C!Accept(k, Sigs(hand[p]))
    BY <1>1, <1>2, <1>5, <2>2, <2>3, <2>4, AtKey, KeepsKey DEF C!Accept
  <2> QED  BY <1>1, <1>4, <2>5 DEF C!Next
<1>7. CASE flight[k] # NoProc
  <2>1. flight' = flight
    BY <1>7 DEF TryFlight
  <2>2. flight[k] \in Proc \ {p}
    BY <1>1, <1>7 DEF FlightInv, TypeOK, LocksHeld, OnFlight
  <2>3. Same(k)
    <3>1. Sigs(marker'[k]) = Sigs(marker[k]) \cup {}
      BY <1>1
    <3>2. /\ Pending'[k] = Pending[k] \cup {} /\ Running'[k] = Running[k]
          /\ k \in Busy' <=> k \in Busy
          /\ k \in Active' <=> k \in Active
      BY <1>1, <2>1, <2>2, <3>1, Waits
    <3>3. k \in Orphan' <=> k \in Orphan
      BY <1>1, <1>7, <2>1, At, AtNext
    <3> QED  BY <3>2, <3>3 DEF Same
  <2> QED  BY <1>2, <1>5, <2>3, AllSame
<1> QED  BY <1>6, <1>7

\* A contender's merge is accepted by the runner it saw, or deposited when the
\* runner was killed since; queue() parks.
LEMMA MergeRefines ==
    ASSUME FlightInv, FlightInv', NEW p \in Proc, MergeIntoMarker(p)
    PROVE  C!Next
<1> DEFINE k == key[p]
<1>1. /\ k \in Key /\ key' = key /\ flight' = flight /\ mlock[k] = p
      /\ pc' = [pc EXCEPT ![p] = pc'[p]] /\ pc[p] \in {"merge", "queue"} /\ pc'[p] = "idle"
      /\ \A j \in Key \ {k} : marker'[j] = marker[j]
      /\ \A q \in Proc \ {p} : hand'[q] = hand[q] /\ pc'[q] = pc[q]
  BY DEF MergeIntoMarker, Goto, FlightInv, TypeOK
<1>2. Dead' = Dead
  BY <1>1, DeadStep
<1>3. \A q \in Proc : key[q] = k /\ pc[q] = "merge" => q = p
  BY <1>1, OneMerger
<1>4. Sigs(hand[p]) \in SUBSET Signal
  BY SigsType DEF FlightInv, TypeOK
<1>5. \A j \in Key \ {k} : Same(j)
  BY <1>1, OtherKeys
<1>6. Sigs(marker'[k]) = Sigs(hand[p]) \cup Sigs(marker[k])
  BY <1>1, MergeType DEF MergeIntoMarker, FlightInv, TypeOK
<1>7. flight[k] # NoProc => flight[k] \in Proc \ {p}
  BY <1>1 DEF FlightInv, TypeOK, LocksHeld, OnFlight
<1>8. Sigs(marker'[k]) = Sigs(marker[k]) \cup Sigs(hand[p])
  BY <1>6
<1>9. /\ Pending'[k] = Pending[k] \cup Sigs(hand[p]) /\ Running'[k] = Running[k]
      /\ k \in Busy' <=> k \in Busy
      /\ k \in Active' <=> k \in Active
  BY <1>1, <1>7, <1>8, Waits
<1>10. k \notin Orphan'
  BY <1>1, <1>3, AtNext
<1>11. /\ Pending' = [Pending EXCEPT ![k] = @ \cup Sigs(hand[p])]
       /\ Running' = Running /\ Busy' = Busy /\ Active' = Active
       /\ Orphan' = Orphan \ {k}
  BY <1>1, <1>5, <1>9, <1>10, AtKey, KeepsKey
<1>12. CASE pc[p] = "queue"
  <2>1. k \notin Orphan
    BY <1>3, <1>12, <1>1, At
  <2>2. Sigs(hand[p]) \subseteq Inert
    BY <1>12 DEF Sigs, FlightInv, LocksHeld
  <2>3. C!Park(k, Sigs(hand[p]))
    BY <1>2, <1>11, <2>1, <2>2 DEF C!Park
  <2> QED  BY <1>1, <1>4, <2>3 DEF C!Next
<1>13. CASE pc[p] = "merge" /\ flight[k] # NoProc
  <2>1. k \notin Orphan /\ k \in Active
    BY <1>13, <1>1, At
  <2>2. C!Accept(k, Sigs(hand[p]))
    BY <1>2, <1>11, <2>1 DEF C!Accept
  <2> QED  BY <1>1, <1>4, <2>2 DEF C!Next
<1>14. CASE pc[p] = "merge" /\ flight[k] = NoProc
  <2>1. k \in Orphan
    BY <1>14, <1>1, At
  <2>2. C!Deposit(k, Sigs(hand[p]))
    BY <1>2, <1>11, <2>1 DEF C!Deposit
  <2> QED  BY <1>1, <1>4, <2>2 DEF C!Next
<1> QED  BY <1>1, <1>12, <1>13, <1>14

\* The runner at the top of its loop starts a pass over all that waits, or
\* rests because nothing does.
LEMMA AbsorbRefines ==
    ASSUME FlightInv, FlightInv', NEW p \in Proc, Absorb(p)
    PROVE  C!Next
<1> DEFINE k == key[p]
<1>1. /\ k \in Key /\ key' = key /\ mlock[k] = p /\ flight[k] = p /\ p # NoProc
      /\ pc' = [pc EXCEPT ![p] = pc'[p]] /\ pc[p] = "absorb" /\ pc'[p] \in {"idle", "pass"}
      /\ \A j \in Key \ {k} : marker'[j] = marker[j] /\ flight'[j] = flight[j]
      /\ \A q \in Proc \ {p} : hand'[q] = hand[q] /\ pc'[q] = pc[q]
  BY FlightAssumption DEF Absorb, Goto, FlightInv, TypeOK, LocksHeld, OnFlight
<1>2. Dead' = Dead
  BY <1>1, DeadStep
<1>3. \A j \in Key \ {k} : Same(j)
  BY <1>1, OtherKeys
<1>4. \A q \in Proc : key[q] = k => pc[q] # "merge" /\ pc'[q] # "merge"
  BY <1>1, OneMerger
<1>5. k \notin Orphan /\ k \notin Orphan' /\ k \in Active /\ k \notin Busy
  BY <1>1, <1>4, At, AtNext DEF InPass
<1>6. Pending[k] = Sigs(marker[k]) \cup Sigs(hand[p])
  BY <1>1, At DEF Between
<1>7. /\ marker'[k] = None /\ Sigs(None) = {}
      /\ hand'[p] = Merge(hand[p], marker[k])
  BY <1>1 DEF Absorb, FlightInv, TypeOK, Sigs
<1>8. /\ Sigs(hand'[p]) = Pending[k]
      /\ Merge(hand[p], marker[k]) = None => Sigs(hand'[p]) = {}
  <2>1. hand[p] \in Payload \cup {None} /\ marker[k] \in Payload \cup {None}
    BY <1>1 DEF FlightInv, TypeOK
  <2>2. Sigs(Merge(hand[p], marker[k])) = Sigs(hand[p]) \cup Sigs(marker[k])
    BY <2>1, MergeType
  <2>3. Sigs(hand'[p]) = Sigs(Merge(hand[p], marker[k]))
    BY <1>7
  <2>4. Sigs(hand'[p]) = Pending[k]
    BY <1>6, <2>2, <2>3
  <2> QED  BY <1>7, <2>3, <2>4
<1>9. Running[k] = {}
  BY <1>1, At DEF InPass
<1>10. CASE Merge(hand[p], marker[k]) = None
  <2>1. flight'[k] = NoProc
    BY <1>1, <1>10 DEF Absorb, FlightInv, TypeOK
  <2>2. Pending[k] = {} /\ Pending'[k] = {} /\ Running'[k] = {}
    BY <1>1, <1>7, <1>8, <1>10, <2>1, AtNext
  <2>3. k \notin Active' /\ k \notin Busy'
    BY <1>1, <2>1, AtNext
  <2>4. C!Rest(k)
    BY <1>1, <1>2, <1>3, <1>5, <1>9, <2>2, <2>3, AtKey, KeepsKey DEF C!Rest
  <2> QED  BY <1>1, <2>4 DEF C!Next
<1>11. CASE Merge(hand[p], marker[k]) # None
  <2>1. flight'[k] = p /\ pc'[p] = "pass"
    BY <1>1, <1>11 DEF Absorb, Goto, FlightInv, TypeOK
  <2>2. Pending'[k] = {} /\ Running'[k] = Pending[k]
    BY <1>1, <1>7, <1>8, <2>1, AtNext
  <2>3. k \in Active' /\ k \in Busy'
    BY <1>1, <2>1, AtNext
  <2>4. C!StartPass(k)
    BY <1>1, <1>2, <1>3, <1>5, <2>2, <2>3, AtKey, KeepsKey DEF C!StartPass
  <2> QED  BY <1>1, <2>4 DEF C!Next
<1> QED  BY <1>10, <1>11

\* A pass that ran finishes; one that stops is still a pass until it has put
\* its payload somewhere.
LEMMA PassRefines ==
    ASSUME FlightInv, FlightInv', NEW p \in Proc, PassRan(p) \/ PassStops(p)
    PROVE  C!Next \/ UNCHANGED C!vars
<1> DEFINE k == key[p]
<1>1. /\ k \in Key /\ key' = key /\ flight' = flight /\ marker' = marker
      /\ flight[k] = p /\ p # NoProc
      /\ pc' = [pc EXCEPT ![p] = pc'[p]] /\ pc[p] = "pass"
      /\ pc'[p] \in {"absorb", "requeue", "carry"}
      /\ \A q \in Proc \ {p} : hand'[q] = hand[q] /\ pc'[q] = pc[q]
  BY FlightAssumption DEF PassRan, PassStops, Goto, FlightInv, TypeOK, LocksHeld, OnFlight
<1>2. Dead' = Dead
  BY <1>1, DeadStep
<1>3. \A j \in Key \ {k} : Same(j)
  BY <1>1, OtherKeys
<1>4. /\ k \in Active /\ k \in Active' /\ k \in Busy
      /\ k \notin Orphan /\ k \notin Orphan'
      /\ Pending[k] = Sigs(marker[k])
  BY <1>1, At, AtNext DEF InPass, Between
<1>5. CASE PassRan(p)
  <2>1. pc'[p] = "absorb" /\ Sigs(hand'[p]) = {}
    BY <1>5 DEF PassRan, Goto, FlightInv, TypeOK, Sigs
  <2>2. Pending'[k] = Pending[k]
    <3>1. Pending'[k] = Sigs(marker'[k]) \cup Sigs(hand'[flight'[k]])
      BY <1>1, <2>1, AtNext
    <3> QED  BY <1>1, <1>4, <2>1, <3>1
  <2>3. Running'[k] = {} /\ k \notin Busy'
    BY <1>1, <2>1, AtNext
  <2>4. C!Finish(k)
    BY <1>1, <1>2, <1>3, <1>4, <2>2, <2>3, AtKey, KeepsKey DEF C!Finish
  <2> QED  BY <1>1, <2>4 DEF C!Next
<1>6. CASE PassStops(p)
  <2>1. hand' = hand /\ pc'[p] # "absorb"
    BY <1>6 DEF PassStops, Goto, FlightInv, TypeOK
  <2>2. Pending'[k] = Pending[k] /\ Running'[k] = Running[k] /\ k \in Busy'
    BY <1>1, <1>4, <2>1, At, AtNext DEF InPass
  <2> QED  BY <1>2, <1>3, <1>4, <2>2, AllSame DEF Same
<1> QED  BY <1>5, <1>6

\* Requeue gives the pass's signals back, Carry takes everything away.
LEMMA StopRefines ==
    ASSUME FlightInv, FlightInv', NEW p \in Proc, Requeue(p) \/ Carry(p)
    PROVE  C!Next
<1> DEFINE k == key[p]
<1>1. /\ k \in Key /\ key' = key /\ mlock[k] = p
      /\ flight[k] = p /\ flight'[k] = NoProc /\ p # NoProc
      /\ pc' = [pc EXCEPT ![p] = pc'[p]] /\ pc[p] \in {"requeue", "carry"}
      /\ pc'[p] \in {"idle", "carried"}
      /\ \A j \in Key \ {k} : marker'[j] = marker[j] /\ flight'[j] = flight[j]
      /\ \A q \in Proc \ {p} : hand'[q] = hand[q] /\ pc'[q] = pc[q]
  BY FlightAssumption DEF Requeue, Carry, Goto, FlightInv, TypeOK, LocksHeld, OnFlight
<1>2. Dead' = Dead
  BY <1>1, DeadStep
<1>3. \A j \in Key \ {k} : Same(j)
  BY <1>1, OtherKeys
<1>4. \A q \in Proc : key[q] = k => pc[q] # "merge" /\ pc'[q] # "merge"
  BY <1>1, OneMerger
<1>5. /\ k \in Active /\ k \notin Active' /\ k \in Busy /\ k \notin Busy'
      /\ k \notin Orphan /\ k \notin Orphan'
      /\ Running[k] = Sigs(hand[p]) /\ Running'[k] = {}
      /\ Pending[k] = Sigs(marker[k]) /\ Pending'[k] = Sigs(marker'[k])
  BY <1>1, <1>4, At, AtNext DEF InPass, Between
<1>6. CASE Requeue(p)
  <2>1. Sigs(marker'[k]) = Sigs(hand[p]) \cup Sigs(marker[k])
    BY <1>1, <1>6, MergeType DEF Requeue, FlightInv, TypeOK
  <2>2. Pending'[k] = Pending[k] \cup Running[k]
    BY <1>5, <2>1
  <2>3. C!GiveBack(k)
    BY <1>1, <1>2, <1>3, <1>5, <2>2, AtKey, KeepsKey DEF C!GiveBack, C!Stop
  <2> QED  BY <1>1, <2>3 DEF C!Next
<1>7. CASE Carry(p)
  <2>1. Sigs(marker'[k]) = {}
    BY <1>1, <1>7 DEF Carry, FlightInv, TypeOK, Sigs
  <2>2. C!CarryAway(k)
    BY <1>1, <1>2, <1>3, <1>5, <2>1, AtKey, KeepsKey DEF C!CarryAway, C!Stop
  <2> QED  BY <1>1, <2>2 DEF C!Next
<1> QED  BY <1>6, <1>7

\* A kill is a death: the runner's signals and obligation go with it, a torn
\* write takes what the marker held.
LEMMA CrashRefines ==
    ASSUME FlightInv, FlightInv', NEW p \in Proc, Crash(p)
    PROVE  C!Next
<1> DEFINE k == key[p]
<1>1. /\ k \in Key /\ key' = key /\ p # NoProc
      /\ pc' = [pc EXCEPT ![p] = pc'[p]] /\ pc[p] # "dead" /\ pc'[p] = "dead"
      /\ flight'[k] = IF flight[k] = p THEN NoProc ELSE flight[k]
      /\ \A j \in Key \ {k} : marker'[j] = marker[j] /\ flight'[j] = flight[j]
      /\ \A q \in Proc \ {p} : hand'[q] = hand[q] /\ pc'[q] = pc[q]
  BY FlightAssumption DEF Crash, Goto, FlightInv, TypeOK
<1>2. p \in Proc \ Dead /\ Dead' = Dead \cup {p}
  BY <1>1 DEF Dead, FlightInv, TypeOK
<1>3. \A j \in Key \ {k} : Same(j)
  BY <1>1, OtherKeys
<1>4. Sigs(marker'[k]) \subseteq Sigs(marker[k])
  BY <1>1 DEF Crash, FlightInv, TypeOK, Sigs
<1>5. Pending' = [Pending EXCEPT ![k] = Pending'[k]]
  BY <1>1, <1>3, AtKey
<1>6. Orphan' \in {Orphan \cup {k}, Orphan \ {k}}
  BY <1>1, <1>3, AtKey
<1>7. CASE flight[k] = p
  <2>1. k \notin Active' /\ k \notin Busy' /\ Running'[k] = {} /\ Pending'[k] = Sigs(marker'[k])
    BY <1>1, <1>7, AtNext
  <2>2. Sigs(marker[k]) \subseteq Pending[k]
    BY <1>1, At
  <2>3. Pending'[k] \in SUBSET Pending[k]
    BY <1>4, <2>1, <2>2
  <2>4. /\ Running' = [Running EXCEPT ![k] = {}]
        /\ Busy' = Busy \ {k} /\ Active' = Active \ {k}
    BY <1>1, <1>3, <2>1, AtKey
  <2>5. C!Die(k)
    BY <1>2, <1>5, <1>6, <2>3, <2>4 DEF C!Die
  <2> QED  BY <1>1, <2>5 DEF C!Next
<1>8. CASE flight[k] # p
  <2>1. flight'[k] = flight[k]
    BY <1>1, <1>8
  <2>2. flight[k] # NoProc => flight[k] \in Proc \ {p}
    BY <1>1, <1>8 DEF FlightInv, TypeOK
  <2>3. Running'[k] = Running[k]
    BY <1>1, <2>1, <2>2, At, AtNext DEF InPass
  <2>4. k \in Busy' <=> k \in Busy
    BY <1>1, <2>1, <2>2, At, AtNext DEF InPass
  <2>5. k \in Active' <=> k \in Active
    BY <1>1, <2>1, At, AtNext
  <2>6. Pending'[k] \in SUBSET Pending[k]
    <3>1. CASE Between(k)
      <4>1. Sigs(hand'[flight'[k]]) = Sigs(hand[flight[k]])
        BY <1>1, <2>1, <2>2, <3>1 DEF Between
      <4>2. flight'[k] # NoProc /\ pc'[flight'[k]] = "absorb"
        BY <1>1, <2>1, <2>2, <3>1 DEF Between
      <4>3. Pending[k] = Sigs(marker[k]) \cup Sigs(hand[flight[k]])
        BY <1>1, <3>1, At
      <4>4. Pending'[k] = Sigs(marker'[k]) \cup Sigs(hand'[flight'[k]])
        BY <1>1, <4>2, AtNext
      <4> QED  BY <1>4, <4>1, <4>3, <4>4
    <3>2. CASE ~Between(k)
      <4>1. ~(flight'[k] # NoProc /\ pc'[flight'[k]] = "absorb")
        BY <1>1, <2>1, <2>2, <3>2 DEF Between
      <4> QED  BY <1>1, <1>4, <3>2, <4>1, At, AtNext
    <3> QED  BY <3>1, <3>2
  <2>7. Running' = Running /\ Busy' = Busy /\ Active' = Active
    BY <1>1, <1>3, <2>3, <2>4, <2>5, KeepsKey
  <2>8. C!Die(k)
    BY <1>2, <1>5, <1>6, <2>6, <2>7 DEF C!Die
  <2> QED  BY <1>1, <2>8 DEF C!Next
<1> QED  BY <1>7, <1>8

\* The file protocol of run, drain and queue implements the promise: for any
\* processes, keys and signals, a runner's obligation ends only when nothing
\* waits, when its pass put its signals back or carried them off, or when it
\* is killed.
THEOREM FlightImplements == Spec => Implements
<1>1. Init => C!Init
  BY InitRefines
<1>2. FlightInv /\ FlightInv' /\ [Next]_vars => [C!Next]_(C!vars)
  <2> SUFFICES ASSUME FlightInv, FlightInv', [Next]_vars
               PROVE  C!Next \/ UNCHANGED C!vars
    OBVIOUS
  <2>1. CASE UNCHANGED vars
    BY <2>1 DEF vars, C!vars, Pending, Running, Busy, Active, Orphan, Dead,
                Between, InPass, Sigs
  <2>2. CASE Next
    <3>1. PICK p \in Proc : Action(p)
      BY <2>2 DEF Next, Action
    <3> QED  BY <3>1, OffstageRefines, TryRefines, MergeRefines, AbsorbRefines,
                PassRefines, StopRefines, CrashRefines DEF Action, Step
  <2> QED  BY <2>1, <2>2
<1> QED  BY <1>1, <1>2, FlightInvHolds, PTL DEF Spec, Implements, C!Safe
=============================================================================
