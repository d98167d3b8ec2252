--------------------- MODULE GenerationAdmission_proofs ---------------------
(* Theorems about GenerationAdmission, for every value of its constants.   *)
EXTENDS GenerationAdmission, FiniteSetTheorems, TLAPS

(* The inductive invariant behind the limits: the ledger is exact, no      *)
(* counter is above its limit, and only leases of the canonical room have  *)
(* a process.                                                              *)
Placed == \A r \in Leased : run[r].pc = "leased" <=> run[r].room # Canonical
CountersWithinLimits ==
    /\ globalActive <= GlobalLimit
    /\ \A m \in Rooms : roomActive[m] <= PerRoomLimit
    /\ \A p \in Providers : providerActive[p] <= ProviderLimit[p]
LedgerInv == CapacityLedger /\ CountersWithinLimits /\ Placed

USE DEF Rooms, CanonicalPc, LivePc, IdleRun, LiveRun, WorkPhase, NoOwner, OwnedWork, NoEdit

\* The assumptions, one by one.
LEMMA ConstantFacts ==
    /\ IsFiniteSet(Runs)
    /\ NoWork \notin Works
    /\ Canonical \notin OtherRooms
    /\ PerRoomLimit \in Nat \ {0}
    /\ GlobalLimit \in Nat \ {0}
    /\ ProviderLimit \in [Providers -> Nat \ {0}]
  BY AdmissionAssumption

(* Every variable keeps its type: one step per action of Next.             *)
THEOREM TypeCorrect == Spec => []TypeOK
<1>1. Init => TypeOK
  BY DEF Init, TypeOK
<1>2. TypeOK /\ [Next]_vars => TypeOK'
  <2> SUFFICES ASSUME TypeOK, [Next]_vars PROVE TypeOK'
    OBVIOUS
  <2> USE ConstantFacts DEF TypeOK, MoveTo, TakeCapacity, GiveCapacity, trackerVars,
        capacityVars, protectVars
  <2>1. ASSUME NEW r \in Runs, NEW a \in Agents, NEW p \in Providers,
               NEW w \in Works \cup {NoWork}, Reserve(r, a, p, w)
        PROVE  TypeOK'
    BY <2>1 DEF Reserve
  <2>2. ASSUME NEW r \in Runs, Activate(r)
        PROVE  TypeOK'
    BY <2>2 DEF Activate
  <2>3. ASSUME NEW r \in Runs, LifecycleStart(r)
        PROVE  TypeOK'
    BY <2>3 DEF LifecycleStart
  <2>4. ASSUME NEW r \in Runs, Spawn(r)
        PROVE  TypeOK'
    BY <2>4 DEF Spawn
  <2>5. ASSUME NEW r \in Runs, Settle(r)
        PROVE  TypeOK'
    BY <2>5 DEF Settle
  <2>6. ASSUME NEW r \in Runs, Release(r)
        PROVE  TypeOK'
    BY <2>6 DEF Release
  <2>7. ASSUME NEW r \in Runs, GenerationTimeout(r)
        PROVE  TypeOK'
    BY <2>7 DEF GenerationTimeout
  <2>8. ASSUME NEW r \in Runs, NEW m \in OtherRooms, NEW a \in Agents,
               NEW p \in Providers, RegistryReserve(r, m, a, p)
        PROVE  TypeOK'
    BY <2>8 DEF RegistryReserve
  <2>9. ASSUME NEW r \in Runs, RegistryRelease(r)
        PROVE  TypeOK'
    BY <2>9 DEF RegistryRelease
  <2>10. ASSUME NEW w \in Works, NEW a \in Agents, Claim(w, a)
        PROVE  TypeOK'
    BY <2>10 DEF Claim
  <2>11. ASSUME NEW w \in Works, RecordWork(w)
        PROVE  TypeOK'
    BY <2>11 DEF RecordWork, WorkStep
  <2>12. ASSUME NEW w \in Works, DispatchWork(w)
        PROVE  TypeOK'
    BY <2>12 DEF DispatchWork, WorkStep
  <2>13. ASSUME NEW w \in Works, WorkStopped(w)
        PROVE  TypeOK'
    BY <2>13 DEF WorkStopped, WorkStep
  <2>14. ASSUME NEW w \in Works, AdmissionFails(w)
        PROVE  TypeOK'
    BY <2>14 DEF AdmissionFails, ReleaseOwner
  <2>15. ASSUME NEW w \in Works, WorkAvailable(w)
        PROVE  TypeOK'
    BY <2>15 DEF WorkAvailable, WorkStep, ReleaseOwner
  <2>16. ASSUME NEW S \in SUBSET EditedAgents, EditRoster(S)
        PROVE  TypeOK'
    BY <2>16, AdmissionAssumption DEF EditRoster
  <2>17. ASSUME ClearAgents
        PROVE  TypeOK'
    BY <2>17 DEF ClearAgents
  <2>18. ASSUME Restart
        PROVE  TypeOK'
    BY <2>18 DEF Restart, HeldBy
  <2>19. CASE UNCHANGED vars
    BY <2>19 DEF vars
  <2> QED
    BY <2>1, <2>2, <2>3, <2>4, <2>5, <2>6, <2>7, <2>8, <2>9, <2>10, <2>11, <2>12, <2>13, <2>14, <2>15, <2>16, <2>17, <2>18, <2>19 DEF Next, RunStep, ProtectedStep
<1> QED
  BY <1>1, <1>2, PTL DEF Spec

-----------------------------------------------------------------------------
(* A step that neither takes nor returns a lease.                          *)
SameLeases ==
    /\ \A r \in Runs :
         /\ run'[r].pc = "idle" <=> run[r].pc = "idle"
         /\ run[r].pc # "idle" =>
              /\ run'[r].room = run[r].room
              /\ run'[r].provider = run[r].provider
              /\ run'[r].pc = "leased" <=> run[r].pc = "leased"
    /\ UNCHANGED capacityVars

\* A step that keeps every lease keeps the ledger.
LEMMA LeasesKept ==
    ASSUME LedgerInv, SameLeases
    PROVE  LedgerInv'
<1>1. Leased' = Leased
  BY DEF SameLeases, Leased
<1>2. \A m \in Rooms : LeasedIn(m)' = LeasedIn(m)
  BY <1>1 DEF SameLeases, Leased, LeasedIn
<1>3. \A p \in Providers : LeasedBy(p)' = LeasedBy(p)
  BY <1>1 DEF SameLeases, Leased, LeasedBy
<1>4. CapacityLedger'
  BY <1>1, <1>2, <1>3 DEF LedgerInv, CapacityLedger, SameLeases, capacityVars
<1>5. CountersWithinLimits'
  BY DEF LedgerInv, CountersWithinLimits, SameLeases, capacityVars
<1>6. Placed'
  BY <1>1 DEF LedgerInv, Placed, SameLeases, Leased
<1> QED
  BY <1>4, <1>5, <1>6 DEF LedgerInv

\* A set grows or shrinks by one element.
LEMMA OneMore ==
    ASSUME NEW S, IsFiniteSet(S), NEW x, x \notin S
    PROVE  Cardinality(S \cup {x}) = Cardinality(S) + 1
BY FS_AddElement
\* The same for one element less.
LEMMA OneLess ==
    ASSUME NEW S, IsFiniteSet(S), NEW x \in S
    PROVE  Cardinality(S \ {x}) = Cardinality(S) - 1
BY FS_RemoveElement

(* One more lease: exactly one set per room and per provider grows.        *)
LEMMA LeaseTaken ==
    ASSUME TypeOK, LedgerInv,
           NEW r \in Runs, NEW m \in Rooms, NEW p \in Providers,
           NEW live \in LiveRun, live.room = m, live.provider = p,
           live.pc = "leased" <=> m # Canonical,
           run[r] = IdleRun, CapacityAvailable(m, p),
           run' = [run EXCEPT ![r] = live], TakeCapacity(m, p)
    PROVE  LedgerInv'
<1> USE DEF TypeOK
<1>0. /\ IsFiniteSet(Leased)
      /\ \A n \in Rooms : IsFiniteSet(LeasedIn(n))
      /\ \A q \in Providers : IsFiniteSet(LeasedBy(q))
  BY ConstantFacts, FS_Subset DEF Leased, LeasedIn, LeasedBy
<1>1. r \notin Leased /\ Leased' = Leased \cup {r}
  BY DEF Leased
<1>2. LeasedIn(m)' = LeasedIn(m) \cup {r} /\ r \notin LeasedIn(m)
  BY <1>1 DEF LeasedIn, Leased
<1>3. \A n \in Rooms \ {m} : LeasedIn(n)' = LeasedIn(n)
  BY <1>1 DEF LeasedIn, Leased
<1>4. LeasedBy(p)' = LeasedBy(p) \cup {r} /\ r \notin LeasedBy(p)
  BY <1>1 DEF LeasedBy, Leased
<1>5. \A q \in Providers \ {p} : LeasedBy(q)' = LeasedBy(q)
  BY <1>1 DEF LeasedBy, Leased
<1>6. Cardinality(Leased)' = Cardinality(Leased) + 1
  BY <1>0, <1>1, OneMore
<1>7. Cardinality(LeasedIn(m)') = Cardinality(LeasedIn(m)) + 1
  <2>1. IsFiniteSet(LeasedIn(m))
    BY <1>0
  <2>2. Cardinality(LeasedIn(m) \cup {r}) = Cardinality(LeasedIn(m)) + 1
    BY <1>2, <2>1, OneMore
  <2> QED
    BY <1>2, <2>2
<1>8. Cardinality(LeasedBy(p)') = Cardinality(LeasedBy(p)) + 1
  <2>1. IsFiniteSet(LeasedBy(p))
    BY <1>0
  <2>2. Cardinality(LeasedBy(p) \cup {r}) = Cardinality(LeasedBy(p)) + 1
    BY <1>4, <2>1, OneMore
  <2> QED
    BY <1>4, <2>2
<1>9. CapacityLedger'
  <2>1. (globalActive = Cardinality(Leased))'
    BY <1>6 DEF LedgerInv, CapacityLedger, TakeCapacity
  <2>2. \A n \in Rooms : roomActive'[n] = Cardinality(LeasedIn(n)')
    BY <1>3, <1>7 DEF LedgerInv, CapacityLedger, TakeCapacity
  <2>3. \A q \in Providers : providerActive'[q] = Cardinality(LeasedBy(q)')
    BY <1>5, <1>8 DEF LedgerInv, CapacityLedger, TakeCapacity
  <2> QED
    BY <2>1, <2>2, <2>3 DEF CapacityLedger
<1>10. CountersWithinLimits'
  <2>1. globalActive' <= GlobalLimit
    BY ConstantFacts DEF TakeCapacity, CapacityAvailable
  <2>2. \A n \in Rooms : roomActive'[n] <= PerRoomLimit
    BY ConstantFacts DEF LedgerInv, CountersWithinLimits, TakeCapacity, CapacityAvailable
  <2>3. ASSUME NEW q \in Providers PROVE providerActive'[q] <= ProviderLimit[q]
    <3>1. providerActive[q] \in Int /\ ProviderLimit[q] \in Int
      BY ConstantFacts
    <3>2. providerActive'[q] = IF q = p THEN providerActive[q] + 1 ELSE providerActive[q]
      BY DEF TakeCapacity
    <3> QED
      BY <3>1, <3>2 DEF LedgerInv, CountersWithinLimits, CapacityAvailable
  <2> QED
    BY <2>1, <2>2, <2>3 DEF CountersWithinLimits
<1>11. Placed'
  BY <1>1 DEF LedgerInv, Placed, Leased
<1> QED
  BY <1>9, <1>10, <1>11 DEF LedgerInv

(* One lease less: the release closure takes back what reserve counted.    *)
LEMMA LeaseGiven ==
    ASSUME TypeOK, LedgerInv,
           NEW r \in Leased, NEW m \in Rooms, NEW p \in Providers,
           run[r].room = m, run[r].provider = p,
           run' = [run EXCEPT ![r] = IdleRun],
           GiveCapacity(m, p)
    PROVE  LedgerInv'
<1> USE DEF TypeOK
<1>0. /\ IsFiniteSet(Leased)
      /\ \A n \in Rooms : IsFiniteSet(LeasedIn(n))
      /\ \A q \in Providers : IsFiniteSet(LeasedBy(q))
  BY ConstantFacts, FS_Subset DEF Leased, LeasedIn, LeasedBy
<1>1. Leased' = Leased \ {r}
  BY DEF Leased
<1>2. LeasedIn(m)' = LeasedIn(m) \ {r} /\ r \in LeasedIn(m)
  BY <1>1 DEF LeasedIn, Leased
<1>3. \A n \in Rooms \ {m} : LeasedIn(n)' = LeasedIn(n)
  BY <1>1 DEF LeasedIn, Leased
<1>4. LeasedBy(p)' = LeasedBy(p) \ {r} /\ r \in LeasedBy(p)
  BY <1>1 DEF LeasedBy, Leased
<1>5. \A q \in Providers \ {p} : LeasedBy(q)' = LeasedBy(q)
  BY <1>1 DEF LeasedBy, Leased
<1>6. Cardinality(Leased)' = Cardinality(Leased) - 1
  BY <1>0, <1>1, OneLess
<1>7. Cardinality(LeasedIn(m)') = Cardinality(LeasedIn(m)) - 1
  <2>1. IsFiniteSet(LeasedIn(m))
    BY <1>0
  <2>2. Cardinality(LeasedIn(m) \ {r}) = Cardinality(LeasedIn(m)) - 1
    BY <1>2, <2>1, OneLess
  <2> QED
    BY <1>2, <2>2
<1>8. Cardinality(LeasedBy(p)') = Cardinality(LeasedBy(p)) - 1
  <2>1. IsFiniteSet(LeasedBy(p))
    BY <1>0
  <2>2. Cardinality(LeasedBy(p) \ {r}) = Cardinality(LeasedBy(p)) - 1
    BY <1>4, <2>1, OneLess
  <2> QED
    BY <1>4, <2>2
<1>9. CapacityLedger'
  <2>1. (globalActive = Cardinality(Leased))'
    BY <1>6 DEF LedgerInv, CapacityLedger, GiveCapacity
  <2>2. \A n \in Rooms : roomActive'[n] = Cardinality(LeasedIn(n)')
    BY <1>3, <1>7 DEF LedgerInv, CapacityLedger, GiveCapacity
  <2>3. \A q \in Providers : providerActive'[q] = Cardinality(LeasedBy(q)')
    BY <1>5, <1>8 DEF LedgerInv, CapacityLedger, GiveCapacity
  <2> QED
    BY <2>1, <2>2, <2>3 DEF CapacityLedger
<1>10. CountersWithinLimits'
  <2>1. globalActive' <= GlobalLimit
    BY ConstantFacts DEF LedgerInv, CountersWithinLimits, GiveCapacity
  <2>2. \A n \in Rooms : roomActive'[n] <= PerRoomLimit
    BY ConstantFacts DEF LedgerInv, CountersWithinLimits, GiveCapacity
  <2>3. ASSUME NEW q \in Providers PROVE providerActive'[q] <= ProviderLimit[q]
    <3>1. providerActive[q] \in Int /\ ProviderLimit[q] \in Int
      BY ConstantFacts
    <3>2. providerActive'[q] = IF q = p THEN providerActive[q] - 1 ELSE providerActive[q]
      BY DEF GiveCapacity
    <3> QED
      BY <3>1, <3>2 DEF LedgerInv, CountersWithinLimits
  <2> QED
    BY <2>1, <2>2, <2>3 DEF CountersWithinLimits
<1>11. Placed'
  BY <1>1 DEF LedgerInv, Placed, Leased
<1> QED
  BY <1>9, <1>10, <1>11 DEF LedgerInv

\* Every step keeps the ledger.
LEMMA LedgerStep ==
    ASSUME TypeOK, LedgerInv, [Next]_vars
    PROVE  LedgerInv'
<1> USE DEF TypeOK
<1>0. ASSUME UNCHANGED <<run, capacityVars>> PROVE LedgerInv'
  BY <1>0, LeasesKept DEF SameLeases
<1>m. ASSUME NEW r \in Runs, NEW pc \in CanonicalPc, run[r].pc \in CanonicalPc,
             MoveTo(r, pc), UNCHANGED capacityVars
      PROVE  LedgerInv'
  BY <1>m, LeasesKept DEF SameLeases, MoveTo
<1>1. ASSUME NEW r \in Runs, NEW a \in Agents, NEW p \in Providers,
             NEW w \in Works \cup {NoWork}, Reserve(r, a, p, w)
      PROVE  LedgerInv'
  <2> DEFINE live == [pc |-> "reserved", room |-> Canonical,
                      agent |-> a, provider |-> p, work |-> w]
  <2>1. live \in LiveRun /\ live.room = Canonical /\ live.provider = p /\ live.pc = "reserved"
    OBVIOUS
  <2>2. run' = [run EXCEPT ![r] = live] /\ run[r] = IdleRun
        /\ CapacityAvailable(Canonical, p) /\ TakeCapacity(Canonical, p)
    BY <1>1 DEF Reserve
  <2> HIDE DEF live
  <2> QED
    BY <2>1, <2>2, LeaseTaken
<1>2. ASSUME NEW r \in Runs, Activate(r) PROVE LedgerInv'
  BY <1>2, <1>m DEF Activate
<1>3. ASSUME NEW r \in Runs, LifecycleStart(r) PROVE LedgerInv'
  BY <1>3, <1>m DEF LifecycleStart
<1>4. ASSUME NEW r \in Runs, Spawn(r) PROVE LedgerInv'
  BY <1>4, <1>m DEF Spawn
<1>5. ASSUME NEW r \in Runs, Settle(r) PROVE LedgerInv'
  BY <1>5, <1>m DEF Settle
<1>6. ASSUME NEW r \in Runs, Release(r) PROVE LedgerInv'
  <2>1. r \in Leased /\ run[r].room = Canonical /\ run[r].provider \in Providers
    BY <1>6 DEF Release, Leased, LedgerInv, Placed
  <2> QED
    BY <1>6, <2>1, LeaseGiven DEF Release
<1>7. ASSUME NEW r \in Runs, GenerationTimeout(r) PROVE LedgerInv'
  BY <1>7, <1>0 DEF GenerationTimeout
<1>8. ASSUME NEW r \in Runs, NEW m \in OtherRooms, NEW a \in Agents,
             NEW p \in Providers, RegistryReserve(r, m, a, p)
      PROVE  LedgerInv'
  <2> DEFINE live == [pc |-> "leased", room |-> m, agent |-> a,
                      provider |-> p, work |-> NoWork]
  <2>1. live \in LiveRun /\ live.room = m /\ live.provider = p /\ live.pc = "leased"
        /\ m # Canonical
    BY ConstantFacts
  <2>2. run' = [run EXCEPT ![r] = live] /\ run[r] = IdleRun
        /\ CapacityAvailable(m, p) /\ TakeCapacity(m, p)
    BY <1>8 DEF RegistryReserve
  <2> HIDE DEF live
  <2> QED
    BY <2>1, <2>2, LeaseTaken
<1>9. ASSUME NEW r \in Runs, RegistryRelease(r) PROVE LedgerInv'
  <2>1. r \in Leased /\ run[r].room \in Rooms /\ run[r].provider \in Providers
    BY <1>9 DEF RegistryRelease, Leased
  <2> QED
    BY <1>9, <2>1, LeaseGiven DEF RegistryRelease
<1>10. ASSUME NEW w \in Works, ProtectedStep(w) PROVE LedgerInv'
  BY <1>10, <1>0 DEF ProtectedStep, Claim, RecordWork, DispatchWork, WorkStopped,
     AdmissionFails, WorkAvailable, WorkStep
<1>11. ASSUME NEW S \in SUBSET EditedAgents, EditRoster(S) PROVE LedgerInv'
  BY <1>11, <1>0 DEF EditRoster
<1>12. ASSUME ClearAgents PROVE LedgerInv'
  BY <1>12, <1>0 DEF ClearAgents
<1>13. ASSUME Restart PROVE LedgerInv'
  <2>1. Leased' = {}
    BY <1>13 DEF Restart, Leased
  <2>2. (\A m \in Rooms : LeasedIn(m)' = {}) /\ (\A p \in Providers : LeasedBy(p)' = {})
    BY <2>1 DEF LeasedIn, LeasedBy
  <2>3. CapacityLedger'
    BY <1>13, <2>1, <2>2, FS_EmptySet DEF Restart, CapacityLedger
  <2>4. CountersWithinLimits'
    BY <1>13, ConstantFacts DEF Restart, CountersWithinLimits
  <2>5. Placed'
    BY <2>1 DEF Placed
  <2> QED
    BY <2>3, <2>4, <2>5 DEF LedgerInv
<1>14. CASE UNCHANGED vars
  BY <1>14, <1>0 DEF vars
<1> QED
  BY <1>1, <1>2, <1>3, <1>4, <1>5, <1>6, <1>7, <1>8, <1>9, <1>10, <1>11, <1>12,
     <1>13, <1>14 DEF Next, RunStep

\* Initially the ledger is exact.
LEMMA LedgerInit == Init => LedgerInv
<1> SUFFICES ASSUME Init PROVE LedgerInv
  OBVIOUS
<1>1. Leased = {}
  BY DEF Init, Leased
<1>2. (\A m \in Rooms : LeasedIn(m) = {}) /\ (\A p \in Providers : LeasedBy(p) = {})
  BY <1>1 DEF LeasedIn, LeasedBy
<1>3. CapacityLedger
  BY <1>1, <1>2, FS_EmptySet DEF Init, CapacityLedger
<1>4. CountersWithinLimits
  BY ConstantFacts DEF Init, CountersWithinLimits
<1> QED
  BY <1>1, <1>3, <1>4 DEF LedgerInv, Placed

\* The ledger is always exact.
LEMMA LedgerAlways == Spec => []LedgerInv
<1>1. TypeOK /\ TypeOK' /\ LedgerInv /\ [Next]_vars => LedgerInv'
  BY LedgerStep
<1> QED
  BY <1>1, LedgerInit, TypeCorrect, PTL DEF Spec

(* Every counter of RoomGenerationCapacity is the number of leases out.    *)
THEOREM CapacityLedgerCorrect == Spec => []CapacityLedger
<1>1. LedgerInv => CapacityLedger
  BY DEF LedgerInv
<1> QED
  BY <1>1, LedgerAlways, PTL

(* Whatever the tracker forgets, the processes alive stay within the room, *)
(* global and provider limits: each of them still holds its lease.         *)
THEOREM ProcessLimits == Spec => []ProcessesWithinLimits
<1>1. ASSUME TypeOK, LedgerInv PROVE ProcessesWithinLimits
  <2> USE DEF TypeOK
  <2>1. Processes \subseteq LeasedIn(Canonical) /\ LeasedIn(Canonical) \subseteq Leased
    BY <1>1 DEF LedgerInv, Placed, Processes, Leased, LeasedIn
  <2>2. \A p \in Providers : {r \in Processes : run[r].provider = p} \subseteq LeasedBy(p)
    BY <1>1 DEF LedgerInv, Placed, Processes, Leased, LeasedBy
  <2>3. IsFiniteSet(Leased) /\ IsFiniteSet(LeasedIn(Canonical))
        /\ \A p \in Providers : IsFiniteSet(LeasedBy(p))
    BY ConstantFacts, FS_Subset DEF Leased, LeasedIn, LeasedBy
  <2>4. Cardinality(Processes) <= Cardinality(LeasedIn(Canonical))
        /\ Cardinality(LeasedIn(Canonical)) <= Cardinality(Leased)
        /\ Cardinality(Processes) \in Nat /\ Cardinality(LeasedIn(Canonical)) \in Nat
        /\ Cardinality(Leased) \in Nat
    BY <2>1, <2>3, FS_Subset, FS_CardinalityType
  <2>5. ASSUME NEW p \in Providers
        PROVE  Cardinality({r \in Processes : run[r].provider = p}) <= ProviderLimit[p]
    <3>1. Cardinality({r \in Processes : run[r].provider = p}) <= Cardinality(LeasedBy(p))
      BY <2>2, <2>3, FS_Subset
    <3>2. Cardinality(LeasedBy(p)) <= ProviderLimit[p]
      BY <1>1 DEF LedgerInv, CapacityLedger, CountersWithinLimits
    <3>3. Cardinality({r \in Processes : run[r].provider = p}) \in Nat
          /\ Cardinality(LeasedBy(p)) \in Nat /\ ProviderLimit[p] \in Nat
      BY <2>2, <2>3, FS_Subset, FS_CardinalityType, ConstantFacts
    <3> QED
      BY <3>1, <3>2, <3>3
  <2>6. Cardinality(Processes) <= PerRoomLimit /\ Cardinality(Processes) <= GlobalLimit
    BY <1>1, <2>4, ConstantFacts DEF LedgerInv, CapacityLedger, CountersWithinLimits
  <2> QED
    BY <2>5, <2>6 DEF ProcessesWithinLimits
<1> QED
  BY <1>1, TypeCorrect, LedgerAlways, PTL

-----------------------------------------------------------------------------
(* Protected work that is not over keeps its participant, also when the    *)
(* process restarts and initialize rebuilds the reservations.              *)
LEMMA WorkStepKeeps ==
    ASSUME TypeOK, WorkKeepsReservation, [Next]_vars
    PROVE  WorkKeepsReservation'
<1> USE ConstantFacts DEF TypeOK, WorkKeepsReservation
<1>1. ASSUME UNCHANGED protectVars PROVE WorkKeepsReservation'
  BY <1>1 DEF protectVars
<1>2. ASSUME NEW r \in Runs, RunStep(r) PROVE WorkKeepsReservation'
  BY <1>2, <1>1 DEF RunStep, Reserve, Activate, LifecycleStart, Spawn, Settle, Release,
     GenerationTimeout, RegistryReserve, RegistryRelease
<1>3. ASSUME NEW w \in Works, NEW a \in Agents, Claim(w, a) PROVE WorkKeepsReservation'
  BY <1>3 DEF Claim
<1>4. ASSUME NEW w \in Works, RecordWork(w) \/ DispatchWork(w) \/ WorkStopped(w)
      PROVE  WorkKeepsReservation'
  BY <1>4 DEF RecordWork, DispatchWork, WorkStopped, WorkStep
<1>5. ASSUME NEW w \in Works, AdmissionFails(w) PROVE WorkKeepsReservation'
  BY <1>5 DEF AdmissionFails, ReleaseOwner
<1>6. ASSUME NEW w \in Works, WorkAvailable(w) PROVE WorkKeepsReservation'
  BY <1>6 DEF WorkAvailable, WorkStep, ReleaseOwner
<1>7. ASSUME Restart PROVE WorkKeepsReservation'
  <2> SUFFICES ASSUME NEW w \in Works,
                      work'[w].phase \in {"claimed", "queued", "executing", "catching-up"}
               PROVE  owners'[work'[w].owner] = w
    OBVIOUS
  <2>1. work'[w] = work[w] /\ work[w].phase \in {"queued", "executing", "catching-up"}
    BY <1>7 DEF Restart
  <2>2. work[w].owner \in Agents /\ w \in HeldBy(work[w].owner)
    BY <2>1 DEF HeldBy
  <2>3. \A v \in HeldBy(work[w].owner) : v = w
    BY <2>1 DEF HeldBy
  <2> QED
    BY <1>7, <2>1, <2>2, <2>3 DEF Restart
<1>8. ASSUME (\E S \in SUBSET EditedAgents : EditRoster(S)) \/ ClearAgents PROVE WorkKeepsReservation'
  BY <1>8, <1>1 DEF EditRoster, ClearAgents
<1>9. CASE UNCHANGED vars
  BY <1>9, <1>1 DEF vars
<1> QED
  BY <1>2, <1>3, <1>4, <1>5, <1>6, <1>7, <1>8, <1>9 DEF Next, ProtectedStep

\* Protected work keeps its participant, whatever the bounds: reservations outlive restarts.
THEOREM WorkReservation == Spec => []WorkKeepsReservation
<1>1. Init => WorkKeepsReservation
  BY DEF Init, WorkKeepsReservation
<1>2. TypeOK /\ WorkKeepsReservation /\ [Next]_vars => WorkKeepsReservation'
  BY WorkStepKeeps
<1> QED
  BY <1>1, <1>2, TypeCorrect, PTL DEF Spec

(* What the tracker knows is alive: no typing indicator without a run, no  *)
(* reservation beyond its run.                                             *)
THEOREM NoPhantom == Spec => []NoPhantomGeneration
<1>1. Init => NoPhantomGeneration
  BY DEF Init, NoPhantomGeneration
<1>2. TypeOK /\ NoPhantomGeneration /\ [Next]_vars => NoPhantomGeneration'
  <2> SUFFICES ASSUME TypeOK, NoPhantomGeneration, [Next]_vars PROVE NoPhantomGeneration'
    OBVIOUS
  <2> USE DEF TypeOK, NoPhantomGeneration, MoveTo, trackerVars
  <2>1. ASSUME NEW r \in Runs, NEW a \in Agents, NEW p \in Providers,
               NEW w \in Works \cup {NoWork}, Reserve(r, a, p, w)
        PROVE  NoPhantomGeneration'
    BY <2>1 DEF Reserve
  <2>2. ASSUME NEW r \in Runs, Activate(r) PROVE NoPhantomGeneration'
    BY <2>2 DEF Activate
  <2>3. ASSUME NEW r \in Runs, LifecycleStart(r) PROVE NoPhantomGeneration'
    BY <2>3 DEF LifecycleStart
  <2>4. ASSUME NEW r \in Runs, Spawn(r) PROVE NoPhantomGeneration'
    BY <2>4 DEF Spawn
  <2>5. ASSUME NEW r \in Runs, Settle(r) PROVE NoPhantomGeneration'
    BY <2>5 DEF Settle
  <2>6. ASSUME NEW r \in Runs, Release(r) PROVE NoPhantomGeneration'
    BY <2>6 DEF Release
  <2>7. ASSUME NEW r \in Runs, GenerationTimeout(r) PROVE NoPhantomGeneration'
    BY <2>7 DEF GenerationTimeout
  <2>8. ASSUME NEW r \in Runs, RegistryRelease(r) PROVE NoPhantomGeneration'
    BY <2>8 DEF RegistryRelease
  <2>9. ASSUME NEW r \in Runs, NEW m \in OtherRooms, NEW a \in Agents,
               NEW p \in Providers, RegistryReserve(r, m, a, p)
        PROVE  NoPhantomGeneration'
    BY <2>9 DEF RegistryReserve
  <2>10. ASSUME NEW w \in Works, ProtectedStep(w) PROVE NoPhantomGeneration'
    BY <2>10 DEF ProtectedStep, Claim, RecordWork, DispatchWork, WorkStopped,
       AdmissionFails, WorkAvailable, WorkStep
  <2>11. ASSUME NEW S \in SUBSET EditedAgents, EditRoster(S) PROVE NoPhantomGeneration'
    BY <2>11 DEF EditRoster
  <2>12. ASSUME ClearAgents PROVE NoPhantomGeneration'
    BY <2>12 DEF ClearAgents
  <2>13. ASSUME Restart PROVE NoPhantomGeneration'
    BY <2>13 DEF Restart
  <2>14. CASE UNCHANGED vars
    BY <2>14 DEF vars
  <2> QED
    BY <2>1, <2>2, <2>3, <2>4, <2>5, <2>6, <2>7, <2>8, <2>9, <2>10, <2>11, <2>12,
       <2>13, <2>14 DEF Next, RunStep
<1> QED
  BY <1>1, <1>2, TypeCorrect, PTL DEF Spec

-----------------------------------------------------------------------------
(* The tracker knows every run of a steady participant that has or may get *)
(* a process; of whom it knows, it knows one run only, and no foreground    *)
(* run of a participant that protected work holds.                         *)
SteadyRun(r) == run[r].agent \in Steady
Held == {"claimed", "queued", "executing", "catching-up"}
TrackInv ==
    /\ clearing.agents \cap Steady = {}
    /\ \A r \in Runs : SteadyRun(r) /\ run[r].pc \in {"activated", "started", "running"}
                       => r \in generations
    /\ \A r \in Runs : SteadyRun(r) /\ run[r].pc = "reserved" => r \in reservations
    /\ \A r, s \in Tracked : SteadyRun(r) /\ r # s => run[r].agent # run[s].agent
    /\ \A r \in Tracked, w \in Works :
         (SteadyRun(r) /\ run[r].work = NoWork /\ work[w].phase \in Held)
           => run[r].agent # work[w].owner
SafeTypes == TypeOK /\ NoPhantomGeneration /\ WorkKeepsReservation

\* Every step keeps the live runs of steady participants tracked.
LEMMA TrackStep ==
    ASSUME SafeTypes, TrackInv, [Next]_vars
    PROVE  TrackInv'
<1> USE DEF SafeTypes, TypeOK, Tracked, Held, NoPhantomGeneration, SteadyRun
<1>1. ASSUME NEW r \in Runs, NEW a \in Agents, NEW p \in Providers,
             NEW w \in Works \cup {NoWork}, Reserve(r, a, p, w)
      PROVE  TrackInv'
  <2> USE <1>1 DEF Reserve, HasAgent, TrackInv
  <2>0. r \notin Tracked /\ Tracked' = Tracked \cup {r}
    OBVIOUS
  <2>1. run'[r].agent = a /\ run'[r].work = w /\ run'[r].pc = "reserved"
        /\ \A s \in Runs \ {r} : run'[s] = run[s]
    OBVIOUS
  <2>2. \A s, t \in Tracked' : SteadyRun(s)' /\ s # t => run'[s].agent # run'[t].agent
    BY <2>0, <2>1
  <2>3. ASSUME NEW s \in Tracked', NEW v \in Works, SteadyRun(s)',
               run'[s].work = NoWork, work'[v].phase \in Held
        PROVE  run'[s].agent # work'[v].owner
    <3>1. CASE s = r
      BY <3>1, <2>3, <2>1, ConstantFacts DEF Allows, WorkKeepsReservation, protectVars
    <3>2. CASE s # r
      BY <3>2, <2>3, <2>0, <2>1 DEF protectVars
    <3> QED
      BY <3>1, <3>2
  <2>4. \A s \in Runs : SteadyRun(s)' /\ run'[s].pc = "reserved" => s \in reservations'
    BY <2>1
  <2>5. \A s \in Runs : SteadyRun(s)' /\ run'[s].pc \in {"activated", "started", "running"}
                         => s \in generations'
    BY <2>1
  <2>6. clearing'.agents \cap Steady = {}
    OBVIOUS
  <2> QED
    BY <2>2, <2>3, <2>4, <2>5, <2>6
<1>m. ASSUME NEW r \in Runs, NEW pc \in CanonicalPc, run[r].pc \in CanonicalPc,
             MoveTo(r, pc), UNCHANGED protectVars, clearing'.agents = clearing.agents,
             Tracked' \subseteq Runs,
             \A s \in Tracked' : SteadyRun(s) => s \in Tracked,
             \A s \in Runs \ {r} : (s \in generations' <=> s \in generations)
                                  /\ (s \in reservations' <=> s \in reservations),
             SteadyRun(r) /\ pc \in {"activated", "started", "running"} => r \in generations',
             pc # "reserved"
      PROVE  TrackInv'
  <2>1. \A s \in Runs : run'[s].agent = run[s].agent /\ run'[s].work = run[s].work
    BY <1>m DEF MoveTo
  <2>2. run'[r].pc = pc /\ \A s \in Runs \ {r} : run'[s] = run[s]
    BY <1>m DEF MoveTo
  <2>3. \A s, t \in Tracked' : SteadyRun(s)' /\ s # t => run'[s].agent # run'[t].agent
    BY <1>m, <2>1 DEF TrackInv
  <2>4. \A s \in Tracked', w \in Works :
          (SteadyRun(s)' /\ run'[s].work = NoWork /\ work'[w].phase \in Held)
            => run'[s].agent # work'[w].owner
    BY <1>m, <2>1 DEF TrackInv, protectVars
  <2>5. \A s \in Runs : SteadyRun(s)' /\ run'[s].pc = "reserved" => s \in reservations'
    BY <1>m, <2>2 DEF TrackInv
  <2>6. \A s \in Runs : SteadyRun(s)' /\ run'[s].pc \in {"activated", "started", "running"}
                         => s \in generations'
    BY <1>m, <2>1, <2>2 DEF TrackInv
  <2> QED
    BY <1>m, <2>3, <2>4, <2>5, <2>6 DEF TrackInv
<1>2. ASSUME NEW r \in Runs, Activate(r) PROVE TrackInv'
  <2>1. CASE r \in reservations
    BY <1>2, <2>1, <1>m DEF Activate, TrackInv
  <2>2. CASE r \notin reservations
    BY <1>2, <2>2, <1>m DEF Activate, TrackInv, trackerVars
  <2> QED
    BY <2>1, <2>2
<1>3. ASSUME NEW r \in Runs, LifecycleStart(r) PROVE TrackInv'
  BY <1>3, <1>m DEF LifecycleStart, TrackInv
<1>4. ASSUME NEW r \in Runs, Spawn(r) PROVE TrackInv'
  BY <1>4, <1>m DEF Spawn, TrackInv, trackerVars
<1>5. ASSUME NEW r \in Runs, Settle(r) PROVE TrackInv'
  <2>1. clearing'.agents = clearing.agents
    BY <1>5 DEF Settle
  <2> QED
    BY <1>5, <2>1, <1>m DEF Settle, TrackInv
<1>6. ASSUME NEW r \in Runs, Release(r) \/ RegistryRelease(r) PROVE TrackInv'
  BY <1>6 DEF Release, RegistryRelease, TrackInv, trackerVars, protectVars
<1>7. ASSUME NEW r \in Runs, GenerationTimeout(r) PROVE TrackInv'
  BY <1>7 DEF GenerationTimeout, TrackInv, Steady, protectVars
<1>8. ASSUME NEW r \in Runs, NEW m \in OtherRooms, NEW a \in Agents,
             NEW p \in Providers, RegistryReserve(r, m, a, p)
      PROVE  TrackInv'
  BY <1>8 DEF RegistryReserve, TrackInv, trackerVars, protectVars
<1>9. ASSUME NEW w \in Works, NEW a \in Agents, Claim(w, a) PROVE TrackInv'
  BY <1>9 DEF Claim, HasAgent, TrackInv, trackerVars
<1>10. ASSUME NEW w \in Works, RecordWork(w) \/ DispatchWork(w) \/ WorkStopped(w) PROVE TrackInv'
  BY <1>10 DEF RecordWork, DispatchWork, WorkStopped, WorkStep, TrackInv, trackerVars
<1>11. ASSUME NEW w \in Works, AdmissionFails(w) \/ WorkAvailable(w) PROVE TrackInv'
  BY <1>11 DEF AdmissionFails, WorkAvailable, WorkStep, TrackInv, trackerVars
<1>12. ASSUME NEW S \in SUBSET EditedAgents, EditRoster(S) PROVE TrackInv'
  BY <1>12 DEF EditRoster, TrackInv, Steady, trackerVars, protectVars
<1>13. ASSUME ClearAgents PROVE TrackInv'
  <2>1. clearing'.agents = {} /\ UNCHANGED <<run, protectVars>>
    BY <1>13 DEF ClearAgents, NoEdit
  <2>2. generations' = {r \in generations : run[r].agent \notin clearing.agents}
        /\ reservations' = {r \in reservations : run[r].agent \notin clearing.agents}
    BY <1>13 DEF ClearAgents
  <2>3. \A r \in Runs : SteadyRun(r) => run[r].agent \notin clearing.agents
    BY DEF TrackInv
  <2> QED
    BY <2>1, <2>2, <2>3 DEF TrackInv, protectVars
<1>14. ASSUME Restart PROVE TrackInv'
  BY <1>14 DEF Restart, TrackInv, NoEdit, IdleRun
<1>15. CASE UNCHANGED vars
  BY <1>15 DEF vars, trackerVars, protectVars, TrackInv
<1> QED
  BY <1>1, <1>2, <1>3, <1>4, <1>5, <1>6, <1>7, <1>8, <1>9, <1>10, <1>11, <1>12,
     <1>13, <1>14, <1>15 DEF Next, RunStep, ProtectedStep

\* The live runs of steady participants are always tracked.
LEMMA TrackAlways == Spec => [](SafeTypes /\ TrackInv)
<1>1. Init => TrackInv
  BY DEF Init, TrackInv, Tracked, NoEdit, IdleRun
<1>2. SafeTypes /\ SafeTypes' /\ TrackInv /\ [Next]_vars => TrackInv'
  BY TrackStep
<1>3. Spec => []SafeTypes
  BY TypeCorrect, NoPhantom, WorkReservation, PTL DEF SafeTypes
<1> QED
  BY <1>1, <1>2, <1>3, PTL DEF Spec

(* A participant never has two processes at once, and protected work never *)
(* executes beside a foreground process of its participant, unless the     *)
(* timer or a roster edit made the tracker forget a run of that very       *)
(* participant.                                                            *)
THEOREM ProcessExclusion == Spec => []ExclusiveExecution
<1>1. SafeTypes /\ TrackInv => ExclusiveExecution
  BY DEF SafeTypes, TypeOK, TrackInv, Tracked, Held, ExclusiveExecution, OneProcessPerAgent,
     ForegroundEndsFirstTracked, Beside, Executing, SteadyRun
<1> QED
  BY <1>1, TrackAlways, PTL
=============================================================================
