---------------------- MODULE ConversationRun_proofs ------------------------
(***************************************************************************)
(* Proofs about the two engines and about ConversationRun, which runs one  *)
(* of them, for any candidates, any policy whose participant limit does    *)
(* not exceed its ceilings, and any concurrency.                           *)
(*                                                                         *)
(* EnergyConversation: the inductive invariant says what the turns in      *)
(* flight may still add to the budget: concurrent openings send one        *)
(* message each and are no more than the ceiling, every other turn runs    *)
(* alone under what is left.                                               *)
(*                                                                         *)
(* DirectedConversation: the turns in flight and in the queue are pairwise *)
(* of different agents and are paid for by the turns asked for and the     *)
(* follow-ups spent; a mention that waits has a turn to wait for.          *)
(***************************************************************************)
EXTENDS ConversationRun, SequenceTheorems, FiniteSetTheorems, WellFoundedInduction, TLAPS

USE DEF Candidates

-----------------------------------------------------------------------------
(* Ceilings *)

\* The most openings the draws may admit.
Most == Smaller(Larger(1, ParticipantLimit), Len(Candidates))

\* The ceilings are positive, and the openings fit into them.
LEMMA Ceilings ==
    ASSUME opt \in Options
    PROVE  /\ MessageCeiling \in Nat /\ TurnCeiling \in Nat
           /\ MessageCeiling >= 1 /\ TurnCeiling >= 1
           /\ opt.inviteAll => Len(Candidates) <= MessageCeiling /\ Len(Candidates) <= TurnCeiling
           /\ Candidates # << >> => Most <= MessageCeiling /\ Most <= TurnCeiling
           /\ Len(Candidates) \in Nat
  <1>1. /\ opt \in OptionRecord /\ opt.participants >= 1
        /\ opt.participants <= opt.messages /\ opt.participants <= opt.turns
    BY EnergyAssumption
  <1>2. /\ opt.participants \in Nat /\ opt.messages \in Nat /\ opt.turns \in Nat
        /\ opt.all \in BOOLEAN /\ opt.inviteAll \in BOOLEAN
    BY <1>1 DEF OptionRecord
  <1>3. Len(Candidates) \in Nat /\ (Candidates # << >> => Len(Candidates) >= 1)
    BY <1>1 DEF OptionRecord
  <1>4. ConvergenceReserve \in Nat /\ ParticipantLimit \in Nat
    BY <1>2, <1>3 DEF ConvergenceReserve, ParticipantLimit, Smaller, Larger, MaxObjectionTurns
  <1>5. \A c \in Nat : /\ Scaled(c) \in Nat /\ Scaled(c) >= c
                       /\ opt.inviteAll \/ opt.all => Scaled(c) >= Len(Candidates)
    BY <1>3, <1>4 DEF Scaled, Larger
  <1>6. /\ MessageCeiling \in Nat /\ MessageCeiling >= opt.messages
        /\ TurnCeiling \in Nat /\ TurnCeiling >= opt.turns
        /\ opt.inviteAll \/ opt.all =>
              Len(Candidates) <= MessageCeiling /\ Len(Candidates) <= TurnCeiling
    BY <1>2, <1>5 DEF MessageCeiling, TurnCeiling
  <1>7. MessageCeiling >= 1 /\ TurnCeiling >= 1
    BY <1>1, <1>2, <1>6
  <1>8. Most <= Len(Candidates) /\ (~opt.all => Most <= opt.participants)
    BY <1>1, <1>2, <1>3 DEF Most, ParticipantLimit, Smaller, Larger
  <1>9. Most \in Nat
    BY <1>3, <1>4 DEF Most, Smaller, Larger
  <1>10. Most <= MessageCeiling /\ Most <= TurnCeiling
    BY <1>1, <1>2, <1>3, <1>6, <1>8, <1>9
  <1> QED BY <1>3, <1>6, <1>7, <1>10

-----------------------------------------------------------------------------
(* The invariant *)

InFlight == Cardinality(running)
Single   == ~(concurrent /\ openingLimit = 1)

Typed ==
    /\ opt \in Options /\ visible \in Nat /\ responseTurns \in Nat
    /\ concurrent \in BOOLEAN /\ batch \in Seq(Agents) /\ openingLimit \in Nat
    /\ IsFiniteSet(running) /\ \A t \in running : t.limit \in Nat /\ t.limit >= 1

\* What the turns in flight may still add to the budget.
Budget ==
    /\ visible <= MessageCeiling
    /\ ~Single => /\ \A t \in running : t.limit <= 1
                  /\ visible + InFlight + Len(batch) <= MessageCeiling
    /\ Single => /\ InFlight <= 1
                 /\ \A t \in running : t.limit <= MessageCeiling - visible
    /\ concurrent /\ Single => /\ InFlight + Len(batch) <= 1
                               /\ batch # << >> => visible = 0
    /\ concurrent => responseTurns + InFlight + Len(batch) <= TurnCeiling
    /\ ~concurrent => responseTurns + InFlight <= TurnCeiling
    /\ responseTurns = 0 => visible = 0 /\ ~settled

\* How the openings use up the candidates.
Openings ==
    /\ phase = "start" => running = {} /\ ~concurrent /\ responseTurns = 0
    /\ phase \in {"start", "opening"} =>
          remaining \in Seq(Agents) /\ Len(remaining) <= Len(Candidates)
    /\ opt.inviteAll /\ phase \in {"start", "opening"} =>
          IF concurrent THEN Len(remaining) = 0
          ELSE responseTurns + InFlight + Len(remaining) <= TurnCeiling
    /\ concurrent => phase = "opening" /\ openingLimit >= 1 /\ Candidates # << >>

BudgetInv == Typed /\ Budget /\ Openings /\ RunDrains

\* Initially the budget is untouched.
LEMMA InvInit == Init => BudgetInv
  <1> SUFFICES ASSUME Init PROVE BudgetInv
    OBVIOUS
  <1>1. opt \in Options
    BY DEF Init
  <1>2. MessageCeiling \in Nat /\ TurnCeiling \in Nat
        /\ (opt.inviteAll => Len(Candidates) <= TurnCeiling) /\ Len(Candidates) \in Nat
    BY <1>1, Ceilings
  <1>3. IsFiniteSet(running) /\ InFlight = 0
    BY FS_EmptySet DEF Init, InFlight
  <1>4. batch \in Seq(Agents) /\ Len(batch) = 0 /\ remaining \in Seq(Agents)
    BY EnergyAssumption DEF Init, OptionRecord
  <1>5. Typed
    BY <1>1, <1>3, <1>4 DEF Init, Typed
  <1>6. Budget
    BY <1>2, <1>3, <1>4 DEF Init, Budget, Single
  <1>7. Openings
    BY <1>2, <1>3, <1>4 DEF Init, Openings
  <1> QED BY <1>5, <1>6, <1>7 DEF BudgetInv, RunDrains, Init

\* The ceilings depend on the options alone.
LEMMA CeilingsFixed ==
    ASSUME opt' = opt
    PROVE  MessageCeiling' = MessageCeiling /\ TurnCeiling' = TurnCeiling
  BY DEF MessageCeiling, TurnCeiling, Scaled, ConvergenceReserve, ParticipantLimit

\* A step that only ends the run or moves it to a phase after the openings.
LEMMA QuietStep ==
    ASSUME BudgetInv, UNCHANGED <<opt, visible, responseTurns, concurrent, batch, openingLimit,
                                  running, settled>>,
           verdict' # Going => running = {},
           \/ UNCHANGED <<phase, remaining>>
           \/ phase' \notin {"start", "opening"} /\ ~concurrent
    PROVE  BudgetInv'
  <1>1. MessageCeiling' = MessageCeiling /\ TurnCeiling' = TurnCeiling /\ InFlight' = InFlight
    BY CeilingsFixed DEF InFlight
  <1>2. Typed' /\ RunDrains'
    BY DEF BudgetInv, Typed, RunDrains
  <1>3. Budget'
    BY <1>1 DEF BudgetInv, Budget, Single
  <1>4. Openings'
    BY <1>1 DEF BudgetInv, Openings
  <1> QED BY <1>2, <1>3, <1>4 DEF BudgetInv

\* A turn that starts alone is given at most what is left.
LEMMA StartAlone ==
    ASSUME BudgetInv, Idle, visible < MessageCeiling, responseTurns < TurnCeiling,
           NEW a, NEW limit \in Nat \ {0}, NEW retry, Start(a, limit, retry),
           UNCHANGED <<frame, openVars>>
    PROVE  Typed' /\ Budget' /\ RunDrains' /\ InFlight' = 1
  <1> DEFINE t == [agent |-> a, retry |-> retry,
                   limit |-> Smaller(limit, MessageCeiling - visible)]
  <1>0. MessageCeiling \in Nat /\ TurnCeiling \in Nat
    BY Ceilings DEF BudgetInv, Typed
  <1>1. running' = {t}
    BY DEF Start, Idle
  <1>2. t.limit = Smaller(limit, MessageCeiling - visible)
    OBVIOUS
  <1>3. t.limit \in Nat /\ t.limit >= 1 /\ t.limit <= MessageCeiling - visible
    BY <1>0, <1>2 DEF BudgetInv, Typed, Smaller
  <1> HIDE DEF t
  <1>4. IsFiniteSet(running') /\ InFlight' = 1
    BY <1>1, FS_Singleton DEF InFlight
  <1>5. /\ UNCHANGED <<opt, visible, responseTurns, concurrent, batch, openingLimit, verdict, settled>>
        /\ ~concurrent /\ verdict = Going
    BY DEF frame, openVars, budgetVars, runVars, flagVars, Idle
  <1>6. MessageCeiling' = MessageCeiling /\ TurnCeiling' = TurnCeiling
    BY <1>5, CeilingsFixed
  <1>7. Typed'
    BY <1>1, <1>3, <1>4, <1>5 DEF BudgetInv, Typed
  <1>8. Budget'
    BY <1>0, <1>1, <1>3, <1>4, <1>5, <1>6 DEF BudgetInv, Typed, Budget, Single
  <1> QED BY <1>4, <1>5, <1>7, <1>8 DEF RunDrains

\* The same after the openings.
LEMMA StartLater ==
    ASSUME BudgetInv, Idle, visible < MessageCeiling, responseTurns < TurnCeiling,
           NEW a, NEW limit \in Nat \ {0}, NEW retry, Start(a, limit, retry),
           UNCHANGED <<frame, openVars>>, phase' \notin {"start", "opening"}
    PROVE  BudgetInv'
  <1>1. Typed' /\ Budget' /\ RunDrains'
    BY StartAlone
  <1>2. Openings'
    BY DEF Openings, openVars, Idle
  <1> QED BY <1>1, <1>2 DEF BudgetInv

-----------------------------------------------------------------------------
(* The end of a turn *)

\* A turn never returns more messages than it was granted.
LEMMA ReturnsBounded ==
    ASSUME NEW t, t.limit \in Nat, NEW r \in Returns(t), r.kind = "answered"
    PROVE  r.n \in Nat /\ 1 <= r.n /\ r.n <= t.limit
  <1>1. r \in [kind : {"answered"}, n : 1..t.limit, state : States, worthy : BOOLEAN,
               targets : {s \in UNION {[1..k -> opt.mentionable \ {t.agent}] : k \in 0..MaxMentions} :
                              IsInjective(s)}]
    BY DEF Returns
  <1>2. r.n \in 1..t.limit
    BY <1>1
  <1> QED BY <1>2

\* The end of a turn keeps the budget.
LEMMA CompleteStep ==
    ASSUME BudgetInv, NEW t \in running, NEW r \in Returns(t), Complete(t, r)
    PROVE  BudgetInv'
  <1>0. MessageCeiling \in Nat /\ TurnCeiling \in Nat
    BY Ceilings DEF BudgetInv, Typed
  <1>1. /\ running' = running \ {t}
        /\ UNCHANGED <<opt, verdict, phase, concurrent, batch, openingLimit, remaining>>
    BY DEF Complete, runVars, openVars, inviteVars
  <1>2. /\ IsFiniteSet(running') /\ InFlight' = InFlight - 1
        /\ InFlight \in Nat /\ InFlight' \in Nat
    BY <1>1, FS_RemoveElement, FS_CardinalityType DEF BudgetInv, Typed, InFlight
  <1>3. t.limit \in Nat
    BY DEF BudgetInv, Typed
  <1>4. MessageCeiling' = MessageCeiling /\ TurnCeiling' = TurnCeiling
    BY <1>1, CeilingsFixed
  <1>5. Len(batch) \in Nat /\ (phase \in {"start", "opening"} => Len(remaining) \in Nat)
    BY DEF BudgetInv, Typed, Openings
  <1>6. RunDrains'
    BY <1>1 DEF BudgetInv, RunDrains
  <1>7. Single => running' = {}
    <2> SUFFICES ASSUME Single PROVE running' = {}
      OBVIOUS
    <2>1. InFlight' = 0
      BY <1>2 DEF BudgetInv, Budget
    <2> QED BY <1>2, <2>1, FS_EmptySet DEF InFlight
  <1>8. CASE r.kind = "answered"
    <2>1. /\ visible' = visible + r.n /\ responseTurns' = responseTurns + 1
          /\ r.n \in Nat /\ 1 <= r.n /\ r.n <= t.limit
      BY <1>3, <1>8, ReturnsBounded DEF Complete, Answered
    <2>2. Typed'
      BY <1>1, <1>2, <2>1 DEF BudgetInv, Typed
    <2>3. Budget'
      <3>1. CASE Single
        <4>1. t.limit <= MessageCeiling - visible
          BY <3>1 DEF BudgetInv, Budget
        <4> QED BY <1>0, <1>1, <1>2, <1>3, <1>4, <1>5, <1>7, <2>1, <3>1, <4>1
                DEF BudgetInv, Typed, Budget, Single
      <3>2. CASE ~Single
        <4>1. t.limit <= 1 /\ r.n = 1
          BY <1>3, <2>1, <3>2 DEF BudgetInv, Budget
        <4>2. ~Single' /\ visible' + InFlight' + Len(batch)' <= MessageCeiling'
          BY <1>1, <1>2, <1>4, <1>5, <2>1, <3>2, <4>1 DEF BudgetInv, Typed, Budget, Single
        <4>3. \A u \in running' : u.limit <= 1
          BY <1>1, <3>2 DEF BudgetInv, Budget
        <4>4. concurrent' /\ responseTurns' + InFlight' + Len(batch)' <= TurnCeiling'
          BY <1>1, <1>2, <1>4, <1>5, <2>1, <3>2 DEF BudgetInv, Typed, Budget, Single
        <4>5. visible' <= MessageCeiling' /\ responseTurns' # 0
          BY <1>0, <1>1, <1>2, <1>4, <1>5, <2>1, <4>2 DEF BudgetInv, Typed
        <4> QED BY <4>2, <4>3, <4>4, <4>5 DEF Budget
      <3> QED BY <3>1, <3>2
    <2>4. Openings'
      BY <1>0, <1>1, <1>2, <1>4, <1>5, <2>1 DEF BudgetInv, Typed, Openings
    <2> QED BY <1>6, <2>2, <2>3, <2>4 DEF BudgetInv
  <1>9. CASE r.kind # "answered"
    <2>1. UNCHANGED <<visible, responseTurns, settled>>
      BY <1>9 DEF Complete, Silent
    <2>2. Typed'
      BY <1>1, <1>2, <2>1 DEF BudgetInv, Typed
    <2>3. Budget'
      BY <1>0, <1>1, <1>2, <1>4, <1>5, <2>1 DEF BudgetInv, Typed, Budget, Single
    <2>4. Openings'
      BY <1>0, <1>1, <1>2, <1>4, <1>5, <2>1 DEF BudgetInv, Typed, Openings
    <2> QED BY <1>6, <2>2, <2>3, <2>4 DEF BudgetInv
  <1> QED BY <1>8, <1>9

-----------------------------------------------------------------------------
(* Openings *)

\* Concurrent openings keep the budget.
LEMMA OpenConcurrentlyStep ==
    ASSUME BudgetInv, NEW k \in 1..Len(Candidates), OpenConcurrently(k)
    PROVE  BudgetInv'
  <1>0. /\ MessageCeiling \in Nat /\ TurnCeiling \in Nat /\ Len(Candidates) \in Nat
        /\ Candidates # << >>
        /\ Most <= MessageCeiling /\ Most <= TurnCeiling
        /\ opt.inviteAll => Len(Candidates) <= MessageCeiling /\ Len(Candidates) <= TurnCeiling
    BY Ceilings DEF BudgetInv, Typed
  <1>1. /\ running = {} /\ running' = {} /\ ~concurrent /\ concurrent' /\ responseTurns = 0
        /\ phase = "start" /\ phase' = "opening" /\ visible = 0 /\ ~settled
        /\ UNCHANGED <<opt, verdict, visible, responseTurns, settled>>
        /\ remaining \in Seq(Agents) /\ Len(remaining) <= Len(Candidates)
    BY DEF OpenConcurrently, BudgetInv, Openings, Budget, Idle, frame, runVars, budgetVars,
           flagVars
  <1>2. /\ batch' = SubSeq(remaining, 1, k)
        /\ remaining' = SubSeq(remaining, k + 1, Len(remaining))
        /\ openingLimit' = IF k > 1 THEN 1 ELSE 3
        /\ opt.inviteAll => k = Len(remaining)
        /\ ~opt.inviteAll => k <= Smaller(Larger(1, ParticipantLimit), Len(remaining))
    BY DEF OpenConcurrently, OpeningLimit
  <1>3. ParticipantLimit \in Nat
    BY <1>0, EnergyAssumption DEF ParticipantLimit, BudgetInv, Typed, OptionRecord
  <1>4. k \in Nat /\ k >= 1 /\ k <= Len(remaining) /\ Len(remaining) \in Nat
    BY <1>0, <1>1, <1>2, <1>3 DEF Smaller, Larger
  <1>5. ~opt.inviteAll => k <= Most
    BY <1>0, <1>1, <1>2, <1>3, <1>4 DEF Most, Smaller, Larger
  <1>6. k <= MessageCeiling /\ k <= TurnCeiling
    <2>1. CASE opt.inviteAll
      BY <1>0, <1>1, <1>4, <2>1
    <2>2. CASE ~opt.inviteAll
      <3>1. Most \in Nat
        BY <1>0, <1>3 DEF Most, Smaller, Larger
      <3> QED BY <1>0, <1>4, <1>5, <2>2, <3>1
    <2> QED BY <2>1, <2>2
  <1>7. batch' \in Seq(Agents) /\ Len(batch') = k
    BY <1>1, <1>2, <1>4
  <1>8. /\ remaining' \in Seq(Agents) /\ Len(remaining') = Len(remaining) - k
    BY <1>1, <1>2, <1>4
  <1>9. IsFiniteSet(running') /\ InFlight' = 0
    BY <1>1, FS_EmptySet DEF InFlight
  <1>10. MessageCeiling' = MessageCeiling /\ TurnCeiling' = TurnCeiling
    BY <1>1, CeilingsFixed
  <1>11. Typed'
    BY <1>1, <1>2, <1>7, <1>9 DEF BudgetInv, Typed
  <1>12. Budget'
    BY <1>0, <1>1, <1>2, <1>4, <1>6, <1>7, <1>9, <1>10 DEF Budget, Single
  <1>13. Openings'
    BY <1>0, <1>1, <1>2, <1>4, <1>8 DEF Openings
  <1>14. RunDrains'
    BY <1>1 DEF RunDrains
  <1> QED BY <1>11, <1>12, <1>13, <1>14 DEF BudgetInv

\* An opening in turn keeps the budget.
LEMMA StartOpeningStep ==
    ASSUME BudgetInv, StartOpening
    PROVE  BudgetInv'
  <1> DEFINE t == [agent |-> Head(batch), retry |-> FALSE,
                   limit |-> Smaller(openingLimit, MessageCeiling - visible)]
  <1>0. MessageCeiling \in Nat /\ TurnCeiling \in Nat
    BY Ceilings DEF BudgetInv, Typed
  <1>1. /\ concurrent /\ concurrent' /\ batch # << >> /\ batch' = Tail(batch)
        /\ running' = running \cup {t} /\ verdict = Going
        /\ UNCHANGED <<opt, verdict, phase, visible, responseTurns, settled, openingLimit,
                       remaining>>
    BY DEF StartOpening, Start, frame, runVars, budgetVars, flagVars
  <1>2. t.limit = Smaller(openingLimit, MessageCeiling - visible)
    OBVIOUS
  <1> HIDE DEF t
  <1>3. /\ IsFiniteSet(running') /\ InFlight \in Nat
        /\ InFlight' \in Nat /\ InFlight' <= InFlight + 1
    <2>1. IsFiniteSet(running) /\ InFlight \in Nat
      BY FS_CardinalityType DEF BudgetInv, Typed, InFlight
    <2>2. /\ IsFiniteSet(running \cup {t})
          /\ Cardinality(running \cup {t}) = IF t \in running THEN InFlight ELSE InFlight + 1
      BY <2>1, FS_AddElement DEF InFlight
    <2>3. InFlight' = IF t \in running THEN InFlight ELSE InFlight + 1
      BY <1>1, <2>2 DEF InFlight
    <2> QED BY <1>1, <2>1, <2>2, <2>3
  <1>4. batch' \in Seq(Agents) /\ Len(batch) \in Nat /\ Len(batch') = Len(batch) - 1
        /\ Len(batch) >= 1
    BY <1>1 DEF BudgetInv, Typed
  <1>5. MessageCeiling' = MessageCeiling /\ TurnCeiling' = TurnCeiling
    BY <1>1, CeilingsFixed
  <1>6. CASE Single
    <2>1. InFlight = 0 /\ visible = 0 /\ Len(batch) = 1
      BY <1>1, <1>3, <1>4, <1>6 DEF BudgetInv, Budget
    <2>2. running = {} /\ running' = {t}
      BY <1>1, <2>1, FS_EmptySet DEF InFlight, BudgetInv, Typed
    <2>3. MessageCeiling >= 1 /\ openingLimit >= 1 /\ openingLimit \in Nat
      BY <1>1, Ceilings DEF BudgetInv, Typed, Openings
    <2>4. t.limit \in Nat /\ t.limit >= 1 /\ t.limit <= MessageCeiling
      BY <1>0, <1>2, <2>1, <2>3 DEF Smaller
    <2>5. Typed'
      BY <1>1, <1>3, <1>4, <2>2, <2>4 DEF BudgetInv, Typed
    <2>6. Budget'
      BY <1>0, <1>1, <1>3, <1>4, <1>5, <1>6, <2>1, <2>2, <2>4
         DEF BudgetInv, Typed, Budget, Single
    <2> QED BY <1>1, <1>3, <1>5, <2>5, <2>6 DEF BudgetInv, Openings, RunDrains
  <1>7. CASE ~Single
    <2>1. openingLimit = 1 /\ visible + InFlight + Len(batch) <= MessageCeiling
      BY <1>7 DEF BudgetInv, Budget, Single
    <2>2. t.limit = 1
      BY <1>0, <1>2, <1>3, <1>4, <2>1 DEF BudgetInv, Typed, Smaller
    <2>3. Typed'
      BY <1>1, <1>3, <1>4, <2>2 DEF BudgetInv, Typed
    <2>4. Budget'
      BY <1>0, <1>1, <1>3, <1>4, <1>5, <1>7, <2>1, <2>2 DEF BudgetInv, Typed, Budget, Single
    <2> QED BY <1>1, <1>3, <1>5, <2>3, <2>4 DEF BudgetInv, Openings, RunDrains
  <1> QED BY <1>6, <1>7

\* The end of the openings keeps the budget.
LEMMA OpeningsDoneStep ==
    ASSUME BudgetInv, OpeningsDone
    PROVE  BudgetInv'
  <1>0. MessageCeiling \in Nat /\ TurnCeiling \in Nat
    BY Ceilings DEF BudgetInv, Typed
  <1>1. /\ concurrent /\ concurrent' = FALSE /\ running = {} /\ running' = {} /\ verdict = Going
        /\ UNCHANGED <<opt, verdict, phase, visible, responseTurns, settled, openingLimit, batch,
                       remaining>>
    BY DEF OpeningsDone, frame, runVars, budgetVars, flagVars, inviteVars
  <1>2. IsFiniteSet(running') /\ InFlight' = 0 /\ InFlight = 0
    BY <1>1, FS_EmptySet DEF InFlight
  <1>3. MessageCeiling' = MessageCeiling /\ TurnCeiling' = TurnCeiling
    BY <1>1, CeilingsFixed
  <1>4. Len(batch) \in Nat
    BY DEF BudgetInv, Typed
  <1>5. responseTurns <= TurnCeiling
    BY <1>0, <1>1, <1>2, <1>4 DEF BudgetInv, Typed, Budget
  <1>6. Typed'
    BY <1>1, <1>2 DEF BudgetInv, Typed
  <1>7. Budget'
    BY <1>0, <1>1, <1>2, <1>3, <1>5 DEF BudgetInv, Typed, Budget, Single
  <1>8. Openings' /\ RunDrains'
    BY <1>0, <1>1, <1>2, <1>3, <1>5 DEF BudgetInv, Typed, Openings, RunDrains
  <1> QED BY <1>6, <1>7, <1>8 DEF BudgetInv

\* Choosing the next opening keeps the budget.
LEMMA OpenNextStep ==
    ASSUME BudgetInv, OpenNext
    PROVE  BudgetInv'
  <1> DEFINE limit == IF opt.inviteAll THEN 1 ELSE 3
  <1>0. MessageCeiling \in Nat /\ TurnCeiling \in Nat
    BY Ceilings DEF BudgetInv, Typed
  <1>1. /\ Idle /\ phase = "opening" /\ Start(Head(remaining), limit, FALSE)
        /\ remaining # << >> /\ remaining' = Tail(remaining)
        /\ UNCHANGED <<frame, openVars>> /\ UNCHANGED <<phase, opt, concurrent, responseTurns>>
        /\ IF opt.inviteAll THEN visible < MessageCeiling ELSE responseTurns = 0
    BY DEF OpenNext, MoreOpenings, NobodySpoke, frame, openVars, runVars, budgetVars
  <1>2. /\ remaining \in Seq(Agents) /\ Len(remaining) <= Len(Candidates)
        /\ remaining' \in Seq(Agents) /\ Len(remaining') = Len(remaining) - 1
        /\ Len(remaining) \in Nat /\ Len(remaining) >= 1 /\ Candidates # << >>
        /\ Len(Candidates) \in Nat
    BY <1>1, EnergyAssumption DEF BudgetInv, Openings, Typed, OptionRecord
  <1>3. InFlight = 0 /\ ~concurrent
    BY <1>1, FS_EmptySet DEF Idle, InFlight
  <1>4. visible < MessageCeiling /\ responseTurns < TurnCeiling
    <2>1. CASE opt.inviteAll
      BY <1>0, <1>1, <1>2, <1>3, <2>1 DEF BudgetInv, Typed, Openings
    <2>2. CASE ~opt.inviteAll
      <3>1. visible = 0 /\ responseTurns = 0
        BY <1>1, <2>2 DEF BudgetInv, Budget
      <3>2. MessageCeiling >= 1 /\ TurnCeiling >= 1
        BY <1>2, Ceilings DEF BudgetInv, Typed
      <3> QED BY <1>0, <3>1, <3>2
    <2> QED BY <2>1, <2>2
  <1>5. limit \in Nat \ {0}
    OBVIOUS
  <1>6. Typed' /\ Budget' /\ RunDrains' /\ InFlight' = 1
    BY <1>1, <1>4, <1>5, StartAlone
  <1>7. MessageCeiling' = MessageCeiling /\ TurnCeiling' = TurnCeiling
    BY <1>1, CeilingsFixed
  <1>8. Openings'
    BY <1>0, <1>1, <1>2, <1>3, <1>6, <1>7 DEF BudgetInv, Typed, Openings
  <1> QED BY <1>6, <1>8 DEF BudgetInv

\* Taking the floor keeps the budget.
LEMMA TakeFloorStep ==
    ASSUME BudgetInv, TakeFloor
    PROVE  BudgetInv'
  <1>1. /\ Idle /\ phase' = "conversation-floor" /\ Start(FloorCandidate, 1, FALSE)
        /\ UNCHANGED <<frame, openVars>>
        /\ responseTurns = 0
    BY DEF TakeFloor, TakesFloor, NobodySpoke
  <1>2. visible = 0
    BY <1>1 DEF BudgetInv, Budget
  <1>3. MessageCeiling \in Nat /\ TurnCeiling \in Nat /\ MessageCeiling >= 1 /\ TurnCeiling >= 1
    BY Ceilings DEF BudgetInv, Typed
  <1>4. visible < MessageCeiling /\ responseTurns < TurnCeiling
    BY <1>1, <1>2, <1>3
  <1>5. 1 \in Nat \ {0}
    OBVIOUS
  <1> HIDE DEF FloorCandidate
  <1> QED BY <1>1, <1>4, <1>5, StartLater

-----------------------------------------------------------------------------
(* After the openings *)

\* A run that is not exhausted can pay for one more turn.
LEMMA BudgetLeft ==
    ASSUME BudgetInv, ~Exhausted
    PROVE  visible < MessageCeiling /\ responseTurns < TurnCeiling
  <1>1. MessageCeiling \in Nat /\ TurnCeiling \in Nat
    BY Ceilings DEF BudgetInv, Typed
  <1> QED BY <1>1 DEF BudgetInv, Typed, Exhausted

\* A follow-up keeps the budget.
LEMMA FollowUpStep ==
    ASSUME BudgetInv, TakeMention \/ InviteFresh \/ ContinueAmbient
    PROVE  BudgetInv'
  <1>1. /\ Idle /\ ~Exhausted /\ phase' = phase /\ phase = "follow-up"
        /\ UNCHANGED <<frame, openVars>>
        /\ \E a : \E retry : Start(a, 3, retry)
    BY DEF TakeMention, InviteFresh, ContinueAmbient, NoInvitation, Looping
  <1>2. PICK a, retry : Start(a, 3, retry)
    BY <1>1
  <1>3. 3 \in Nat \ {0} /\ phase' \notin {"start", "opening"}
    BY <1>1
  <1> QED BY <1>1, <1>2, <1>3, BudgetLeft, StartLater

\* Synthesis, objections and reconciliation keep the budget.
LEMMA ConvergenceStep ==
    ASSUME BudgetInv, Synthesize \/ AskObjector \/ Reconcile
    PROVE  BudgetInv'
  <1>1. /\ Idle /\ ~Exhausted /\ phase' \in {"synthesis", "objection", "reconciliation"}
        /\ UNCHANGED <<frame, openVars>>
        /\ \E a : Start(a, 1, FALSE)
    BY DEF Synthesize, AskObjector, Reconcile, Resolvable, Asking
  <1>2. PICK a : Start(a, 1, FALSE)
    BY <1>1
  <1>3. 1 \in Nat \ {0} /\ phase' \notin {"start", "opening"}
    BY <1>1
  <1> QED BY <1>1, <1>2, <1>3, BudgetLeft, StartLater

\* The actions that end the run.
Ending ==
    \/ RunFails \/ FloorTaken \/ OpeningEnds \/ Resolve \/ SynthesisEnds
    \/ ObjectionBlocks \/ ObjectionsEnd \/ ReconciliationEnds

\* An end of the run keeps the budget.
LEMMA EndingStep ==
    ASSUME BudgetInv, Ending
    PROVE  BudgetInv'
  <1>1. running = {} /\ \E reason, isSettled : Finish(reason, isSettled)
    BY DEF Ending, RunFails, FloorTaken, OpeningEnds, Resolve, SynthesisEnds, ObjectionBlocks,
           ObjectionsEnd, ReconciliationEnds, Idle, Asking
  <1>2. UNCHANGED <<opt, visible, responseTurns, concurrent, batch, openingLimit, running,
                    settled, phase, remaining>>
    BY <1>1 DEF Finish, openVars, inviteVars, budgetVars, flagVars
  <1> QED BY <1>1, <1>2, QuietStep

\* The actions that only choose what comes next.
Choosing ==
    \/ OpeningLeadsOn \/ SkipMention \/ StopFollowing \/ StopLooping \/ AskObjections

\* A choice that starts no turn keeps the budget.
LEMMA ChoosingStep ==
    ASSUME BudgetInv, Choosing
    PROVE  BudgetInv'
  <1>1. /\ Idle /\ UNCHANGED <<frame, running, openVars, inviteVars>>
        /\ \/ UNCHANGED phase
           \/ phase' \in {"follow-up", "resolving", "objection"}
    BY DEF Choosing, OpeningLeadsOn, SkipMention, StopFollowing, StopLooping, AskObjections,
           NoInvitation, Looping
  <1>2. /\ ~concurrent /\ running = {} /\ verdict' = verdict
        /\ UNCHANGED <<opt, visible, responseTurns, concurrent, batch, openingLimit, running,
                       settled, remaining>>
    BY <1>1 DEF Idle, frame, runVars, openVars, inviteVars, budgetVars, flagVars
  <1> QED BY <1>1, <1>2, QuietStep

\* Opening one after the other keeps the budget.
LEMMA OpenInTurnStep ==
    ASSUME BudgetInv, OpenInTurn
    PROVE  BudgetInv'
  <1>1. /\ phase = "start" /\ phase' = "opening" /\ running' = running
        /\ UNCHANGED <<opt, visible, responseTurns, concurrent, batch, openingLimit, remaining,
                       settled, verdict>>
    BY DEF OpenInTurn, frame, runVars, openVars, inviteVars, budgetVars, flagVars
  <1>2. MessageCeiling' = MessageCeiling /\ TurnCeiling' = TurnCeiling /\ InFlight' = InFlight
    BY <1>1, CeilingsFixed DEF InFlight
  <1>3. Typed' /\ RunDrains'
    BY <1>1 DEF BudgetInv, Typed, RunDrains
  <1>4. Budget'
    BY <1>1, <1>2 DEF BudgetInv, Budget, Single
  <1>5. Openings'
    BY <1>1, <1>2 DEF BudgetInv, Openings
  <1> QED BY <1>3, <1>4, <1>5 DEF BudgetInv

-----------------------------------------------------------------------------
(* The theorems *)

\* Every step keeps the budget.
LEMMA InvStep ==
    ASSUME BudgetInv, [Next]_vars
    PROVE  BudgetInv'
  <1>1. CASE \E t \in running : \E r \in Returns(t) : Complete(t, r)
    BY <1>1, CompleteStep
  <1>2. CASE \E k \in 1..Len(Candidates) : OpenConcurrently(k)
    BY <1>2, OpenConcurrentlyStep
  <1>3. CASE StartOpening
    BY <1>3, StartOpeningStep
  <1>4. CASE OpeningsDone
    BY <1>4, OpeningsDoneStep
  <1>5. CASE OpenInTurn
    BY <1>5, OpenInTurnStep
  <1>6. CASE OpenNext
    BY <1>6, OpenNextStep
  <1>7. CASE TakeFloor
    BY <1>7, TakeFloorStep
  <1>8. CASE TakeMention \/ InviteFresh \/ ContinueAmbient
    BY <1>8, FollowUpStep
  <1>9. CASE Synthesize \/ AskObjector \/ Reconcile
    BY <1>9, ConvergenceStep
  <1>10. CASE Ending
    BY <1>10, EndingStep
  <1>11. CASE Choosing
    BY <1>11, ChoosingStep
  <1>12. CASE UNCHANGED vars
    BY <1>12, QuietStep DEF vars, runVars, openVars, inviteVars, budgetVars, flagVars,
       BudgetInv, RunDrains
  <1> QED BY <1>1, <1>2, <1>3, <1>4, <1>5, <1>6, <1>7, <1>8, <1>9, <1>10, <1>11, <1>12
          DEF Next, Ending, Choosing

\* The budget invariant holds for every roster, energy and set of options.
THEOREM InvAlways == Spec => []BudgetInv
  <1> QED BY InvInit, InvStep, PTL DEF Spec

\* The budget the run accounts for (visibleMessages and responseTurns of
\* runEnergyConversation) is never overdrawn.
THEOREM BudgetKept == Spec => []WithinCeilings
  <1>1. BudgetInv => WithinCeilings
    <2> SUFFICES ASSUME BudgetInv PROVE WithinCeilings
      OBVIOUS
    <2>1. MessageCeiling \in Nat /\ TurnCeiling \in Nat
      BY Ceilings DEF BudgetInv, Typed
    <2>2. InFlight \in Nat /\ Len(batch) \in Nat
      BY FS_CardinalityType DEF BudgetInv, Typed, InFlight
    <2>3. visible <= MessageCeiling
      BY DEF BudgetInv, Budget
    <2>4. responseTurns <= TurnCeiling
      BY <2>1, <2>2 DEF BudgetInv, Typed, Budget
    <2> QED BY <2>3, <2>4 DEF WithinCeilings
  <1> QED BY <1>1, InvAlways, PTL

\* record never hands performTurn an empty message allowance.
THEOREM TurnsMaySpeak == Spec => []NoMuteTurn
  <1>1. BudgetInv => NoMuteTurn
    BY DEF BudgetInv, Typed, NoMuteTurn
  <1> QED BY <1>1, InvAlways, PTL

\* runEnergyConversation returns or throws only when no turn it started runs.
THEOREM EndsDrained == Spec => []RunDrains
  <1>1. BudgetInv => RunDrains
    BY DEF BudgetInv
  <1> QED BY <1>1, InvAlways, PTL

\* The actions after which a turn runs that did not run before.
Starting ==
    \/ StartOpening \/ OpenNext \/ TakeFloor \/ TakeMention \/ InviteFresh \/ ContinueAmbient
    \/ Synthesize \/ AskObjector \/ Reconcile

\* A turn is started by the steps that start one, and no other.
LEMMA OnlyStartingStarts ==
    ASSUME [Next]_vars, ~(running' \subseteq running)
    PROVE  Starting
  <1>1. CASE \E t \in running : \E r \in Returns(t) : Complete(t, r)
    BY <1>1 DEF Complete
  <1>2. CASE \E k \in 1..Len(Candidates) : OpenConcurrently(k)
    BY <1>2 DEF OpenConcurrently
  <1>3. CASE OpeningsDone \/ OpenInTurn
    BY <1>3 DEF OpeningsDone, OpenInTurn
  <1>4. CASE Ending
    <2>1. \E reason, isSettled : Finish(reason, isSettled)
      BY <1>4 DEF Ending, RunFails, FloorTaken, OpeningEnds, Resolve, SynthesisEnds,
         ObjectionBlocks, ObjectionsEnd, ReconciliationEnds
    <2> QED BY <2>1 DEF Finish
  <1>5. CASE Choosing
    BY <1>5 DEF Choosing, OpeningLeadsOn, SkipMention, StopFollowing, StopLooping, AskObjections
  <1>6. CASE UNCHANGED vars
    BY <1>6 DEF vars
  <1> QED BY <1>1, <1>2, <1>3, <1>4, <1>5, <1>6 DEF Next, Ending, Choosing, Starting

\* runEnergyConversation starts no turn once a turn has thrown, and after a settled
\* answer or a cancelled turn only those that end the convergence.
THEOREM Stops == Spec => StopsWhenTold
  <1>1. ASSUME BudgetInv, [Next]_vars, ~(running' \subseteq running)
        PROVE  /\ ~failed
               /\ settled => phase' \in {"objection", "reconciliation"}
               /\ cancelled => phase' = "reconciliation"
    <2>1. Starting
      BY <1>1, OnlyStartingStarts
    <2>2. CASE StartOpening
      BY <2>2 DEF StartOpening
    <2>3. CASE OpenNext \/ TakeFloor
      <3>1. responseTurns = 0 => ~settled
        BY <1>1 DEF BudgetInv, Budget
      <3>2. CASE OpenNext
        BY <3>1, <3>2 DEF OpenNext, Idle, MoreOpenings, NobodySpoke
      <3>3. CASE TakeFloor
        BY <3>1, <3>3 DEF TakeFloor, Idle, TakesFloor, NobodySpoke
      <3> QED BY <2>3, <3>2, <3>3
    <2>4. CASE TakeMention \/ InviteFresh \/ ContinueAmbient
      BY <2>4 DEF TakeMention, InviteFresh, ContinueAmbient, NoInvitation, Looping, Idle
    <2>5. CASE Synthesize \/ AskObjector
      BY <2>5 DEF Synthesize, AskObjector, Resolvable, Asking, Idle
    <2>6. CASE Reconcile
      BY <2>6 DEF Reconcile, Asking, Idle
    <2> QED BY <2>1, <2>2, <2>3, <2>4, <2>5, <2>6 DEF Starting
  <1>2. BudgetInv /\ [Next]_vars =>
            [~(running' \subseteq running) =>
                /\ ~failed
                /\ settled => phase' \in {"objection", "reconciliation"}
                /\ cancelled => phase' = "reconciliation"]_vars
    BY <1>1
  <1> QED BY <1>2, InvAlways, PTL DEF Spec, StopsWhenTold
-----------------------------------------------------------------------------
(* Sequences without repetition *)

\* The concatenation of two injective sequences without a common element.
LEMMA ConcatInjective ==
    ASSUME NEW S, NEW s \in Seq(S), NEW t \in Seq(S),
           IsInjective(s), IsInjective(t), ToSet(s) \cap ToSet(t) = {}
    PROVE  IsInjective(s \o t)
  <1>1. /\ s \o t \in Seq(S) /\ Len(s \o t) = Len(s) + Len(t)
        /\ \A i \in 1 .. Len(s) + Len(t) :
              (s \o t)[i] = IF i <= Len(s) THEN s[i] ELSE t[i - Len(s)]
    BY ConcatProperties
  <1>2. SUFFICES ASSUME NEW i \in 1..(Len(s) + Len(t)), NEW j \in 1..(Len(s) + Len(t)),
                        (s \o t)[i] = (s \o t)[j]
                 PROVE  i = j
    BY <1>1 DEF IsInjective
  <1>3. Len(s) \in Nat /\ Len(t) \in Nat /\ DOMAIN s = 1..Len(s) /\ DOMAIN t = 1..Len(t)
    OBVIOUS
  <1>4. CASE i <= Len(s) /\ j <= Len(s)
    BY <1>1, <1>2, <1>3, <1>4 DEF IsInjective
  <1>5. CASE ~(i <= Len(s)) /\ ~(j <= Len(s))
    <2>1. i - Len(s) \in DOMAIN t /\ j - Len(s) \in DOMAIN t /\ t[i - Len(s)] = t[j - Len(s)]
      BY <1>1, <1>2, <1>3, <1>5
    <2> QED BY <2>1, <1>3 DEF IsInjective
  <1>6. ASSUME NEW k \in DOMAIN s, NEW l \in DOMAIN t, s[k] = t[l] PROVE FALSE
    BY <1>6 DEF ToSet
  <1>7. CASE i <= Len(s) /\ ~(j <= Len(s))
    <2>1. i \in DOMAIN s /\ j - Len(s) \in DOMAIN t /\ s[i] = t[j - Len(s)]
      BY <1>1, <1>2, <1>3, <1>7
    <2> QED BY <2>1, <1>6
  <1>8. CASE ~(i <= Len(s)) /\ j <= Len(s)
    <2>1. j \in DOMAIN s /\ i - Len(s) \in DOMAIN t /\ s[j] = t[i - Len(s)]
      BY <1>1, <1>2, <1>3, <1>8
    <2> QED BY <2>1, <1>6
  <1> QED BY <1>4, <1>5, <1>7, <1>8

\* What both parts inherit from an injective concatenation.
LEMMA InjectiveParts ==
    ASSUME NEW S, NEW s \in Seq(S), NEW t \in Seq(S), IsInjective(s \o t)
    PROVE  IsInjective(s) /\ IsInjective(t) /\ ToSet(s) \cap ToSet(t) = {}
  <1>1. /\ Len(s \o t) = Len(s) + Len(t) /\ s \o t \in Seq(S)
        /\ \A i \in 1 .. Len(s) + Len(t) :
              (s \o t)[i] = IF i <= Len(s) THEN s[i] ELSE t[i - Len(s)]
    BY ConcatProperties
  <1>2. Len(s) \in Nat /\ Len(t) \in Nat /\ DOMAIN s = 1..Len(s) /\ DOMAIN t = 1..Len(t)
        /\ DOMAIN (s \o t) = 1..(Len(s) + Len(t))
    BY <1>1
  <1>3. \A i \in DOMAIN s : i \in DOMAIN (s \o t) /\ (s \o t)[i] = s[i]
    BY <1>1, <1>2
  <1>4. \A j \in DOMAIN t : j + Len(s) \in DOMAIN (s \o t) /\ (s \o t)[j + Len(s)] = t[j]
    BY <1>1, <1>2
  <1>5. IsInjective(s)
    BY <1>3 DEF IsInjective
  <1>6. IsInjective(t)
    <2>1. ASSUME NEW i \in DOMAIN t, NEW j \in DOMAIN t, t[i] = t[j] PROVE i = j
      <3>1. i + Len(s) = j + Len(s)
        BY <1>4, <2>1 DEF IsInjective
      <3> QED BY <3>1, <1>2
    <2> QED BY <2>1 DEF IsInjective
  <1>7. ASSUME NEW i \in DOMAIN s, NEW j \in DOMAIN t, s[i] = t[j] PROVE FALSE
    <2>1. i = j + Len(s)
      BY <1>3, <1>4, <1>7 DEF IsInjective
    <2> QED BY <2>1, <1>2
  <1> QED BY <1>5, <1>6, <1>7 DEF ToSet

\* The elements of a concatenation.
LEMMA ConcatSet ==
    ASSUME NEW S, NEW s \in Seq(S), NEW t \in Seq(S)
    PROVE  ToSet(s \o t) = ToSet(s) \cup ToSet(t)
  <1>1. /\ Len(s \o t) = Len(s) + Len(t) /\ s \o t \in Seq(S)
        /\ \A i \in 1 .. Len(s) + Len(t) :
              (s \o t)[i] = IF i <= Len(s) THEN s[i] ELSE t[i - Len(s)]
    BY ConcatProperties
  <1>2. Len(s) \in Nat /\ Len(t) \in Nat /\ DOMAIN s = 1..Len(s) /\ DOMAIN t = 1..Len(t)
        /\ DOMAIN (s \o t) = 1..(Len(s) + Len(t))
    BY <1>1
  <1>3. ASSUME NEW i \in DOMAIN (s \o t) PROVE (s \o t)[i] \in ToSet(s) \cup ToSet(t)
    <2>1. CASE i <= Len(s)
      BY <1>1, <1>2, <2>1 DEF ToSet
    <2>2. CASE ~(i <= Len(s))
      <3>1. i - Len(s) \in DOMAIN t /\ (s \o t)[i] = t[i - Len(s)]
        BY <1>1, <1>2, <2>2
      <3> QED BY <3>1 DEF ToSet
    <2> QED BY <2>1, <2>2
  <1>4. \A i \in DOMAIN s : i \in DOMAIN (s \o t) /\ (s \o t)[i] = s[i]
    BY <1>1, <1>2
  <1>5. \A j \in DOMAIN t : j + Len(s) \in DOMAIN (s \o t) /\ (s \o t)[j + Len(s)] = t[j]
    BY <1>1, <1>2
  <1>6. \A x \in ToSet(s \o t) : x \in ToSet(s) \cup ToSet(t)
    BY <1>3 DEF ToSet
  <1>7. \A x \in ToSet(s) : x \in ToSet(s \o t)
    BY <1>4 DEF ToSet
  <1>8. \A x \in ToSet(t) : x \in ToSet(s \o t)
    BY <1>5 DEF ToSet
  <1> QED BY <1>6, <1>7, <1>8

\* The i-th element leaves a sequence without repetition.
LEMMA RemoveFacts ==
    ASSUME NEW S, NEW s \in Seq(S), NEW i \in DOMAIN s, IsInjective(s)
    PROVE  /\ RemoveAt(s, i) \in Seq(S) /\ Len(RemoveAt(s, i)) = Len(s) - 1
           /\ IsInjective(RemoveAt(s, i)) /\ ToSet(RemoveAt(s, i)) = ToSet(s) \ {s[i]}
  <1> DEFINE l == SubSeq(s, 1, i - 1)
             r == SubSeq(s, i + 1, Len(s))
  <1>1. Len(s) \in Nat /\ DOMAIN s = 1..Len(s) /\ i \in 1..Len(s)
    OBVIOUS
  <1>2. /\ l \in Seq(S) /\ Len(l) = i - 1 /\ \A k \in 1..(i - 1) : l[k] = s[k]
        /\ r \in Seq(S) /\ Len(r) = Len(s) - i
        /\ \A k \in 1..(Len(s) - i) : r[k] = s[i + k]
    <2>1. \A k \in 1..(i - 1) : s[k] \in S
      BY <1>1
    <2>2. \A k \in (i + 1)..Len(s) : s[k] \in S
      BY <1>1
    <2>3. /\ l \in Seq(S) /\ Len(l) = IF 1 <= i - 1 THEN (i - 1) - 1 + 1 ELSE 0
          /\ \A k \in 1..((i - 1) - 1 + 1) : l[k] = s[1 + k - 1]
      BY <1>1, <2>1, SubSeqProperties
    <2>4. /\ r \in Seq(S)
          /\ Len(r) = IF i + 1 <= Len(s) THEN Len(s) - (i + 1) + 1 ELSE 0
          /\ \A k \in 1..(Len(s) - (i + 1) + 1) : r[k] = s[(i + 1) + k - 1]
      BY <1>1, <2>2, SubSeqProperties
    <2> HIDE DEF l, r
    <2>5. Len(l) = i - 1 /\ \A k \in 1..(i - 1) : l[k] = s[k]
      BY <1>1, <2>3
    <2>6. Len(r) = Len(s) - i /\ \A k \in 1..(Len(s) - i) : r[k] = s[i + k]
      <3>1. Len(r) = Len(s) - i /\ Len(s) - (i + 1) + 1 = Len(s) - i
        BY <1>1, <2>4
      <3>2. ASSUME NEW k \in 1..(Len(s) - i) PROVE r[k] = s[i + k]
        <4>1. k \in Int /\ (i + 1) + k - 1 = i + k
          BY <1>1
        <4>2. r[k] = s[(i + 1) + k - 1]
          BY <2>4, <3>1, <3>2
        <4> QED BY <4>1, <4>2
      <3> QED BY <3>1, <3>2
    <2> QED BY <2>3, <2>4, <2>5, <2>6
  <1> HIDE DEF l, r
  <1>3. RemoveAt(s, i) = l \o r
    BY DEF RemoveAt, l, r
  <1>4. DOMAIN l = 1..(i - 1) /\ DOMAIN r = 1..(Len(s) - i)
    BY <1>2
  <1>5. ToSet(l) = {s[k] : k \in 1..(i - 1)}
    BY <1>2, <1>4 DEF ToSet
  <1>6. ToSet(r) = {s[k] : k \in (i + 1)..Len(s)}
    <2>1. ASSUME NEW k \in 1..(Len(s) - i)
          PROVE  i + k \in (i + 1)..Len(s) /\ r[k] = s[i + k]
      BY <1>1, <1>2
    <2>2. ASSUME NEW k \in (i + 1)..Len(s)
          PROVE  k - i \in 1..(Len(s) - i) /\ r[k - i] = s[k]
      <3>1. k - i \in 1..(Len(s) - i) /\ i + (k - i) = k
        BY <1>1
      <3> QED BY <3>1, <1>2
    <2>3. ToSet(r) = {r[k] : k \in 1..(Len(s) - i)}
      BY <1>4 DEF ToSet
    <2>4. ToSet(r) \subseteq {s[k] : k \in (i + 1)..Len(s)}
      BY <2>1, <2>3
    <2>5. {s[k] : k \in (i + 1)..Len(s)} \subseteq ToSet(r)
      BY <2>2, <2>3
    <2> QED BY <2>4, <2>5
  <1>7. IsInjective(l) /\ IsInjective(r)
    <2>1. ASSUME NEW j \in DOMAIN r, NEW k \in DOMAIN r, r[j] = r[k] PROVE j = k
      <3>0. j \in 1..(Len(s) - i) /\ k \in 1..(Len(s) - i)
        BY <1>4
      <3>1. i + j \in DOMAIN s /\ i + k \in DOMAIN s
        BY <1>1, <3>0
      <3>3. s[i + j] = s[i + k]
        BY <1>2, <2>1, <3>0
      <3>2. i + j = i + k
        BY <3>1, <3>3 DEF IsInjective
      <3> QED BY <3>2, <3>0, <1>1
    <2>2. IsInjective(l)
      BY <1>1, <1>2, <1>4 DEF IsInjective
    <2> QED BY <2>1, <2>2 DEF IsInjective
  <1>8. ToSet(l) \cap ToSet(r) = {} /\ s[i] \notin ToSet(l) \cup ToSet(r)
    BY <1>1, <1>5, <1>6 DEF IsInjective
  <1>9. ToSet(s) = ToSet(l) \cup ToSet(r) \cup {s[i]}
    <2>1. 1..Len(s) = (1..(i - 1)) \cup ((i + 1)..Len(s)) \cup {i}
      BY <1>1
    <2> QED BY <2>1, <1>1, <1>5, <1>6 DEF ToSet
  <1>10. Len(l \o r) = Len(s) - 1 /\ l \o r \in Seq(S)
    <2>1. Len(l \o r) = Len(l) + Len(r) /\ l \o r \in Seq(S)
      BY <1>2, ConcatProperties
    <2> QED BY <2>1, <1>1, <1>2
  <1>11. IsInjective(l \o r) /\ ToSet(l \o r) = ToSet(l) \cup ToSet(r)
    BY <1>2, <1>7, <1>8, ConcatInjective, ConcatSet
  <1> QED BY <1>3, <1>8, <1>9, <1>10, <1>11

-----------------------------------------------------------------------------
(* The directed engine: what a step adds to the queue and starts *)

PlanKnown == plan \in {PlanOf(r.opt) : r \in Runs}

\* The plan of a directed run names participants, each once, and has a worker.
LEMMA PlanFacts ==
    ASSUME PlanKnown
    PROVE  /\ plan.turns \in Seq(Agents) /\ IsInjective(plan.turns)
           /\ plan.allowance \in Nat /\ plan.concurrency \in Nat /\ plan.concurrency >= 1
           /\ plan.mentionable \subseteq Agents
  <1>1. PICK o \in Options : plan = PlanOf(o)
    BY RunAssumption DEF PlanKnown
  <1>2. /\ o \in OptionRecord /\ IsInjective(o.candidates) /\ o.concurrency >= 1
    BY EnergyAssumption
  <1>3. /\ o.candidates \in Seq(Agents) /\ o.turns \in Nat /\ o.concurrency \in Nat
        /\ o.mentionable \subseteq Agents
    BY <1>2 DEF OptionRecord
  <1>4. Larger(0, o.turns - Len(o.candidates)) \in Nat
    BY <1>3 DEF Larger
  <1> QED BY <1>1, <1>2, <1>3, <1>4 DEF PlanOf

\* A queue that is put together from two parts, behind another sequence.
LEMMA Joined ==
    ASSUME NEW S, NEW active \in Seq(S), NEW h \in Seq(S), NEW t \in Seq(S)
    PROVE  /\ active \o h \in Seq(S) /\ Len(active \o h) = Len(active) + Len(h)
           /\ (active \o h) \o t = active \o (h \o t)
           /\ SubSeq(active \o h, Len(active) + 1, Len(active) + Len(h)) = h
           /\ ToSet(h \o t) = ToSet(h) \cup ToSet(t)
  <1>1. active \o h \in Seq(S) /\ Len(active \o h) = Len(active) + Len(h)
    OBVIOUS
  <1>2. (active \o h) \o t = active \o (h \o t)
    BY ConcatAssociative
  <1>3. SubSeq(active \o h, Len(active) + 1, Len(active) + Len(h)) = h
    <2>0. Len(active) \in Nat /\ Len(h) \in Nat
      OBVIOUS
    <2>1. CASE Len(h) = 0
      <3>1. SubSeq(active \o h, Len(active) + 1, Len(active) + Len(h)) = << >>
        BY <2>0, <2>1, SubSeqEmpty
      <3>2. h = << >>
        BY <2>1
      <3> QED BY <3>1, <3>2
    <2>2. CASE Len(h) # 0
      <3>1. /\ Len(active) + 1 \in (Len(active) + 1)..(Len(active) + Len(h))
            /\ Len(active) + Len(h) \in (Len(active) + 1)..(Len(active) + Len(h))
            /\ Len(active) + 1 - Len(active) = 1 /\ Len(active) + Len(h) - Len(active) = Len(h)
        BY <2>0, <2>2
      <3>2. SubSeq(active \o h, Len(active) + 1, Len(active) + Len(h)) = SubSeq(h, 1, Len(h))
        BY <3>1, SubSeqOfConcat2
      <3>3. SubSeq(h, 1, Len(h)) = h
        BY SubSeqFull
      <3> QED BY <3>2, <3>3
    <2> QED BY <2>1, <2>2
  <1>4. ToSet(h \o t) = ToSet(h) \cup ToSet(t)
    <2>1. h \in Seq(S) /\ t \in Seq(S)
      OBVIOUS
    <2> QED BY <2>1, ConcatSet
  <1> QED BY <1>1, <1>2, <1>3, <1>4

\* The first k of a queue and the rest of it.
LEMMA SplitQueue ==
    ASSUME NEW S, NEW queue \in Seq(S), NEW k \in Nat, k <= Len(queue)
    PROVE  /\ SubSeq(queue, 1, k) \in Seq(S) /\ Len(SubSeq(queue, 1, k)) = k
           /\ SubSeq(queue, k + 1, Len(queue)) \in Seq(S)
           /\ Len(SubSeq(queue, k + 1, Len(queue))) = Len(queue) - k
           /\ SubSeq(queue, 1, k) \o SubSeq(queue, k + 1, Len(queue)) = queue
  <1>1. Len(queue) \in Nat
    OBVIOUS
  <1>2. /\ SubSeq(queue, 1, k) \in Seq(S) /\ Len(SubSeq(queue, 1, k)) = k
        /\ SubSeq(queue, k + 1, Len(queue)) \in Seq(S)
        /\ Len(SubSeq(queue, k + 1, Len(queue))) = Len(queue) - k
    BY <1>1
  <1>3. /\ 1 \in 1..(Len(queue) + 1) /\ k \in (1 - 1)..Len(queue)
        /\ Len(queue) \in k..Len(queue)
    BY <1>1
  <1>4. SubSeq(queue, 1, k) \o SubSeq(queue, k + 1, Len(queue)) = SubSeq(queue, 1, Len(queue))
    BY <1>3, ConcatAdjacentSubSeq
  <1>5. SubSeq(queue, 1, Len(queue)) = queue
    BY SubSeqFull
  <1> QED BY <1>2, <1>4, <1>5

\* The workers take the head of the queue and leave the rest: nothing is lost, nothing
\* is taken twice, and no worker stays free beside a queue.
LEMMA FillFacts ==
    ASSUME PlanKnown, attempted \in Nat,
           NEW active \in Seq(Agents), NEW queue \in Seq(Agents),
           Len(active) < plan.concurrency, Directed!Fill(active, queue)
    PROVE  /\ pending' \in Seq(Agents) /\ queued' \in Seq(Agents) /\ attempted' \in Nat
           /\ pending' \o queued' = active \o queue
           /\ attempted' + Len(queued') = attempted + Len(queue)
           /\ Len(pending') + attempted = Len(active) + attempted'
           /\ Len(pending') <= plan.concurrency
           /\ queued' # << >> => Len(pending') = plan.concurrency
           /\ ToSet(queue) = ToSet(SubSeq(pending', Len(active) + 1, Len(pending')))
                                \cup ToSet(queued')
  <1> DEFINE free == plan.concurrency - Len(active)
             k == IF free <= Len(queue) THEN free ELSE Len(queue)
             h == SubSeq(queue, 1, k)
             t == SubSeq(queue, k + 1, Len(queue))
  <1>1. /\ pending' = active \o h /\ queued' = t /\ attempted' = attempted + k
    BY DEF Directed!Fill
  <1>2. Len(active) \in Nat /\ Len(queue) \in Nat /\ free \in Nat /\ free >= 1
    BY PlanFacts
  <1>3. k \in Nat /\ k <= Len(queue) /\ k <= free /\ (k < free => k = Len(queue))
    BY <1>2
  <1> HIDE DEF k, free
  <1>4. /\ h \in Seq(Agents) /\ Len(h) = k /\ t \in Seq(Agents) /\ Len(t) = Len(queue) - k
        /\ h \o t = queue
    BY <1>3, SplitQueue
  <1> HIDE DEF h, t
  <1>5. /\ active \o h \in Seq(Agents) /\ Len(active \o h) = Len(active) + k
        /\ (active \o h) \o t = active \o queue
        /\ SubSeq(active \o h, Len(active) + 1, Len(active) + k) = h
        /\ ToSet(queue) = ToSet(h) \cup ToSet(t)
    <2>1. h \in Seq(Agents) /\ t \in Seq(Agents)
      BY <1>4
    <2>2. /\ active \o h \in Seq(Agents) /\ Len(active \o h) = Len(active) + Len(h)
          /\ (active \o h) \o t = active \o (h \o t)
          /\ SubSeq(active \o h, Len(active) + 1, Len(active) + Len(h)) = h
          /\ ToSet(h \o t) = ToSet(h) \cup ToSet(t)
      BY <2>1, Joined
    <2> QED BY <1>4, <2>2
  <1>10. Len(active) + k <= plan.concurrency
         /\ (t # << >> => Len(active) + k = plan.concurrency)
    <2>1. t # << >> => k = free
      BY <1>2, <1>3, <1>4
    <2> QED BY <2>1, <1>2, <1>3, PlanFacts DEF free
  <1>11. /\ attempted' \in Nat /\ attempted' + Len(queued') = attempted + Len(queue)
         /\ Len(pending') + attempted = Len(active) + attempted'
    <2>1. Len(pending') = Len(active) + k /\ Len(queued') = Len(queue) - k
      BY <1>1, <1>4, <1>5
    <2> QED BY <2>1, <1>1, <1>2, <1>3
  <1>12. ToSet(queue) = ToSet(SubSeq(pending', Len(active) + 1, Len(pending'))) \cup ToSet(queued')
    BY <1>1, <1>4, <1>5
  <1> QED BY <1>1, <1>4, <1>5, <1>10, <1>11, <1>12

\* What the end of a turn adds are agents without a turn, each once and no more than
\* follow-ups are left; when some are left over, everyone who was named is among them or
\* waits for the turn it has.
LEMMA ReactionFacts ==
    ASSUME NEW a, NEW speaks \in BOOLEAN, NEW targets \in SUBSET Agents, NEW completed,
           NEW busy, NEW left \in Int,
           NEW m \in Directed!Reactions(a, speaks, targets, completed, busy, left)
    PROVE  /\ m.added \in Seq(Agents) /\ IsInjective(m.added)
           /\ ToSet(m.added) \cap busy = {} /\ m.waits \subseteq busy
           /\ Len(m.added) <= Larger(0, left)
           /\ speaks /\ Len(m.added) < left => targets \subseteq ToSet(m.added) \cup m.waits
  <1>1. CASE m \in Directed!Nothing /\ (left <= 0 \/ ~speaks \/ targets = {})
    <2>1. m.added = << >> /\ m.waits = {}
      BY <1>1 DEF Directed!Nothing
    <2>2. << >> \in Seq(Agents) /\ IsInjective(<< >>) /\ ToSet(<< >>) = {} /\ Len(<< >>) = 0
      BY DEF IsInjective, ToSet
    <2> QED BY <1>1, <2>1, <2>2 DEF Larger
  <1>2. CASE ~(left <= 0) /\ m \in Directed!Asked(targets, busy, left)
    <2> DEFINE S == targets \ busy
    <2>1. /\ m \in [added : Directed!Some(S, left), waits : SUBSET (targets \cap busy)]
          /\ Len(m.added) < left => m.waits = targets \cap busy
      BY <1>2 DEF Directed!Asked
    <2>2. m.added \in Directed!Some(S, left) /\ m.waits \in SUBSET (targets \cap busy)
      BY <2>1
    <2> HIDE DEF S
    <2>3. PICK k \in 0..left : m.added \in [1..k -> S]
      BY <2>2 DEF Directed!Some
    <2>4. IsInjective(m.added) /\ (Len(m.added) < left => ToSet(m.added) = S)
      BY <2>2 DEF Directed!Some, Directed!IsInjective, IsInjective, Directed!ToSet, ToSet
    <2>5. m.added \in Seq(S) /\ Len(m.added) = k /\ DOMAIN m.added = 1..k
      BY <2>3
    <2>6. ToSet(m.added) \subseteq S
      BY <2>3, <2>5 DEF ToSet
    <2>7. m.added \in Seq(Agents)
      BY <2>5 DEF S
    <2>8. Len(m.added) <= Larger(0, left)
      BY <2>5, <1>2 DEF Larger
    <2> QED BY <2>1, <2>2, <2>4, <2>6, <2>7, <2>8 DEF S
  <1>3. CASE /\ ~(left <= 0) /\ targets = {}
             /\ \E b \in Agents \ busy : m = [added |-> <<b>>, waits |-> {}]
    <2>1. PICK b \in Agents \ busy : m = [added |-> <<b>>, waits |-> {}]
      BY <1>3
    <2>2. /\ <<b>> \in Seq(Agents) /\ IsInjective(<<b>>) /\ ToSet(<<b>>) = {b} /\ Len(<<b>>) = 1
      BY DEF IsInjective, ToSet
    <2>3. Larger(0, left) = left /\ left >= 1
      BY <1>3 DEF Larger
    <2> QED BY <1>3, <2>1, <2>2, <2>3
  <1>4. \/ m \in Directed!Nothing /\ (left <= 0 \/ ~speaks \/ targets = {})
        \/ ~(left <= 0) /\ m \in Directed!Asked(targets, busy, left)
        \/ /\ ~(left <= 0) /\ targets = {}
           /\ \E b \in Agents \ busy : m = [added |-> <<b>>, waits |-> {}]
    <2>1. CASE ~(left <= 0) /\ speaks /\ targets = {}
      BY <2>1 DEF Directed!Reactions, Directed!Replies
    <2>2. CASE left <= 0 \/ ~speaks
      BY <2>2 DEF Directed!Reactions
    <2>3. CASE ~(left <= 0) /\ speaks /\ targets # {}
      BY <2>3 DEF Directed!Reactions
    <2> QED BY <2>1, <2>2, <2>3
  <1> QED BY <1>1, <1>2, <1>3, <1>4

-----------------------------------------------------------------------------
(* The directed engine: the invariant *)

DirectTyped ==
    /\ PlanKnown /\ outcome \in Directed!Ended \cup {"not-started", "running"}
    /\ queued \in Seq(Agents) /\ pending \in Seq(Agents)
    /\ completedOrder \in [Agents -> Nat]
    /\ deferred \subseteq Agents /\ unanswered \subseteq Agents
    /\ followUps \in Nat /\ followUps <= plan.allowance
    /\ attempted \in Nat /\ Len(pending) <= attempted /\ thrown \in BOOLEAN

\* Every turn is one that was asked for or a follow-up that was spent.
Accounts ==
    /\ outcome = "not-started" =>
          /\ pending = << >> /\ queued = << >> /\ deferred = {} /\ unanswered = {}
          /\ attempted = 0 /\ followUps = 0 /\ ~thrown
    /\ outcome # "not-started" => attempted + Len(queued) = Len(plan.turns) + followUps

\* While the run goes on no worker is free beside a queue.
WorkersBusy ==
    outcome = "running" /\ ~thrown =>
        /\ Len(pending) <= plan.concurrency
        /\ queued # << >> => Len(pending) = plan.concurrency

Over ==
    /\ outcome \in Directed!Ended => pending = << >>
    /\ outcome \in Directed!Ended \ {"run-failed"} => queued = << >> /\ ~thrown
    /\ outcome = "queue-exhausted" => followUps < plan.allowance

\* While follow-ups are left, a mention that waits has a turn to wait for, and whoever
\* was named is in the queue or waits.
Owed ==
    ~thrown /\ followUps < plan.allowance =>
        /\ deferred \subseteq ToSet(pending) \cup ToSet(queued)
        /\ unanswered \subseteq ToSet(queued) \cup deferred

DirectInv ==
    DirectTyped /\ Accounts /\ IsInjective(pending \o queued) /\ WorkersBusy /\ Over /\ Owed

\* A directed run starts with an empty queue and nobody owed a turn.
LEMMA DirectInit == ASSUME PlanKnown, Directed!Init PROVE DirectInv
  <1>1. << >> \o << >> = << >> /\ << >> \in Seq(Agents) /\ Len(<< >>) = 0
    OBVIOUS
  <1>2. IsInjective(<< >> \o << >>)
    BY <1>1 DEF IsInjective
  <1>3. /\ outcome = "not-started" /\ queued = << >> /\ pending = << >> /\ deferred = {}
        /\ completedOrder \in [Agents -> Nat] /\ followUps = 0 /\ attempted = 0
        /\ thrown = FALSE /\ unanswered = {}
    BY DEF Directed!Init
  <1>4. plan.allowance \in Nat
    BY PlanFacts
  <1>5. DirectTyped
    <2>1. outcome \in Directed!Ended \cup {"not-started", "running"} /\ thrown \in BOOLEAN
      BY <1>3
    <2>2. Len(pending) <= attempted /\ queued \in Seq(Agents) /\ pending \in Seq(Agents)
      BY <1>1, <1>3
    <2>3. followUps <= plan.allowance /\ followUps \in Nat /\ attempted \in Nat
      BY <1>3, <1>4
    <2>4. deferred \subseteq Agents /\ unanswered \subseteq Agents
      BY <1>3
    <2> QED BY <2>1, <2>2, <2>3, <2>4, <1>3 DEF DirectTyped
  <1>6. IsInjective(pending \o queued)
    BY <1>2, <1>3
  <1>7. Accounts /\ WorkersBusy /\ Over /\ Owed
    BY <1>3 DEF Accounts, WorkersBusy, Over, Owed, Directed!Ended
  <1> QED BY <1>5, <1>6, <1>7 DEF DirectInv

\* The turns that were asked for start, or wait in the queue.
LEMMA DirectStart == ASSUME DirectInv, Directed!Start PROVE DirectInv'
  <1>1. /\ PlanKnown /\ attempted = 0 /\ followUps = 0 /\ deferred = {} /\ unanswered = {}
        /\ ~thrown /\ thrown \in BOOLEAN /\ completedOrder \in [Agents -> Nat]
        /\ outcome' = "running" /\ Directed!Fill(<< >>, plan.turns)
        /\ plan' = plan /\ deferred' = deferred /\ completedOrder' = completedOrder
        /\ followUps' = followUps /\ thrown' = thrown /\ unanswered' = unanswered
    BY DEF DirectInv, DirectTyped, Accounts, Directed!Start
  <1>2. /\ plan.turns \in Seq(Agents) /\ IsInjective(plan.turns)
        /\ plan.allowance \in Nat /\ plan.concurrency \in Nat /\ plan.concurrency >= 1
    BY <1>1, PlanFacts
  <1>3. /\ << >> \in Seq(Agents) /\ Len(<< >>) = 0 /\ << >> \o plan.turns = plan.turns
    BY <1>2
  <1>4. /\ pending' \in Seq(Agents) /\ queued' \in Seq(Agents) /\ attempted' \in Nat
        /\ pending' \o queued' = << >> \o plan.turns
        /\ attempted' + Len(queued') = attempted + Len(plan.turns)
        /\ Len(pending') + attempted = Len(<< >>) + attempted'
        /\ Len(pending') <= plan.concurrency
        /\ queued' # << >> => Len(pending') = plan.concurrency
    <2>1. Len(<< >>) < plan.concurrency /\ attempted \in Nat
      BY <1>1, <1>2, <1>3
    <2> QED BY <2>1, <1>1, <1>2, <1>3, FillFacts
  <1>5. IsInjective(pending' \o queued')
    BY <1>2, <1>3, <1>4
  <1>6. Len(pending') <= attempted' /\ attempted' + Len(queued') = Len(plan.turns) + followUps'
    BY <1>1, <1>2, <1>3, <1>4
  <1>7. DirectTyped' /\ Accounts' /\ WorkersBusy'
    <2>1. PlanKnown'
      BY <1>1 DEF PlanKnown
    <2>2. DirectTyped'
      <3>1. /\ outcome' \in Directed!Ended \cup {"not-started", "running"}
            /\ thrown' \in BOOLEAN /\ completedOrder' \in [Agents -> Nat]
            /\ deferred' \subseteq Agents /\ unanswered' \subseteq Agents
        BY <1>1
      <3>2. followUps' \in Nat /\ followUps' <= plan'.allowance
        BY <1>1, <1>2
      <3> QED BY <2>1, <3>1, <3>2, <1>4, <1>6 DEF DirectTyped
    <2>3. Accounts' /\ WorkersBusy'
      BY <1>1, <1>4, <1>6 DEF Accounts, WorkersBusy
    <2> QED BY <2>2, <2>3
  <1>8. Over' /\ Owed'
    BY <1>1 DEF Over, Owed, Directed!Ended
  <1> QED BY <1>5, <1>7, <1>8 DEF DirectInv

\* Follow-ups, in numbers: n are allowed, f were spent, l are taken by a waiting mention.
LEMMA WhatIsLeft ==
    ASSUME NEW n \in Nat, NEW f \in Nat, NEW l \in {0, 1}, NEW left,
           f <= n, l = 1 => f < n, left = n - f - l
    PROVE  left \in Int /\ left >= 0
  <1> QED OBVIOUS

\* The end of a turn: the agent that ended has no turn left, so its waiting mention may
\* be queued; what is added is disjoint from what is scheduled.
LEMMA DirectTurnEnds ==
    ASSUME DirectInv, NEW i \in DOMAIN pending, NEW speaks \in BOOLEAN,
           NEW targets \in SUBSET Agents, speaks \/ targets = {},
           Directed!TurnEnds(i, speaks, targets)
    PROVE  DirectInv'
  <1> DEFINE a == pending[i]
             rest == RemoveAt(pending, i)
             p == Directed!Promoted(a)
             busy == ToSet(rest) \cup ToSet(p \o queued)
             left == Directed!Left(a)
  <1>1. PICK m \in Directed!Reactions(a, speaks, targets, completedOrder', busy, left) :
           /\ Directed!Fill(rest, p \o queued \o m.added)
           /\ followUps' = followUps + Len(p) + Len(m.added)
           /\ deferred' = (deferred \ ToSet(p)) \cup m.waits
    BY DEF Directed!TurnEnds, Directed!RemoveAt, RemoveAt, Directed!ToSet, ToSet
  <1>2. /\ outcome = "running" /\ ~thrown
        /\ completedOrder' = [completedOrder EXCEPT ![a] = attempted - Len(pending) + 1]
        /\ unanswered' = (unanswered \cup targets)
                            \ ToSet(SubSeq(pending', Len(rest) + 1, Len(pending')))
        /\ plan' = plan /\ outcome' = outcome /\ thrown' = thrown
    BY DEF Directed!TurnEnds, Directed!RemoveAt, RemoveAt, Directed!ToSet, ToSet
  <1>3. /\ plan.turns \in Seq(Agents) /\ plan.allowance \in Nat /\ plan.concurrency \in Nat
        /\ plan.concurrency >= 1
    BY PlanFacts DEF DirectInv, DirectTyped
  <1>4. /\ queued \in Seq(Agents) /\ pending \in Seq(Agents) /\ deferred \subseteq Agents
        /\ completedOrder \in [Agents -> Nat] /\ unanswered \subseteq Agents
        /\ followUps \in Nat /\ followUps <= plan.allowance
        /\ attempted \in Nat /\ Len(pending) <= attempted /\ PlanKnown
    BY DEF DirectInv, DirectTyped
  <1>5. IsInjective(pending) /\ IsInjective(queued) /\ ToSet(pending) \cap ToSet(queued) = {}
    BY <1>4, InjectiveParts DEF DirectInv
  <1>6. a \in Agents /\ a \in ToSet(pending)
    BY <1>4 DEF ToSet
  <1>7. /\ rest \in Seq(Agents) /\ Len(rest) = Len(pending) - 1
        /\ IsInjective(rest) /\ ToSet(rest) = ToSet(pending) \ {a}
    BY <1>4, <1>5, RemoveFacts
  <1>8. /\ p = << >> \/ p = <<a>>
        /\ p = <<a>> <=> a \in deferred /\ followUps < plan.allowance
    BY DEF Directed!Promoted
  <1>9. /\ p \in Seq(Agents) /\ IsInjective(p) /\ Len(p) \in {0, 1}
        /\ ToSet(p) \subseteq {a} /\ (p = <<a>> => ToSet(p) = {a} /\ Len(p) = 1)
        /\ p = << >> => ToSet(p) = {} /\ Len(p) = 0
    <2>1. CASE p = << >>
      BY <2>1 DEF IsInjective, ToSet
    <2>2. CASE p = <<a>>
      BY <2>2, <1>6 DEF IsInjective, ToSet
    <2> QED BY <2>1, <2>2, <1>8
  <1>10. left = plan.allowance - followUps - Len(p) /\ left \in Int /\ left >= 0
    <2>1. left = plan.allowance - followUps - Len(p)
      BY DEF Directed!Left
    <2> HIDE DEF left, p, a
    <2>2. Len(p) \in {0, 1} /\ (Len(p) = 1 => followUps < plan.allowance)
      <3>1. CASE p = << >>
        <4>1. Len(p) = 0
          BY <3>1, <1>9
        <4> QED BY <4>1
      <3>2. CASE p = <<a>>
        <4>1. Len(p) = 1
          BY <3>2, <1>9
        <4>2. followUps < plan.allowance
          BY <3>2, <1>8
        <4> QED BY <4>1, <4>2
      <3> QED BY <1>8, <3>1, <3>2
    <2>3. plan.allowance \in Nat /\ followUps \in Nat /\ followUps <= plan.allowance
      BY <1>3, <1>4
    <2> QED BY <2>1, <2>2, <2>3, WhatIsLeft
  <1> HIDE DEF a, rest, p, left
  <1> DEFINE ahead == p \o queued
             q == ahead \o m.added
  <1>11. /\ ahead \in Seq(Agents) /\ IsInjective(ahead) /\ Len(ahead) = Len(p) + Len(queued)
         /\ ToSet(ahead) = ToSet(p) \cup ToSet(queued)
         /\ ToSet(rest) \cap ToSet(ahead) = {}
    <2>1. ToSet(p) \cap ToSet(queued) = {}
      BY <1>5, <1>6, <1>9
    <2>2. ahead \in Seq(Agents) /\ Len(ahead) = Len(p) + Len(queued)
      BY <1>4, <1>9, ConcatProperties
    <2>3. ToSet(ahead) = ToSet(p) \cup ToSet(queued) /\ IsInjective(ahead)
      BY <2>1, <1>4, <1>5, <1>9, ConcatSet, ConcatInjective
    <2>4. ToSet(rest) \cap (ToSet(p) \cup ToSet(queued)) = {}
      BY <1>5, <1>7, <1>9
    <2> QED BY <2>2, <2>3, <2>4
  <1>12. busy = ToSet(rest) \cup ToSet(ahead)
    OBVIOUS
  <1> HIDE DEF ahead, busy
  <1>13. /\ m.added \in Seq(Agents) /\ IsInjective(m.added)
         /\ ToSet(m.added) \cap busy = {} /\ m.waits \subseteq busy
         /\ Len(m.added) <= Larger(0, left)
         /\ speaks /\ Len(m.added) < left => targets \subseteq ToSet(m.added) \cup m.waits
    <2>1. left \in Int /\ speaks \in BOOLEAN /\ targets \in SUBSET Agents
          /\ m \in Directed!Reactions(a, speaks, targets, completedOrder', busy, left)
      BY <1>1, <1>10
    <2> QED BY <2>1, ReactionFacts
  <1>14. Larger(0, left) = left
    BY <1>10 DEF Larger
  <1>15. /\ q \in Seq(Agents) /\ IsInjective(q) /\ Len(q) = Len(ahead) + Len(m.added)
         /\ ToSet(q) = ToSet(ahead) \cup ToSet(m.added)
         /\ ToSet(rest) \cap ToSet(q) = {}
    <2>1. ToSet(ahead) \cap ToSet(m.added) = {} /\ ToSet(rest) \cap ToSet(m.added) = {}
      BY <1>12, <1>13
    <2>2. q \in Seq(Agents) /\ Len(q) = Len(ahead) + Len(m.added)
      <3>1. ahead \in Seq(Agents) /\ m.added \in Seq(Agents)
        BY <1>11, <1>13
      <3> QED BY <3>1, ConcatProperties
    <2>3. ToSet(q) = ToSet(ahead) \cup ToSet(m.added) /\ IsInjective(q)
      BY <2>1, <1>11, <1>13, ConcatSet, ConcatInjective
    <2> QED BY <2>1, <2>2, <2>3, <1>11
  <1>16. Directed!Fill(rest, q)
    BY <1>1 DEF ahead
  <1> HIDE DEF q
  <1>17. /\ pending' \in Seq(Agents) /\ queued' \in Seq(Agents) /\ attempted' \in Nat
         /\ pending' \o queued' = rest \o q
         /\ attempted' + Len(queued') = attempted + Len(q)
         /\ Len(pending') + attempted = Len(rest) + attempted'
         /\ Len(pending') <= plan.concurrency
         /\ queued' # << >> => Len(pending') = plan.concurrency
         /\ ToSet(q) = ToSet(SubSeq(pending', Len(rest) + 1, Len(pending'))) \cup ToSet(queued')
    <2>1. Len(rest) < plan.concurrency
      BY <1>2, <1>3, <1>4, <1>7 DEF DirectInv, WorkersBusy
    <2> QED BY <2>1, <1>4, <1>7, <1>15, <1>16, FillFacts
  <1>18. IsInjective(pending' \o queued')
    BY <1>7, <1>15, <1>17, ConcatInjective
  <1>19. followUps' \in Nat /\ followUps' <= plan.allowance
         /\ (followUps' < plan.allowance =>
                Len(m.added) < left /\ followUps < plan.allowance)
    <2> DEFINE k == Len(m.added)
               l == Len(p)
    <2>1. k \in Nat /\ l \in Nat /\ k <= left
      BY <1>9, <1>13, <1>14
    <2>2. followUps' = followUps + l + k /\ left = plan.allowance - followUps - l
      BY <1>1, <1>10
    <2>3. plan.allowance \in Nat /\ followUps \in Nat /\ followUps <= plan.allowance
      BY <1>3, <1>4
    <2> HIDE DEF k, l
    <2>4. /\ followUps' \in Nat /\ followUps' <= plan.allowance
          /\ (followUps' < plan.allowance => k < left /\ followUps < plan.allowance)
      BY <2>1, <2>2, <2>3
    <2> QED BY <2>4 DEF k
  <1>20. DirectTyped'
    <2>1. Len(pending') <= attempted'
      <3>1. Len(pending') \in Nat /\ Len(rest) \in Nat /\ Len(pending) \in Nat
        <4>1. pending' \in Seq(Agents) /\ rest \in Seq(Agents) /\ pending \in Seq(Agents)
          BY <1>4, <1>7, <1>17
        <4> QED BY <4>1
      <3>2. /\ Len(pending') + attempted = Len(rest) + attempted'
            /\ Len(rest) = Len(pending) - 1 /\ Len(pending) <= attempted
            /\ attempted \in Nat /\ attempted' \in Nat
        BY <1>4, <1>7, <1>17
      <3> QED BY <3>1, <3>2
    <2>2. attempted - Len(pending) + 1 \in Nat
      BY <1>4
    <2>3. deferred' \subseteq Agents /\ unanswered' \subseteq Agents
      <3>1. ToSet(rest) \subseteq Agents /\ ToSet(ahead) \subseteq Agents
        BY <1>7, <1>11 DEF ToSet
      <3> QED BY <3>1, <1>1, <1>2, <1>4, <1>12, <1>13
    <2>4. PlanKnown' /\ outcome' \in Directed!Ended \cup {"not-started", "running"}
          /\ thrown' \in BOOLEAN
      BY <1>2 DEF DirectInv, DirectTyped, PlanKnown
    <2>5. completedOrder' \in [Agents -> Nat]
      BY <2>2, <1>2, <1>4
    <2>6. queued' \in Seq(Agents) /\ pending' \in Seq(Agents) /\ attempted' \in Nat
          /\ followUps' \in Nat /\ followUps' <= plan'.allowance
      BY <1>2, <1>17, <1>19
    <2> QED BY <2>1, <2>3, <2>4, <2>5, <2>6 DEF DirectTyped
  <1>21. Accounts'
    <2>1. attempted + Len(queued) = Len(plan.turns) + followUps
      BY <1>2 DEF DirectInv, Accounts
    <2> DEFINE k == Len(m.added)
               l == Len(p)
               w == Len(queued)
               t == Len(plan.turns)
               n == Len(q)
               v == Len(queued')
    <2>2. k \in Nat /\ l \in Nat /\ w \in Nat
      BY <1>4, <1>9, <1>13
    <2>3. t \in Nat /\ v \in Nat /\ n \in Nat
      BY <1>3, <1>15, <1>17
    <2>4. n = l + w + k
      BY <1>11, <1>15
    <2>6. /\ attempted' + v = attempted + n /\ followUps' = followUps + l + k
          /\ attempted + w = t + followUps
      BY <2>1, <1>1, <1>17
    <2>7. /\ attempted \in Nat /\ followUps \in Nat /\ attempted' \in Nat /\ followUps' \in Nat
      BY <1>4, <1>17, <1>19
    <2> HIDE DEF k, l, w, t, n, v
    <2>8. attempted' + v = t + followUps'
      <3>1. attempted' + v = attempted + n
        BY <2>6
      <3>2. followUps' = followUps + l + k
        BY <2>6
      <3>3. attempted + w = t + followUps
        BY <2>6
      <3>4. attempted' + v = attempted + (l + w + k)
        BY <3>1, <2>4
      <3>5. attempted + (l + w + k) = (attempted + w) + l + k
        BY <2>2, <2>7
      <3>6. (t + followUps) + l + k = t + (followUps + l + k)
        BY <2>2, <2>3, <2>7
      <3> QED BY <3>2, <3>3, <3>4, <3>5, <3>6
    <2>5. attempted' + Len(queued') = Len(plan.turns) + followUps'
      BY <2>8 DEF v, t
    <2> QED BY <2>5, <1>2 DEF Accounts
  <1>22. WorkersBusy' /\ Over'
    BY <1>2, <1>17 DEF WorkersBusy, Over, Directed!Ended
  <1>23. Owed'
    <2> SUFFICES ASSUME followUps' < plan.allowance
                 PROVE  /\ deferred' \subseteq ToSet(pending') \cup ToSet(queued')
                        /\ unanswered' \subseteq ToSet(queued') \cup deferred'
      BY <1>2 DEF Owed
    <2>1. Len(m.added) < left /\ followUps < plan.allowance
      BY <1>19
    <2>2. /\ deferred \subseteq ToSet(pending) \cup ToSet(queued)
          /\ unanswered \subseteq ToSet(queued) \cup deferred
      BY <2>1, <1>2 DEF DirectInv, Owed
    <2>3. a \in deferred => ToSet(p) = {a}
      BY <2>1, <1>8, <1>9
    <2>4. ToSet(pending') \cup ToSet(queued') = ToSet(rest) \cup ToSet(q)
      <3>1. /\ ToSet(pending' \o queued') = ToSet(pending') \cup ToSet(queued')
            /\ ToSet(rest \o q) = ToSet(rest) \cup ToSet(q)
        <4>1. /\ pending' \in Seq(Agents) /\ queued' \in Seq(Agents)
              /\ rest \in Seq(Agents) /\ q \in Seq(Agents)
          BY <1>7, <1>15, <1>17
        <4> QED BY <4>1, ConcatSet
      <3> QED BY <3>1, <1>17
    <2>5. deferred' \subseteq ToSet(rest) \cup ToSet(q)
      BY <2>2, <2>3, <1>1, <1>7, <1>11, <1>12, <1>13, <1>15
    <2>6. targets \subseteq ToSet(m.added) \cup m.waits
      BY <2>1, <1>13
    <2>7. unanswered \cup targets \subseteq ToSet(q) \cup deferred'
      BY <2>2, <2>6, <1>1, <1>11, <1>15
    <2> QED BY <2>4, <2>5, <2>7, <1>2, <1>17
  <1> QED BY <1>18, <1>20, <1>21, <1>22, <1>23 DEF DirectInv

\* A turn that throws, and those that are waited for afterwards, only leave.
LEMMA DirectTurnLeaves ==
    ASSUME DirectInv, NEW i \in DOMAIN pending, Directed!TurnThrows(i) \/ Directed!TurnDrains(i)
    PROVE  DirectInv'
  <1> DEFINE rest == RemoveAt(pending, i)
  <1>1. /\ outcome = "running" /\ thrown' = TRUE /\ pending' = rest
        /\ plan' = plan /\ outcome' = outcome /\ queued' = queued
        /\ deferred' = deferred /\ completedOrder' = completedOrder
        /\ followUps' = followUps /\ attempted' = attempted /\ unanswered' = unanswered
    BY DEF Directed!TurnThrows, Directed!TurnDrains, Directed!followVars,
           Directed!RemoveAt, RemoveAt
  <1>2. queued \in Seq(Agents) /\ pending \in Seq(Agents) /\ Len(pending) <= attempted
        /\ attempted \in Nat
    BY DEF DirectInv, DirectTyped
  <1>3. IsInjective(pending) /\ IsInjective(queued) /\ ToSet(pending) \cap ToSet(queued) = {}
    BY <1>2, InjectiveParts DEF DirectInv
  <1>4. /\ rest \in Seq(Agents) /\ Len(rest) = Len(pending) - 1
        /\ IsInjective(rest) /\ ToSet(rest) \subseteq ToSet(pending)
    BY <1>2, <1>3, RemoveFacts
  <1> HIDE DEF rest
  <1>5. IsInjective(pending' \o queued')
    <2>1. ToSet(rest) \cap ToSet(queued) = {}
      BY <1>3, <1>4
    <2> QED BY <2>1, <1>1, <1>2, <1>3, <1>4, ConcatInjective
  <1>6. DirectTyped'
    BY <1>1, <1>2, <1>4 DEF DirectInv, DirectTyped, PlanKnown
  <1>7. Accounts' /\ WorkersBusy' /\ Over' /\ Owed'
    BY <1>1 DEF DirectInv, Accounts, WorkersBusy, Over, Owed, Directed!Ended
  <1> QED BY <1>5, <1>6, <1>7 DEF DirectInv

\* A directed run ends with no turn in flight.
LEMMA DirectFinish == ASSUME DirectInv, Directed!Finish PROVE DirectInv'
  <1>1. /\ outcome = "running" /\ pending = << >>
        /\ outcome' = IF thrown THEN "run-failed"
                      ELSE IF followUps >= plan.allowance THEN "follow-up-limit"
                      ELSE "queue-exhausted"
        /\ plan' = plan /\ queued' = queued /\ pending' = pending /\ thrown' = thrown
        /\ deferred' = deferred /\ completedOrder' = completedOrder
        /\ followUps' = followUps /\ attempted' = attempted /\ unanswered' = unanswered
    BY DEF Directed!Finish, Directed!followVars
  <1>2. /\ plan.allowance \in Nat /\ plan.concurrency \in Nat /\ plan.concurrency >= 1
        /\ followUps \in Nat /\ Len(pending) = 0
    BY <1>1, PlanFacts DEF DirectInv, DirectTyped
  <1>3. ~thrown => queued = << >>
    BY <1>1, <1>2 DEF DirectInv, WorkersBusy
  <1>4. outcome' \in Directed!Ended
    BY <1>1 DEF Directed!Ended
  <1>5. Over'
    BY <1>1, <1>2, <1>3 DEF Over, Directed!Ended
  <1>6. DirectTyped' /\ Accounts' /\ WorkersBusy' /\ Owed'
    BY <1>1, <1>4 DEF DirectInv, DirectTyped, PlanKnown, Accounts, WorkersBusy, Owed, Directed!Ended
  <1>7. IsInjective(pending' \o queued')
    BY <1>1 DEF DirectInv
  <1> QED BY <1>5, <1>6, <1>7 DEF DirectInv

\* Every step of runAgentConversation keeps the account of turns and follow-ups.
LEMMA DirectStep == ASSUME DirectInv, [Directed!Next]_(Directed!direct) PROVE DirectInv'
  <1>1. CASE Directed!Start
    BY <1>1, DirectStart
  <1>2. ASSUME NEW i \in DOMAIN pending, NEW T \in Directed!Namings(pending[i]),
               Directed!TurnEnds(i, TRUE, T)
        PROVE  DirectInv'
    <2>1. T \in SUBSET Agents
      BY <1>2, PlanFacts DEF Directed!Namings, DirectInv, DirectTyped
    <2> QED BY <2>1, <1>2, DirectTurnEnds
  <1>3. ASSUME NEW i \in DOMAIN pending, Directed!TurnEnds(i, FALSE, {})
        PROVE  DirectInv'
    BY <1>3, DirectTurnEnds
  <1>4. ASSUME NEW i \in DOMAIN pending, Directed!TurnThrows(i) \/ Directed!TurnDrains(i)
        PROVE  DirectInv'
    BY <1>4, DirectTurnLeaves
  <1>5. CASE Directed!Finish
    BY <1>5, DirectFinish
  <1>6. CASE UNCHANGED Directed!direct
    BY <1>6 DEF DirectInv, DirectTyped, PlanKnown, Accounts, WorkersBusy, Over, Owed,
                Directed!direct, Directed!followVars
  <1> QED BY <1>1, <1>2, <1>3, <1>4, <1>5, <1>6 DEF Directed!Next

-----------------------------------------------------------------------------
(* The conversation that runs one of the engines *)

\* No step of a staged run changes its options.
LEMMA OptFixed == ASSUME [Next]_vars PROVE opt' = opt
  <1>1. CASE Starting
    BY <1>1 DEF Starting, StartOpening, OpenNext, TakeFloor, TakeMention, InviteFresh,
                ContinueAmbient, Synthesize, AskObjector, Reconcile, frame, runVars
  <1>2. CASE Ending
    <2>1. \E reason, isSettled : Finish(reason, isSettled)
      BY <1>2 DEF Ending, RunFails, FloorTaken, OpeningEnds, Resolve, SynthesisEnds,
         ObjectionBlocks, ObjectionsEnd, ReconciliationEnds
    <2> QED BY <2>1 DEF Finish
  <1>3. CASE Choosing
    BY <1>3 DEF Choosing, OpeningLeadsOn, SkipMention, StopFollowing, StopLooping,
                AskObjections, frame, runVars
  <1>4. CASE \E t \in running : \E r \in Returns(t) : Complete(t, r)
    BY <1>4 DEF Complete, runVars
  <1>5. CASE \E k \in 1..Len(Candidates) : OpenConcurrently(k)
    BY <1>5 DEF OpenConcurrently, frame, runVars
  <1>6. CASE OpeningsDone \/ OpenInTurn
    BY <1>6 DEF OpeningsDone, OpenInTurn, frame, runVars
  <1>7. CASE UNCHANGED vars
    BY <1>7 DEF vars, runVars
  <1> QED BY <1>1, <1>2, <1>3, <1>4, <1>5, <1>6, <1>7 DEF Next, Starting, Ending, Choosing

\* A step of performConversation is a step of one engine and leaves the other alone.
LEMMA EngineStep ==
    ASSUME [RunNext]_runAll
    PROVE  [Next]_vars /\ [Directed!Next]_(Directed!direct) /\ (plan' = plan)
  <1>1. CASE staged /\ Next /\ UNCHANGED <<staged, directVars>>
    BY <1>1 DEF directVars, Directed!direct, Directed!followVars
  <1>2. CASE ~staged /\ Directed!Next /\ UNCHANGED <<staged, vars>>
    <2>1. plan' = plan
      BY <1>2 DEF Directed!Next, Directed!Start, Directed!TurnEnds, Directed!TurnThrows,
                  Directed!TurnDrains, Directed!Finish
    <2> QED BY <1>2, <2>1
  <1>3. CASE UNCHANGED runAll
    BY <1>3 DEF runAll, directVars, Directed!direct, Directed!followVars
  <1> QED BY <1>1, <1>2, <1>3 DEF RunNext

\* performConversation does nothing that the engine it runs does not do: the composed
\* specification implements both.
THEOREM RunImplementsEngines == RunSpec => Spec /\ Directed!Spec
  <1>1. RunInit => Init /\ Directed!Init
    BY DEF RunInit
  <1>2. [RunNext]_runAll => [Next]_vars /\ [Directed!Next]_(Directed!direct)
    BY EngineStep
  <1> QED BY <1>1, <1>2, PTL DEF RunSpec, Spec, Directed!Spec

RunInv == DirectInv /\ plan = PlanOf(opt) /\ opt \in Options

\* The directed engine keeps its account under the allowance that was computed for it.
THEOREM RunInvAlways == RunSpec => []RunInv
  <1>1. RunInit => RunInv
    <2> SUFFICES ASSUME RunInit PROVE RunInv
      OBVIOUS
    <2>1. opt \in Options /\ plan = PlanOf(opt) /\ [staged |-> staged, opt |-> opt] \in Runs
      BY DEF RunInit, Init
    <2>2. PlanKnown
      BY <2>1 DEF PlanKnown
    <2> QED BY <2>1, <2>2, DirectInit DEF RunInit, RunInv
  <1>2. RunInv /\ [RunNext]_runAll => RunInv'
    <2> SUFFICES ASSUME RunInv, [RunNext]_runAll PROVE RunInv'
      OBVIOUS
    <2>1. DirectInv'
      BY EngineStep, DirectStep DEF RunInv
    <2>2. opt' = opt /\ plan' = plan
      BY EngineStep, OptFixed
    <2> QED BY <2>1, <2>2 DEF RunInv, PlanOf
  <1> QED BY <1>1, <1>2, PTL DEF RunSpec

\* Neither engine runs more turns than the policy of the conversation allows, and no
\* agent has two turns in a directed run.
THEOREM WithinPolicyHolds == RunSpec => []WithinPolicy
  <1>1. RunInv /\ WithinCeilings /\ NoMuteTurn => WithinPolicy
    <2> SUFFICES ASSUME RunInv, WithinCeilings, NoMuteTurn PROVE WithinPolicy
      OBVIOUS
    <2>1. opt.candidates \in Seq(Agents) /\ opt.turns \in Nat
      BY EnergyAssumption DEF RunInv, OptionRecord
    <2>2. Len(opt.candidates) \in Nat
      BY <2>1
    <2>3. /\ plan.turns = opt.candidates
          /\ plan.allowance = Larger(0, opt.turns - Len(opt.candidates))
      BY DEF RunInv, PlanOf
    <2>4. Directed!OneTurnEach
      BY DEF RunInv, DirectInv, Directed!OneTurnEach, Directed!IsInjective, IsInjective
    <2>5. CASE outcome = "not-started"
      <3>1. attempted = 0 /\ Len(queued) = 0
        BY <2>5 DEF RunInv, DirectInv, Accounts
      <3> QED BY <3>1, <2>1, <2>2, <2>4 DEF WithinPolicy, Larger
    <2>6. CASE outcome # "not-started"
      <3>1. /\ attempted + Len(queued) = Len(opt.candidates) + followUps
            /\ followUps \in Nat /\ followUps <= Larger(0, opt.turns - Len(opt.candidates))
        BY <2>3, <2>6 DEF RunInv, DirectInv, DirectTyped, Accounts
      <3>2. Len(opt.candidates) + followUps <= Larger(opt.turns, Len(opt.candidates))
        BY <3>1, <2>1, <2>2 DEF Larger
      <3> QED BY <3>1, <3>2, <2>4 DEF WithinPolicy
    <2> QED BY <2>5, <2>6
  <1> QED BY <1>1, RunImplementsEngines, RunInvAlways, BudgetKept, TurnsMaySpeak, PTL

\* The queue of the room is given back only when no turn of the conversation runs.
THEOREM NothingInFlightHolds == RunSpec => []NothingInFlight
  <1>1. RunInv /\ RunDrains => NothingInFlight
    BY DEF RunInv, DirectInv, Over, NothingInFlight, Directed!Drained, Directed!Ended
  <1> QED BY <1>1, RunImplementsEngines, RunInvAlways, EndsDrained, PTL

\* After a thrown, cancelled or settled turn neither engine starts what that forbids.
THEOREM StartsWhatItMayHolds == RunSpec => StartsWhatItMay
  <1>1. RunInv /\ [Directed!Next]_(Directed!direct) =>
            [thrown => attempted' = attempted]_(Directed!direct)
    <2> SUFFICES ASSUME RunInv, Directed!Next, thrown PROVE attempted' = attempted
      OBVIOUS
    <2>1. ~Directed!Start
      BY DEF RunInv, DirectInv, Accounts, Directed!Start
    <2> QED BY <2>1 DEF Directed!Next, Directed!TurnEnds, Directed!TurnThrows,
                        Directed!TurnDrains, Directed!Finish, Directed!followVars
  <1>2. RunSpec => Directed!NothingAfterThrow
    BY <1>1, RunImplementsEngines, RunInvAlways, PTL
       DEF Directed!Spec, Directed!NothingAfterThrow
  <1> QED BY <1>2, RunImplementsEngines, Stops, PTL DEF StartsWhatItMay

\* A directed run that ends with follow-ups left has asked everyone whom a reply named
\* and has put off nobody.
THEOREM MentionsFollowedHolds == RunSpec => []Directed!MentionsFollowed
  <1>1. RunInv => Directed!MentionsFollowed
    <2> SUFFICES ASSUME RunInv, outcome = "queue-exhausted"
                 PROVE  unanswered = {} /\ deferred = {}
      BY DEF Directed!MentionsFollowed
    <2>1. pending = << >> /\ queued = << >> /\ ~thrown /\ followUps < plan.allowance
      BY DEF RunInv, DirectInv, Over, Directed!Ended
    <2>2. ToSet(<< >>) = {}
      BY DEF ToSet
    <2> QED BY <2>1, <2>2 DEF RunInv, DirectInv, Owed
  <1> QED BY <1>1, RunInvAlways, PTL

-----------------------------------------------------------------------------
\* A set of natural numbers that is not empty has a least element.
LEMMA LeastExists ==
    ASSUME NEW I, I \subseteq Nat, I # {}
    PROVE  Min(I) \in I /\ \A y \in I : Min(I) <= y
  <1>1. \E x \in I : \A y \in I : ~(<<y, x>> \in OpToRel(<, Nat))
    BY NatLessThanWellFounded, WFMin
  <1>2. PICK x \in I : \A y \in I : ~(<<y, x>> \in OpToRel(<, Nat))
    BY <1>1
  <1>3. ASSUME NEW y \in I PROVE x <= y
    <2>1. <<y, x>> \in Nat \X Nat /\ <<y, x>>[1] = y /\ <<y, x>>[2] = x
      OBVIOUS
    <2>2. ~(y < x)
      BY <1>2, <2>1 DEF OpToRel
    <2> QED BY <2>2
  <1> QED BY <1>3 DEF Min

\* Where the first candidate that was not asked stands.
LEMMA FreshFacts ==
    ASSUME NEW S, remaining \in Seq(S), Fresh # 0
    PROVE  Fresh \in DOMAIN remaining
  <1> DEFINE I == {i \in 1..Len(remaining) : remaining[i] \notin invited}
  <1>1. I \subseteq Nat /\ I \subseteq DOMAIN remaining
    OBVIOUS
  <1>2. Fresh = IF I # {} THEN Min(I) ELSE 0
    BY DEF Fresh, SelectInSeq
  <1>3. I # {} => Min(I) \in I
    BY <1>1, LeastExists
  <1> QED BY <1>1, <1>2, <1>3

\* The floor is given to a candidate that was asked.
LEMMA FloorFacts ==
    ASSUME NEW S, Candidates \in Seq(S), invited # {}, invited \subseteq ToSet(Candidates)
    PROVE  FloorCandidate \in invited
  <1> DEFINE I == {i \in 1..Len(Candidates) : Candidates[i] \in invited}
  <1>1. I \subseteq Nat
    OBVIOUS
  <1>2. I # {}
    BY DEF ToSet
  <1>3. FloorCandidate = Candidates[Min(I)]
    BY <1>2 DEF FloorCandidate, SelectInSeq
  <1>4. Min(I) \in I
    BY <1>1, <1>2, LeastExists
  <1> QED BY <1>3, <1>4

-----------------------------------------------------------------------------
(* Who was named is asked *)

\* The phases up to the resolution; a run that has left them does not come back.
BeforeSynthesis ==
    phase \in {"start", "opening", "conversation-floor", "follow-up", "resolving"}

MentionRecord == [source : Agents, target : Agents, running : BOOLEAN]
TargetsOf(s) == {s[i].target : i \in DOMAIN s}

NamedTyped ==
    /\ opt \in Options /\ responseTurns \in Nat
    /\ remaining \in Seq(ToSet(Candidates)) /\ batch \in Seq(ToSet(Candidates))
    /\ invited \subseteq Agents
    /\ mentions \in Seq(MentionRecord) /\ pairReplies \in [Pairs -> Nat]

\* Whoever works, spoke last or has had a reply in a pair was asked.
Heard ==
    /\ phase \in {"start", "opening"} => invited \subseteq ToSet(Candidates)
    /\ \A t \in running : t.agent \in invited
    /\ responseTurns # 0 => last.agent \in invited
    /\ \A p \in Pairs : pairReplies[p] # 0 => p \subseteq invited

\* Whoever a visible message named was asked or is in the queue of mentions.
Queued ==
    /\ \A i \in DOMAIN mentions : mentions[i].source \in invited /\ responseTurns # 0
    /\ mentioned \subseteq invited \cup TargetsOf(mentions)

\* The loop is left with the queue empty, or with a reason to leave it.
LoopLeft ==
    phase = "resolving" =>
        /\ running = {} /\ ~concurrent
        /\ mentions = << >> \/ Exhausted \/ cancelled \/ settled

NamedInv == BeforeSynthesis => NamedTyped /\ Heard /\ Queued /\ LoopLeft

\* The candidates are participants.
LEMMA CandidatesAreAgents ==
    ASSUME opt \in Options
    PROVE  Candidates \in Seq(Agents) /\ ToSet(Candidates) \subseteq Agents
           /\ Candidates \in Seq(ToSet(Candidates)) /\ opt.mentionable \subseteq Agents
  <1>0. opt \in OptionRecord
    BY EnergyAssumption
  <1>1. Candidates \in Seq(Agents) /\ opt.mentionable \subseteq Agents
    BY <1>0 DEF OptionRecord
  <1>2. ToSet(Candidates) \subseteq Agents
    BY <1>1 DEF ToSet
  <1>3. \A i \in 1..Len(Candidates) : Candidates[i] \in ToSet(Candidates)
    BY <1>1 DEF ToSet
  <1>4. Candidates \in Seq(ToSet(Candidates))
    BY <1>1, <1>3
  <1> QED BY <1>1, <1>2, <1>4

\* Who the candidates are depends on the options alone.
LEMMA CandidatesFixed == ASSUME opt' = opt PROVE ToSet(Candidates)' = ToSet(Candidates)
  BY DEF ToSet

\* One element leaves a sequence.
LEMMA RemoveTyped ==
    ASSUME NEW S, NEW s \in Seq(S), NEW i \in DOMAIN s
    PROVE  RemoveAt(s, i) \in Seq(S)
  <1>1. SubSeq(s, 1, i - 1) \in Seq(S) /\ SubSeq(s, i + 1, Len(s)) \in Seq(S)
    OBVIOUS
  <1> QED BY <1>1, ConcatProperties DEF RemoveAt

\* The head leaves the queue of mentions.
LEMMA HeadLeaves ==
    ASSUME NEW s \in Seq(MentionRecord), s # << >>
    PROVE  /\ Head(s) \in MentionRecord /\ Tail(s) \in Seq(MentionRecord)
           /\ 1 \in DOMAIN s /\ Head(s) = s[1]
           /\ \A i \in DOMAIN Tail(s) : i + 1 \in DOMAIN s /\ Tail(s)[i] = s[i + 1]
           /\ TargetsOf(s) \subseteq {Head(s).target} \cup TargetsOf(Tail(s))
  <1>1. Len(s) \in Nat /\ DOMAIN s = 1..Len(s) /\ Len(s) # 0
    OBVIOUS
  <1>2. /\ Head(s) \in MentionRecord /\ Tail(s) \in Seq(MentionRecord)
        /\ 1 \in DOMAIN s /\ Head(s) = s[1] /\ Len(Tail(s)) = Len(s) - 1
        /\ DOMAIN Tail(s) = 1..(Len(s) - 1)
        /\ \A i \in 1..(Len(s) - 1) : Tail(s)[i] = s[i + 1]
    BY <1>1
  <1>3. \A i \in DOMAIN Tail(s) : i + 1 \in DOMAIN s /\ Tail(s)[i] = s[i + 1]
    BY <1>1, <1>2
  <1>4. ASSUME NEW i \in DOMAIN s
        PROVE  s[i].target \in {Head(s).target} \cup TargetsOf(Tail(s))
    <2>1. CASE i = 1
      BY <1>2, <2>1
    <2>2. CASE i # 1
      <3>1. i - 1 \in DOMAIN Tail(s) /\ Tail(s)[i - 1] = s[i]
        BY <1>1, <1>2, <2>2
      <3> QED BY <3>1 DEF TargetsOf
    <2> QED BY <2>1, <2>2
  <1> QED BY <1>2, <1>3, <1>4 DEF TargetsOf

\* A run starts with nobody named.
LEMMA NamedInit == Init => NamedInv
  <1> SUFFICES ASSUME Init PROVE NamedInv
    OBVIOUS
  <1>1. /\ opt \in Options /\ phase = "start" /\ ~concurrent /\ batch = << >>
        /\ remaining = Candidates /\ invited = {} /\ running = {} /\ mentions = << >>
        /\ pairReplies = [p \in Pairs |-> 0] /\ responseTurns = 0 /\ mentioned = {}
    BY DEF Init
  <1>2. NamedTyped
    BY <1>1, CandidatesAreAgents DEF NamedTyped
  <1>3. Heard /\ LoopLeft
    BY <1>1 DEF Heard, LoopLeft
  <1>4. Queued
    BY <1>1 DEF Queued
  <1> QED BY <1>2, <1>3, <1>4 DEF NamedInv

\* A step that starts no turn and changes no mention.
LEMMA NamedQuiet ==
    ASSUME NamedInv,
           UNCHANGED <<opt, responseTurns, visible, invited, running, mentions, pairReplies, last,
                       mentioned, cancelled, settled>>,
           BeforeSynthesis =>
                remaining' \in Seq(ToSet(Candidates)) /\ batch' \in Seq(ToSet(Candidates)),
           BeforeSynthesis' => BeforeSynthesis,
           phase' \in {"start", "opening"} => phase \in {"start", "opening"},
           phase' = "resolving" /\ BeforeSynthesis =>
                running = {} /\ ~concurrent'
                /\ (mentions = << >> \/ Exhausted \/ cancelled \/ settled)
    PROVE  NamedInv'
  <1> SUFFICES ASSUME BeforeSynthesis' PROVE NamedTyped' /\ Heard' /\ Queued' /\ LoopLeft'
    BY DEF NamedInv
  <1>1. BeforeSynthesis /\ NamedTyped /\ Heard /\ Queued /\ LoopLeft
    BY DEF NamedInv
  <1>2. NamedTyped'
    BY <1>1, CandidatesFixed DEF NamedTyped
  <1>3. Heard'
    BY <1>1, CandidatesFixed DEF Heard
  <1>4. Queued'
    BY <1>1 DEF Queued
  <1>5. Exhausted' = Exhausted
    BY CeilingsFixed DEF Exhausted
  <1>6. LoopLeft'
    BY <1>1, <1>5 DEF LoopLeft
  <1> QED BY <1>2, <1>3, <1>4, <1>6

\* A turn that starts: its agent is asked.
LEMMA NamedStart ==
    ASSUME NamedInv, BeforeSynthesis, BeforeSynthesis', NEW a \in Agents, NEW limit, NEW retry,
           Start(a, limit, retry), frame' = frame,
           remaining' \in Seq(ToSet(Candidates)), batch' \in Seq(ToSet(Candidates)),
           phase' \in {"start", "opening"} =>
                phase \in {"start", "opening"} /\ a \in ToSet(Candidates),
           phase' # "resolving",
           UNCHANGED <<mentions, pairReplies>>
    PROVE  NamedInv'
  <1>1. NamedTyped /\ Heard /\ Queued
    BY DEF NamedInv
  <1>2. /\ invited' = invited \cup {a} /\ UNCHANGED <<opt, responseTurns, last, mentioned>>
        /\ \A t \in running' : t \in running \/ t.agent = a
    BY DEF Start, frame, runVars, budgetVars, outcomeVars
  <1>3. NamedTyped'
    BY <1>1, <1>2, CandidatesFixed DEF NamedTyped
  <1>4. Heard'
    BY <1>1, <1>2, CandidatesFixed DEF Heard
  <1>5. Queued'
    BY <1>1, <1>2 DEF Queued
  <1> QED BY <1>3, <1>4, <1>5 DEF NamedInv, LoopLeft

\* An opening is one of the candidates.
LEMMA NamedOpening ==
    ASSUME NamedInv, StartOpening \/ OpenNext \/ TakeFloor
    PROVE  NamedInv'
  <1> SUFFICES ASSUME BeforeSynthesis' PROVE NamedInv'
    BY DEF NamedInv
  <1> DEFINE C == ToSet(Candidates)
  <1>0. BeforeSynthesis
    BY DEF StartOpening, OpenNext, TakeFloor, BeforeSynthesis
  <1>1. NamedTyped /\ Heard /\ LoopLeft
    BY <1>0 DEF NamedInv
  <1>2. C \subseteq Agents /\ Candidates \in Seq(C)
    BY <1>1, CandidatesAreAgents DEF NamedTyped
  <1> HIDE DEF C
  <1>3. /\ batch \in Seq(C) /\ remaining \in Seq(C)
        /\ batch # << >> => Head(batch) \in C /\ Tail(batch) \in Seq(C)
        /\ remaining # << >> => Head(remaining) \in C /\ Tail(remaining) \in Seq(C)
    <2>1. batch \in Seq(C) /\ remaining \in Seq(C)
      BY <1>1 DEF NamedTyped, C
    <2> QED BY <2>1
  <1>4. CASE StartOpening
    <2>1. /\ Start(Head(batch), openingLimit, FALSE) /\ batch # << >> /\ batch' = Tail(batch)
          /\ frame' = frame /\ phase' = phase /\ remaining' = remaining /\ concurrent
          /\ UNCHANGED <<mentions, pairReplies>>
      BY <1>4 DEF StartOpening, followVars
    <2>2. phase # "resolving"
      BY <1>1, <2>1 DEF LoopLeft
    <2>3. Head(batch) \in C /\ Head(batch) \in Agents /\ batch' \in Seq(C) /\ remaining' \in Seq(C)
      BY <1>2, <1>3, <2>1
    <2> QED BY <2>1, <2>2, <2>3, <1>0, NamedStart DEF C
  <1>5. CASE OpenNext
    <2>1. /\ frame' = frame /\ phase' = phase /\ batch' = batch /\ remaining # << >>
          /\ remaining' = Tail(remaining) /\ phase = "opening"
          /\ UNCHANGED <<mentions, pairReplies>>
          /\ \E limit : Start(Head(remaining), limit, FALSE)
      BY <1>5 DEF OpenNext, MoreOpenings, followVars, openVars
    <2>2. PICK limit : Start(Head(remaining), limit, FALSE)
      BY <2>1
    <2>3. /\ Head(remaining) \in C /\ Head(remaining) \in Agents
          /\ remaining' \in Seq(C) /\ batch' \in Seq(C)
      BY <1>2, <1>3, <2>1
    <2> QED BY <2>1, <2>2, <2>3, <1>0, NamedStart DEF C
  <1>6. CASE TakeFloor
    <2>1. /\ Start(FloorCandidate, 1, FALSE) /\ frame' = frame /\ phase = "opening"
          /\ phase' = "conversation-floor" /\ batch' = batch /\ remaining' = remaining
          /\ UNCHANGED <<mentions, pairReplies>> /\ invited # {}
      BY <1>6 DEF TakeFloor, TakesFloor, followVars, openVars
    <2>2. invited \subseteq C /\ Candidates \in Seq(C)
      BY <1>1, <1>2, <2>1 DEF Heard, C
    <2>3. FloorCandidate \in invited
      BY <2>1, <2>2, FloorFacts DEF C
    <2>4. FloorCandidate \in Agents /\ batch' \in Seq(C) /\ remaining' \in Seq(C)
      BY <1>2, <1>3, <2>1, <2>2, <2>3
    <2> HIDE DEF FloorCandidate
    <2> QED BY <2>1, <2>4, <1>0, NamedStart DEF C
  <1> QED BY <1>4, <1>5, <1>6

\* An invitation or a continuation is of a candidate.
LEMMA NamedInvitation ==
    ASSUME NamedInv, InviteFresh \/ ContinueAmbient
    PROVE  NamedInv'
  <1> DEFINE C == ToSet(Candidates)
  <1>1. /\ phase = "follow-up" /\ phase' = phase /\ Fresh # 0 /\ frame' = frame
        /\ remaining' = RemoveAt(remaining, Fresh) /\ batch' = batch
        /\ \E retry : Start(remaining[Fresh], 3, retry)
        /\ UNCHANGED <<mentions, pairReplies>>
    BY DEF InviteFresh, ContinueAmbient, NoInvitation, Looping, openVars
  <1>2. BeforeSynthesis /\ BeforeSynthesis' /\ NamedTyped
    BY <1>1 DEF NamedInv, BeforeSynthesis
  <1>3. C \subseteq Agents /\ remaining \in Seq(C) /\ batch' \in Seq(C)
    BY <1>1, <1>2, CandidatesAreAgents DEF NamedTyped
  <1> HIDE DEF C
  <1>4. Fresh \in DOMAIN remaining
    BY <1>1, <1>3, FreshFacts
  <1> HIDE DEF Fresh
  <1>5. remaining[Fresh] \in Agents /\ remaining' \in Seq(C)
    BY <1>1, <1>3, <1>4, RemoveTyped
  <1>6. PICK retry : Start(remaining[Fresh], 3, retry)
    BY <1>1
  <1> QED BY <1>1, <1>2, <1>3, <1>5, <1>6, NamedStart DEF C

\* What is known of the mention at the head of the queue.
LEMMA HeadMention ==
    ASSUME NamedInv, phase = "follow-up", mentions # << >>
    PROVE  LET m == Head(mentions) IN
           /\ m.source \in invited /\ m.target \in Agents /\ PairOf(m) \in Pairs
           /\ responseTurns # 0 /\ mentions' = Tail(mentions) =>
                /\ mentions' \in Seq(MentionRecord)
                /\ \A i \in DOMAIN mentions' : mentions'[i].source \in invited
                /\ mentioned \subseteq invited \cup {m.target} \cup TargetsOf(mentions')
           /\ responseTurns # 0
  <1>1. NamedTyped /\ Queued
    BY DEF NamedInv, BeforeSynthesis
  <1>2. mentions \in Seq(MentionRecord)
    BY <1>1, CandidatesFixed DEF NamedTyped
  <1>3. /\ Head(mentions) \in MentionRecord /\ Tail(mentions) \in Seq(MentionRecord)
        /\ 1 \in DOMAIN mentions /\ Head(mentions) = mentions[1]
        /\ \A i \in DOMAIN Tail(mentions) :
              i + 1 \in DOMAIN mentions /\ Tail(mentions)[i] = mentions[i + 1]
        /\ TargetsOf(mentions) \subseteq {Head(mentions).target} \cup TargetsOf(Tail(mentions))
    BY <1>2, HeadLeaves
  <1>4. Head(mentions).source \in Agents /\ Head(mentions).target \in Agents
    BY <1>3 DEF MentionRecord
  <1>5. PairOf(Head(mentions)) \in Pairs
    BY <1>4 DEF PairOf, Pairs
  <1>6. Head(mentions).source \in invited /\ responseTurns # 0
    BY <1>1, <1>3 DEF Queued
  <1>7. /\ \A i \in DOMAIN Tail(mentions) : Tail(mentions)[i].source \in invited
        /\ mentioned \subseteq invited \cup {Head(mentions).target} \cup TargetsOf(Tail(mentions))
    BY <1>1, <1>3 DEF Queued
  <1> QED BY <1>3, <1>4, <1>5, <1>6, <1>7

\* A mention is left out only when its target was asked.
LEMMA NamedSkip ==
    ASSUME NamedInv, SkipMention
    PROVE  NamedInv'
  <1> DEFINE m == Head(mentions)
  <1>1. /\ phase = "follow-up" /\ phase' = phase /\ mentions # << >> /\ Skipped(m)
        /\ mentions' = Tail(mentions)
        /\ UNCHANGED <<opt, responseTurns, invited, running, pairReplies, last, mentioned,
                       remaining, batch>>
    BY DEF SkipMention, Looping, frame, runVars, budgetVars, outcomeVars, openVars, inviteVars
  <1>2. NamedTyped /\ Heard
    BY <1>1 DEF NamedInv, BeforeSynthesis
  <1>3. /\ m.source \in invited /\ m.target \in Agents /\ PairOf(m) \in Pairs
        /\ responseTurns # 0 /\ mentions' \in Seq(MentionRecord)
        /\ \A i \in DOMAIN mentions' : mentions'[i].source \in invited
        /\ mentioned \subseteq invited \cup {m.target} \cup TargetsOf(mentions')
    BY <1>1, HeadMention
  <1> HIDE DEF m
  <1>4. m.target \in invited
    <2>1. CASE pairReplies[PairOf(m)] >= 2
      <3>1. pairReplies[PairOf(m)] # 0
        BY <2>1
      <3> QED BY <3>1, <1>2, <1>3 DEF Heard, PairOf
    <2>2. CASE last.agent = m.target
      BY <2>2, <1>2, <1>3 DEF Heard
    <2> QED BY <1>1, <2>1, <2>2 DEF Skipped
  <1>5. NamedTyped'
    BY <1>1, <1>2, <1>3, CandidatesFixed DEF NamedTyped
  <1>6. Heard'
    BY <1>1, <1>2, CandidatesFixed DEF Heard
  <1>7. Queued'
    BY <1>1, <1>3, <1>4 DEF Queued
  <1> QED BY <1>1, <1>5, <1>6, <1>7 DEF NamedInv, LoopLeft

\* A mention is followed: its target is asked, and the pair was.
LEMMA NamedTake ==
    ASSUME NamedInv, TakeMention
    PROVE  NamedInv'
  <1> DEFINE m == Head(mentions)
  <1>1. /\ phase = "follow-up" /\ phase' = phase /\ mentions # << >>
        /\ mentions' = Tail(mentions) /\ Start(m.target, 3, FALSE)
        /\ pairReplies' = [pairReplies EXCEPT ![PairOf(m)] = @ + 1]
        /\ UNCHANGED <<opt, responseTurns, last, mentioned, remaining, batch>>
    BY DEF TakeMention, Looping, frame, runVars, budgetVars, outcomeVars, openVars
  <1>2. NamedTyped /\ Heard
    BY <1>1 DEF NamedInv, BeforeSynthesis
  <1>3. /\ m.source \in invited /\ m.target \in Agents /\ PairOf(m) \in Pairs
        /\ responseTurns # 0 /\ mentions' \in Seq(MentionRecord)
        /\ \A i \in DOMAIN mentions' : mentions'[i].source \in invited
        /\ mentioned \subseteq invited \cup {m.target} \cup TargetsOf(mentions')
    BY <1>1, HeadMention
  <1> HIDE DEF m
  <1>4. /\ invited' = invited \cup {m.target}
        /\ \A t \in running' : t \in running \/ t.agent = m.target
    BY <1>1 DEF Start
  <1>5. pairReplies' \in [Pairs -> Nat]
    BY <1>1, <1>2, <1>3 DEF NamedTyped
  <1>6. \A p \in Pairs : pairReplies'[p] # 0 => p \subseteq invited'
    <2> SUFFICES ASSUME NEW p \in Pairs, pairReplies'[p] # 0 PROVE p \subseteq invited'
      OBVIOUS
    <2>1. CASE p = PairOf(m)
      BY <2>1, <1>3, <1>4 DEF PairOf
    <2>2. CASE p # PairOf(m)
      <3>1. pairReplies'[p] = pairReplies[p]
        BY <1>1, <1>2, <2>2 DEF NamedTyped
      <3> QED BY <3>1, <1>2, <1>4 DEF Heard
    <2> QED BY <2>1, <2>2
  <1>7. NamedTyped'
    BY <1>1, <1>2, <1>3, <1>4, <1>5, CandidatesFixed DEF NamedTyped
  <1>8. Heard'
    BY <1>1, <1>2, <1>4, <1>6, CandidatesFixed DEF Heard
  <1>9. Queued'
    BY <1>1, <1>3, <1>4 DEF Queued
  <1> QED BY <1>1, <1>7, <1>8, <1>9 DEF NamedInv, LoopLeft

-----------------------------------------------------------------------------
\* The mentions of a reply, as they enter the queue.
LEMMA NewMentions ==
    ASSUME NEW t, t.agent \in Agents, NEW r \in Returns(t), r.kind = "answered",
           opt \in Options
    PROVE  LET new == [i \in DOMAIN r.targets |->
                          [source |-> t.agent, target |-> r.targets[i],
                           running |-> \E u \in running : u.agent = r.targets[i]]]
           IN  new \in Seq(MentionRecord) /\ TargetsOf(new) = ToSet(r.targets)
               /\ \A i \in DOMAIN new : new[i].source = t.agent
  <1> DEFINE spoke(i) == \E u \in running : u.agent = r.targets[i]
             new == [i \in DOMAIN r.targets |->
                        [source |-> t.agent, target |-> r.targets[i], running |-> spoke(i)]]
  <1>1. r.targets \in {s \in UNION {[1..k -> opt.mentionable \ {t.agent}] : k \in 0..MaxMentions} :
                          IsInjective(s)}
    BY DEF Returns
  <1>2. PICK k \in 0..MaxMentions : r.targets \in [1..k -> opt.mentionable \ {t.agent}]
    BY <1>1
  <1>3. k \in Nat /\ DOMAIN r.targets = 1..k
    BY <1>2, EnergyAssumption
  <1>4. \A i \in 1..k : r.targets[i] \in Agents /\ spoke(i) \in BOOLEAN
    BY <1>2, CandidatesAreAgents
  <1> HIDE DEF spoke
  <1>5. \A i \in 1..k : new[i] = [source |-> t.agent, target |-> r.targets[i], running |-> spoke(i)]
    BY <1>3
  <1>6. DOMAIN new = 1..k
    BY <1>3
  <1>7. \A i \in 1..k : new[i] \in MentionRecord /\ new[i].source = t.agent
                        /\ new[i].target = r.targets[i]
    <2> SUFFICES ASSUME NEW i \in 1..k
                 PROVE  new[i] \in MentionRecord /\ new[i].source = t.agent
                        /\ new[i].target = r.targets[i]
      OBVIOUS
    <2>1. r.targets[i] \in Agents /\ spoke(i) \in BOOLEAN
      BY <1>4
    <2>2. \A b \in BOOLEAN : \A x \in Agents :
             [source |-> t.agent, target |-> x, running |-> b] \in MentionRecord
      BY DEF MentionRecord
    <2>3. [source |-> t.agent, target |-> r.targets[i], running |-> spoke(i)] \in MentionRecord
      BY <2>1, <2>2, Zenon
    <2> QED BY <1>5, <2>3
  <1>8. new \in [1..k -> MentionRecord]
    BY <1>3, <1>7
  <1> HIDE DEF new
  <1>9. new \in Seq(MentionRecord)
    BY <1>3, <1>8
  <1>10. TargetsOf(new) = ToSet(r.targets)
    BY <1>3, <1>6, <1>7 DEF TargetsOf, ToSet
  <1> QED BY <1>6, <1>7, <1>9, <1>10 DEF new, spoke

\* The targets of two queues, one after the other.
LEMMA ConcatTargets ==
    ASSUME NEW s \in Seq(MentionRecord), NEW u \in Seq(MentionRecord)
    PROVE  /\ s \o u \in Seq(MentionRecord)
           /\ TargetsOf(s \o u) = TargetsOf(s) \cup TargetsOf(u)
           /\ \A i \in DOMAIN (s \o u) : (s \o u)[i] \in ToSet(s) \cup ToSet(u)
  <1>1. s \o u \in Seq(MentionRecord) /\ ToSet(s \o u) = ToSet(s) \cup ToSet(u)
    BY ConcatProperties, ConcatSet
  <1>2. /\ TargetsOf(s) = {m.target : m \in ToSet(s)} /\ TargetsOf(u) = {m.target : m \in ToSet(u)}
        /\ TargetsOf(s \o u) = {m.target : m \in ToSet(s \o u)}
    BY DEF TargetsOf, ToSet
  <1>3. \A i \in DOMAIN (s \o u) : (s \o u)[i] \in ToSet(s \o u)
    BY DEF ToSet
  <1> QED BY <1>1, <1>2, <1>3

\* The end of a turn: whom it named enters the queue.
LEMMA NamedComplete ==
    ASSUME NamedInv, NEW t \in running, NEW r \in Returns(t), Complete(t, r)
    PROVE  NamedInv'
  <1> SUFFICES ASSUME BeforeSynthesis' PROVE NamedInv'
    BY DEF NamedInv
  <1>1. /\ UNCHANGED <<opt, phase, concurrent, invited, remaining, batch, pairReplies>>
        /\ running' \subseteq running
    BY DEF Complete, runVars, openVars, inviteVars
  <1>2. NamedTyped /\ Heard /\ Queued /\ LoopLeft
    BY <1>1 DEF NamedInv, BeforeSynthesis
  <1>3. phase # "resolving" /\ t.agent \in invited /\ t.agent \in Agents
    BY <1>2 DEF LoopLeft, Heard, NamedTyped
  <1>4. LoopLeft'
    BY <1>1, <1>3 DEF LoopLeft
  <1>5. CASE r.kind = "answered"
    <2> DEFINE new == [i \in DOMAIN r.targets |->
                          [source |-> t.agent, target |-> r.targets[i],
                           running |-> \E u \in running : u.agent = r.targets[i]]]
    <2>1. /\ responseTurns' = responseTurns + 1 /\ mentions' = mentions \o new
          /\ last' = [agent |-> t.agent, state |-> r.state, worthy |-> r.worthy]
          /\ mentioned' = mentioned \cup ToSet(r.targets)
      BY <1>5 DEF Complete, Answered
    <2>2. new \in Seq(MentionRecord) /\ TargetsOf(new) = ToSet(r.targets)
          /\ \A i \in DOMAIN new : new[i].source = t.agent
      BY <1>2, <1>3, <1>5, NewMentions DEF NamedTyped
    <2> HIDE DEF new
    <2>3. /\ mentions' \in Seq(MentionRecord)
          /\ TargetsOf(mentions') = TargetsOf(mentions) \cup TargetsOf(new)
          /\ \A i \in DOMAIN mentions' : mentions'[i] \in ToSet(mentions) \cup ToSet(new)
      BY <1>2, <2>1, <2>2, ConcatTargets DEF NamedTyped
    <2>4. \A m \in ToSet(mentions) \cup ToSet(new) : m.source \in invited
      BY <1>2, <1>3, <2>2 DEF Queued, ToSet
    <2>5. last'.agent = t.agent /\ responseTurns' \in Nat /\ responseTurns' # 0
      BY <1>2, <2>1 DEF NamedTyped
    <2>6. NamedTyped'
      BY <1>1, <1>2, <2>3, <2>5, CandidatesFixed DEF NamedTyped
    <2>7. Heard'
      BY <1>1, <1>2, <1>3, <2>5, CandidatesFixed DEF Heard
    <2>8. Queued'
      BY <1>1, <1>2, <2>1, <2>2, <2>3, <2>4, <2>5 DEF Queued
    <2> QED BY <1>4, <2>6, <2>7, <2>8 DEF NamedInv
  <1>6. CASE r.kind # "answered"
    <2>1. UNCHANGED <<responseTurns, mentions, last, mentioned>>
      BY <1>6 DEF Complete, Silent
    <2>2. NamedTyped'
      BY <1>1, <1>2, <2>1, CandidatesFixed DEF NamedTyped
    <2>3. Heard'
      BY <1>1, <1>2, <2>1, CandidatesFixed DEF Heard
    <2>4. Queued'
      BY <1>1, <1>2, <2>1 DEF Queued
    <2> QED BY <1>4, <2>2, <2>3, <2>4 DEF NamedInv
  <1> QED BY <1>5, <1>6

\* Concurrent openings divide the candidates.
LEMMA NamedOpenConcurrently ==
    ASSUME NamedInv, NEW k \in 1..Len(Candidates), OpenConcurrently(k)
    PROVE  NamedInv'
  <1> DEFINE C == ToSet(Candidates)
  <1>1. /\ UNCHANGED <<opt, responseTurns, visible, invited, running, mentions, pairReplies, last,
                       mentioned, cancelled, settled>>
        /\ phase = "start" /\ phase' = "opening" /\ remaining # << >>
        /\ batch' = SubSeq(remaining, 1, k)
        /\ remaining' = SubSeq(remaining, k + 1, Len(remaining))
        /\ k <= Len(remaining)
    <2>1. NamedTyped
      BY DEF NamedInv, BeforeSynthesis, OpenConcurrently
    <2>2. Len(remaining) \in Nat /\ ParticipantLimit \in Nat
      BY <2>1, EnergyAssumption DEF NamedTyped, ParticipantLimit, OptionRecord
    <2>3. k <= Len(remaining)
      BY <2>2 DEF OpenConcurrently, Smaller, Larger
    <2> QED BY <2>3 DEF OpenConcurrently, frame, runVars, budgetVars, flagVars, outcomeVars
  <1>2. BeforeSynthesis /\ remaining \in Seq(C)
    BY <1>1 DEF NamedInv, BeforeSynthesis, NamedTyped
  <1> HIDE DEF C
  <1>3. batch' \in Seq(C) /\ remaining' \in Seq(C)
    BY <1>1, <1>2
  <1>4. phase' \in {"start", "opening"} => phase \in {"start", "opening"}
    BY <1>1
  <1>5. phase' # "resolving"
    BY <1>1
  <1> QED BY <1>1, <1>2, <1>3, <1>4, <1>5, NamedQuiet DEF C

\* The steps that start no turn and name nobody.
LEMMA NamedOther ==
    ASSUME NamedInv, OpeningsDone \/ OpenInTurn \/ OpeningLeadsOn \/ StopFollowing \/ StopLooping
    PROVE  NamedInv'
  <1>1. /\ UNCHANGED <<opt, responseTurns, visible, invited, running, mentions, pairReplies, last,
                       mentioned, cancelled, settled, remaining, batch>>
    BY DEF OpeningsDone, OpenInTurn, OpeningLeadsOn, StopFollowing, StopLooping, frame, runVars,
       budgetVars, flagVars, outcomeVars, openVars, inviteVars, followVars
  <1>2. /\ BeforeSynthesis' => BeforeSynthesis
        /\ phase' \in {"start", "opening"} => phase \in {"start", "opening"}
    BY DEF OpeningsDone, OpenInTurn, OpeningLeadsOn, StopFollowing, StopLooping, NoInvitation,
       Looping, BeforeSynthesis
  <1>3. BeforeSynthesis => remaining' \in Seq(ToSet(Candidates)) /\ batch' \in Seq(ToSet(Candidates))
    BY <1>1 DEF NamedInv, NamedTyped
  <1>4. ASSUME phase' = "resolving", BeforeSynthesis
        PROVE  running = {} /\ ~concurrent'
               /\ (mentions = << >> \/ Exhausted \/ cancelled \/ settled)
    <2>1. CASE OpeningsDone
      BY <2>1, <1>4 DEF OpeningsDone, NamedInv, LoopLeft
    <2>2. CASE OpenInTurn \/ OpeningLeadsOn
      BY <2>2, <1>4 DEF OpenInTurn, OpeningLeadsOn
    <2>3. CASE StopFollowing
      BY <2>3 DEF StopFollowing, NoInvitation, Looping, Idle, openVars
    <2>4. CASE StopLooping
      BY <2>4 DEF StopLooping, Idle, openVars
    <2> QED BY <2>1, <2>2, <2>3, <2>4
  <1> QED BY <1>1, <1>2, <1>3, <1>4, NamedQuiet

\* An end of the run, and the steps of the convergence.
LEMMA NamedLater ==
    ASSUME NamedInv,
           \/ Ending \/ AskObjections \/ UNCHANGED vars
           \/ Synthesize \/ AskObjector \/ Reconcile
    PROVE  NamedInv'
  <1>1. CASE Ending
    <2>1. \E reason, isSettled : Finish(reason, isSettled)
      BY <1>1 DEF Ending, RunFails, FloorTaken, OpeningEnds, Resolve, SynthesisEnds,
         ObjectionBlocks, ObjectionsEnd, ReconciliationEnds
    <2>2. UNCHANGED <<opt, responseTurns, visible, invited, running, mentions, pairReplies, last,
                      mentioned, cancelled, settled, remaining, batch, phase, concurrent>>
      BY <2>1 DEF Finish, budgetVars, flagVars, outcomeVars, openVars, inviteVars, followVars
    <2> QED BY <2>2, NamedQuiet DEF NamedInv, NamedTyped, LoopLeft, BeforeSynthesis
  <1>2. CASE UNCHANGED vars
    <2>2. UNCHANGED <<opt, responseTurns, visible, invited, running, mentions, pairReplies, last,
                      mentioned, cancelled, settled, remaining, batch, phase, concurrent>>
      BY <1>2 DEF vars, runVars, budgetVars, flagVars, outcomeVars, openVars, inviteVars, followVars
    <2> QED BY <2>2, NamedQuiet DEF NamedInv, NamedTyped, LoopLeft, BeforeSynthesis
  <1>3. CASE AskObjections \/ Synthesize \/ AskObjector \/ Reconcile
    <2>1. ~BeforeSynthesis'
      BY <1>3 DEF AskObjections, Synthesize, AskObjector, Reconcile, Asking, BeforeSynthesis
    <2> QED BY <2>1 DEF NamedInv
  <1> QED BY <1>1, <1>2, <1>3

\* Every step keeps whom was named in the queue or among the asked.
LEMMA NamedStep == ASSUME NamedInv, [Next]_vars PROVE NamedInv'
  <1>1. CASE \E t \in running : \E r \in Returns(t) : Complete(t, r)
    BY <1>1, NamedComplete
  <1>2. CASE \E k \in 1..Len(Candidates) : OpenConcurrently(k)
    BY <1>2, NamedOpenConcurrently
  <1>3. CASE StartOpening \/ OpenNext \/ TakeFloor
    BY <1>3, NamedOpening
  <1>4. CASE OpeningsDone \/ OpenInTurn \/ OpeningLeadsOn \/ StopFollowing \/ StopLooping
    BY <1>4, NamedOther
  <1>5. CASE InviteFresh \/ ContinueAmbient
    BY <1>5, NamedInvitation
  <1>6. CASE TakeMention
    BY <1>6, NamedTake
  <1>7. CASE SkipMention
    BY <1>7, NamedSkip
  <1>8. CASE \/ Ending \/ AskObjections \/ UNCHANGED vars
             \/ Synthesize \/ AskObjector \/ Reconcile
    BY <1>8, NamedLater
  <1> QED BY <1>1, <1>2, <1>3, <1>4, <1>5, <1>6, <1>7, <1>8 DEF Next, Ending

\* A staged run that reaches its resolution with budget left has asked everyone whom a
\* visible message of runEnergyConversation named.
THEOREM AddressedHolds == Spec => []AddressedAreAsked
  <1>1. NamedInv => AddressedAreAsked
    <2> SUFFICES ASSUME NamedInv, phase = "resolving", ~Exhausted, ~cancelled, ~settled
                 PROVE  mentioned \subseteq invited
      BY DEF AddressedAreAsked
    <2>1. mentions = << >> /\ mentioned \subseteq invited \cup TargetsOf(mentions)
      BY DEF NamedInv, BeforeSynthesis, LoopLeft, Queued
    <2> QED BY <2>1 DEF TargetsOf
  <1> QED BY <1>1, NamedInit, NamedStep, PTL DEF Spec

\* Whomever a visible reply names is asked, in both engines of performConversation.
THEOREM NamedAreAskedHolds == RunSpec => []NamedAreAsked
  <1>1. AddressedAreAsked /\ Directed!MentionsFollowed => NamedAreAsked
    BY DEF NamedAreAsked
  <1> QED BY <1>1, RunImplementsEngines, AddressedHolds, MentionsFollowedHolds, PTL
=============================================================================
