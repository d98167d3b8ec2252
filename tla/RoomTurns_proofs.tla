--------------------------- MODULE RoomTurns_proofs ---------------------------
(***************************************************************************)
(* Proofs about the room: its turns, and the event stream that shows it to *)
(* a browser (from "The event stream" on).                                 *)
(*                                                                         *)
(* RoomTurns for any set of participants and messages and any bound. The   *)
(* inductive invariant relates the revision a turn captured to what the    *)
(* room announced: a turn whose revision is still the current one has      *)
(* everything announced so far in its prompt. Every interruption moves the *)
(* revision beyond those of all turns, so it makes the relation vacuous    *)
(* exactly when it would fail.                                             *)
(***************************************************************************)
EXTENDS RoomTurns, RoomProtocol, SequenceTheorems, WellFoundedInduction, TLAPS

-----------------------------------------------------------------------------
(* Types *)

\* A step of one turn leaves the turns a sequence of the same length.
LEMMA TurnUpdated ==
    ASSUME NEW turns \in Seq(TurnRecord), NEW t \in DOMAIN turns, NEW r \in TurnRecord
    PROVE  /\ [turns EXCEPT ![t] = r] \in Seq(TurnRecord)
           /\ Len([turns EXCEPT ![t] = r]) = Len(turns)
           /\ DOMAIN [turns EXCEPT ![t] = r] = DOMAIN turns
  OBVIOUS

\* The fields that are read below, and what assignments to other fields leave.
LEMMA TurnFields ==
    ASSUME NEW r \in TurnRecord
    PROVE  r.rev \in Nat /\ r.seen \in Nat /\ r.topic \in Nat /\ r.written \in Nat
  BY DEF TurnRecord

\* What a turn captured of the topic does not depend on where the turn is.
LEMMA CaptureKept ==
    ASSUME NEW r \in TurnRecord, NEW pc, NEW n
    PROVE  LET same(s) == s.rev = r.rev /\ s.seen = r.seen /\ s.topic = r.topic
           IN  /\ same([r EXCEPT !.pc = pc])
               /\ same([r EXCEPT !.pc = pc, !.written = n])
               /\ same([r EXCEPT !.pc = pc, !.size = n])
  BY DEF TurnRecord

\* Every turn is a turn record.
LEMMA TurnTyped ==
    ASSUME turn \in Seq(TurnRecord), NEW t \in DOMAIN turn
    PROVE  turn[t] \in TurnRecord
  OBVIOUS

\* Moving a turn to another position keeps its type, and so does posting.
LEMMA GotoTyped ==
    ASSUME turn \in Seq(TurnRecord), NEW t \in DOMAIN turn,
           NEW pc \in Awaiting \cup Ended, Goto(t, pc)
    PROVE  turn' \in Seq(TurnRecord) /\ Len(turn') = Len(turn)
  <1>1. turn' = [turn EXCEPT ![t] = [turn[t] EXCEPT !.pc = pc]]
    BY DEF Goto
  <1>2. [turn[t] EXCEPT !.pc = pc] \in TurnRecord
    BY TurnTyped DEF TurnRecord
  <1> QED BY <1>1, <1>2, TurnUpdated

\* Posting a message keeps the type of the turns.
LEMMA PostTyped ==
    ASSUME turn \in Seq(TurnRecord), NEW t \in DOMAIN turn, Post(t)
    PROVE  turn' \in Seq(TurnRecord) /\ Len(turn') = Len(turn)
  <1>1. turn' = [turn EXCEPT ![t] = [turn[t] EXCEPT !.pc = "posting",
                                                    !.written = turn[t].written + 1]]
    BY DEF Post
  <1>2. turn[t] \in TurnRecord
    BY TurnTyped
  <1>3. \A n \in Nat : [turn[t] EXCEPT !.pc = "posting", !.written = n] \in TurnRecord
    BY <1>2 DEF TurnRecord, Awaiting
  <1>4. turn[t].written + 1 \in Nat
    BY <1>2, TurnFields
  <1> QED BY <1>1, <1>3, <1>4, TurnUpdated

\* A job that starts has the type of a job.
LEMMA StartsTyped ==
    ASSUME consumed \in Nat, stored \in Nat, NEW key \in Keys, Starts(key)
    PROVE  job' \in JobRecord /\ consumed' \in Nat
  <1>1. job' = [key |-> key, failed |-> FALSE]
    BY DEF Starts
  <1>2. [key |-> key, failed |-> FALSE] \in JobRecord
    BY DEF JobRecord
  <1>3. consumed' \in Nat
    BY DEF Starts
  <1> QED BY <1>1, <1>2, <1>3

\* What the queue holds stays a sequence of keys when a request is admitted.
LEMMA EnqueueTyped ==
    ASSUME pending \in Seq(Keys), job \in JobRecord, consumed \in Nat, stored \in Nat,
           NEW key \in Keys, Enqueue(key)
    PROVE  pending' \in Seq(Keys) /\ job' \in JobRecord /\ consumed' \in Nat
  <1>1. CASE closed \/ (~Idle /\ key \in ToSet(pending))
    BY <1>1 DEF Enqueue
  <1>2. CASE ~(closed \/ (~Idle /\ key \in ToSet(pending)))
    <2> DEFINE waiting == Append(pending, key)
    <2>0. waiting \in Seq(Keys) /\ Len(waiting) = Len(pending) + 1 /\ Len(pending) \in Nat
      OBVIOUS
    <2>1. waiting # << >> /\ Head(waiting) \in Keys /\ Tail(waiting) \in Seq(Keys)
      <3> HIDE DEF waiting
      <3>1. waiting # << >>
        BY <2>0
      <3> QED BY <2>0, <3>1
    <2>2. \/ Starts(Head(waiting)) /\ pending' = Tail(waiting)
          \/ pending' = waiting /\ UNCHANGED <<job, consumed>>
      BY <1>2 DEF Enqueue
    <2> HIDE DEF waiting
    <2> QED BY <2>0, <2>1, <2>2, StartsTyped
  <1> QED BY <1>1, <1>2

\* The key of a message is a key of the queue.
LEMMA KeyTyped == \A m \in Messages : KeyOf(m) \in Keys /\ KeyOf(m) \in MessageKeys
  BY DEF KeyOf, Keys, MessageKeys

\* The initial state has the declared types.
LEMMA TypeInit == Init => TypeOK
  <1> SUFFICES ASSUME Init PROVE TypeOK
    OBVIOUS
  <1>1. job \in JobRecord
    BY DEF Init, NoJob, JobRecord
  <1>2. turn \in Seq(TurnRecord) /\ pending \in Seq(Keys) /\ Len(turn) = 0
    BY DEF Init
  <1>3. session \in [Agents -> 0..Len(turn)]
    BY <1>2 DEF Init
  <1> QED BY <1>1, <1>2, <1>3 DEF Init, TypeOK

\* Every step keeps the declared types.
LEMMA TypeStep == TypeOK /\ [Next]_vars => TypeOK'
  <1> SUFFICES ASSUME TypeOK, [Next]_vars PROVE TypeOK'
    OBVIOUS
  <1> USE DEF TypeOK
  <1>1. ASSUME NEW m \in Messages, ReceiveRoomMessage(m) PROVE TypeOK'
    BY <1>1 DEF ReceiveRoomMessage, Stores, roomVars, queueVars, agentVars
  <1>2. ASSUME NEW m \in Messages, AnnounceRoomMessage(m) PROVE TypeOK'
    <2>1. CASE m \in Continuations
      <3>1. route' \in [Messages -> {"new", "stored", "announced", "queued", "dropped"}]
        BY <1>2, <2>1 DEF AnnounceRoomMessage
      <3> QED BY <1>2, <2>1, <3>1 DEF AnnounceRoomMessage, roomVars, queueVars, agentVars
    <2>2. CASE m \notin Continuations
      <3>1. Enqueue(KeyOf(m)) /\ KeyOf(m) \in Keys
        BY <1>2, <2>2, KeyTyped DEF AnnounceRoomMessage
      <3>2. /\ pending' \in Seq(Keys) /\ consumed' \in Nat
            /\ job' \in JobRecord
        BY <3>1, EnqueueTyped
      <3>3. route' \in [Messages -> {"new", "stored", "announced", "queued", "dropped"}]
        BY <1>2, <2>2 DEF AnnounceRoomMessage
      <3> QED BY <1>2, <2>2, <3>2, <3>3 DEF AnnounceRoomMessage, roomVars, agentVars
    <2> QED BY <2>1, <2>2
  <1>3. ASSUME NEW m \in Messages, ReceiveDeveloperMessage(m) PROVE TypeOK'
    BY <1>3 DEF ReceiveDeveloperMessage, Stores, roomVars, queueVars, agentVars
  <1>4. ASSUME NEW m \in Messages, EnqueueConversation(m) PROVE TypeOK'
    <2>1. Enqueue(KeyOf(m)) /\ KeyOf(m) \in Keys
      BY <1>4, KeyTyped DEF EnqueueConversation
    <2>2. /\ pending' \in Seq(Keys) /\ consumed' \in Nat
          /\ job' \in JobRecord
      BY <2>1, EnqueueTyped
    <2> QED BY <1>4, <2>2 DEF EnqueueConversation, roomVars, agentVars
  <1>5. ASSUME NEW m \in Messages, RouteThrows(m) PROVE TypeOK'
    BY <1>5 DEF RouteThrows, roomVars, queueVars, agentVars
  <1>6. CASE RoomAction
    <2>1. Enqueue("action") /\ "action" \in Keys
      BY <1>6 DEF RoomAction, Keys
    <2>2. /\ pending' \in Seq(Keys) /\ consumed' \in Nat
          /\ job' \in JobRecord
      BY <2>1, EnqueueTyped
    <2> QED BY <1>6, <2>2 DEF RoomAction, roomVars, agentVars
  <1>7. CASE ChangeTopic
    BY <1>7 DEF ChangeTopic, queueVars
  <1>8. ASSUME NEW a \in Agents, NEW on \in BOOLEAN, NEW reconfigured \in BOOLEAN,
               EditRoster(a, on, reconfigured)
        PROVE  TypeOK'
    BY <1>8 DEF EditRoster, queueVars
  <1>9. CASE CloseQueue
    BY <1>9 DEF CloseQueue, roomVars, agentVars
  <1>10. CASE InterruptAtShutdown
    BY <1>10 DEF InterruptAtShutdown, roomVars, agentVars
  <1>11. CASE JobEnds
    <2>1. job' \in JobRecord /\ pending' \in Seq(Keys) /\ consumed' \in Nat
      <3>1. CASE pending = << >>
        <4>1. NoJob \in JobRecord
          BY DEF NoJob, JobRecord
        <4> QED BY <1>11, <3>1, <4>1 DEF JobEnds
      <3>2. CASE pending # << >>
        <4>1. Head(pending) \in Keys /\ Tail(pending) \in Seq(Keys)
          BY <3>2
        <4> QED BY <1>11, <3>2, <4>1, StartsTyped DEF JobEnds
      <3> QED BY <3>1, <3>2
    <2> QED BY <1>11, <2>1 DEF JobEnds, roomVars, agentVars
  <1>15. CASE StatusThrows
    <2>1. job' \in JobRecord
      BY <1>15 DEF StatusThrows, JobRecord
    <2> QED BY <1>15, <2>1 DEF StatusThrows, roomVars, agentVars
  <1>16. CASE ReportFails
    <2>1. job' \in JobRecord
      BY <1>16 DEF ReportFails, Rejected, JobRecord
    <2> QED BY <1>16, <2>1 DEF ReportFails, roomVars, agentVars
  <1>12. ASSUME NEW a \in Agents, StartTurn(a) PROVE TypeOK'
    <2> DEFINE r == [agent |-> a, pc |-> "generating", rev |-> revision, seen |-> stored,
                     roster |-> roster, topic |-> topic, size |-> 0, written |-> 0]
    <2>1. r \in TurnRecord
      BY DEF TurnRecord, Awaiting
    <2>2. turn' = Append(turn, r)
      BY <1>12 DEF StartTurn
    <2>3. turn' \in Seq(TurnRecord) /\ Len(turn') = Len(turn) + 1
      BY <2>1, <2>2 DEF TurnRecord
    <2>4. session' \in [Agents -> 0..Len(turn')]
      BY <1>12, <2>3 DEF StartTurn, agentVars
    <2> QED BY <1>12, <2>3, <2>4 DEF StartTurn, routeFrame, roomVars, agentVars, TurnRecord
  <1>13. ASSUME NEW t \in DOMAIN turn, TurnStep(t) \/ InvalidateSession(t) \/ TurnThrows(t)
         PROVE  TypeOK'
    <2>0. turn[t] \in TurnRecord /\ t \in 1..Len(turn) /\ turn[t].agent \in Agents
      <3>1. turn[t] \in TurnRecord
        BY <1>13, TurnTyped
      <3>2. t \in 1..Len(turn)
        BY <1>13
      <3> QED BY <3>1, <3>2 DEF TurnRecord
    <2>1. /\ turn' \in Seq(TurnRecord) /\ Len(turn') = Len(turn)
      <3>1. \A pc \in Awaiting \cup Ended : Goto(t, pc) =>
               turn' \in Seq(TurnRecord) /\ Len(turn') = Len(turn)
        BY <1>13, GotoTyped
      <3>2. Post(t) => turn' \in Seq(TurnRecord) /\ Len(turn') = Len(turn)
        BY <1>13, PostTyped
      <3>3. ASSUME NEW n \in 0..MaxBurst, Generated(t, n)
            PROVE  turn' \in Seq(TurnRecord) /\ Len(turn') = Len(turn)
        <4>1. turn' = [turn EXCEPT ![t] = [turn[t] EXCEPT !.pc = "generated", !.size = n]]
          BY <3>3 DEF Generated
        <4>2. n \in Nat
          BY RoomTurnsAssumption
        <4>3. [turn[t] EXCEPT !.pc = "generated", !.size = n] \in TurnRecord
          BY <2>0, <4>2 DEF TurnRecord, Awaiting
        <4> QED BY <4>1, <4>3, TurnUpdated
      <3>4. CASE GenerationFails(t)
        BY <3>1, <3>4 DEF GenerationFails, Ended
      <3>5. CASE Interpret(t)
        BY <3>1, <3>5 DEF Interpret, Ended, Awaiting
      <3>6. CASE Pace(t)
        BY <3>1, <3>2, <3>6 DEF Pace, Ended, Awaiting
      <3>7. CASE SessionSaved(t)
        BY <3>1, <3>2, <3>7 DEF SessionSaved, Ended
      <3>8. CASE MessagePosted(t)
        BY <3>1, <3>8 DEF MessagePosted, Ended, Awaiting
      <3>9. CASE QuietSaved(t)
        BY <3>1, <3>9 DEF QuietSaved, Ended, Awaiting
      <3>10. CASE QuietClosed(t)
        BY <3>1, <3>10 DEF QuietClosed, Ended
      <3>11. CASE InvalidateSession(t)
        BY <2>0, <3>11 DEF InvalidateSession
      <3>12. CASE TurnThrows(t)
        BY <3>1, <3>12 DEF TurnThrows, Ended
      <3> QED BY <1>13, <3>3, <3>4, <3>5, <3>6, <3>7, <3>8, <3>9, <3>10, <3>11, <3>12
              DEF TurnStep
    <2>2. session' \in [Agents -> 0..Len(turn)]
      <3>1. Forget(t) => session' \in [Agents -> 0..Len(turn)]
        BY <2>0 DEF Forget
      <3>2. KeepSession(t) => session' \in [Agents -> 0..Len(turn)]
        BY <2>0 DEF KeepSession
      <3> QED BY <1>13, <3>1, <3>2
              DEF TurnStep, Generated, GenerationFails, Interpret, Pace, SessionSaved,
                  MessagePosted, QuietSaved, QuietClosed, InvalidateSession, TurnThrows, agentVars
    <2>3. /\ UNCHANGED routeFrame /\ revision' \in Nat /\ failures' \in Nat
          /\ job' = job \/ job' = [job EXCEPT !.failed = TRUE]
      <3>1. CASE TurnStep(t) \/ InvalidateSession(t)
        <4>1. UNCHANGED <<routeFrame, revision, job, failures>>
          BY <3>1 DEF TurnStep, Generated, GenerationFails, Interpret, Pace, SessionSaved,
                      MessagePosted, QuietSaved, QuietClosed, InvalidateSession
        <4> QED BY <4>1
      <3>2. CASE TurnThrows(t)
        BY <3>2 DEF TurnThrows
      <3> QED BY <1>13, <3>1, <3>2
    <2>4. job' \in JobRecord
      BY <2>3 DEF JobRecord
    <2>5. cursor' \in [Agents -> Nat]
      <3>1. AdvanceCursor(t) => cursor' \in [Agents -> Nat]
        <4>1. turn[t].seen \in Nat
          BY <2>0 DEF TurnRecord
        <4> QED BY <4>1 DEF AdvanceCursor
      <3> QED BY <1>13, <3>1
              DEF TurnStep, Generated, GenerationFails, Interpret, Pace, SessionSaved,
                  MessagePosted, QuietSaved, QuietClosed, InvalidateSession, TurnThrows, agentVars
    <2> QED BY <2>1, <2>2, <2>3, <2>4, <2>5 DEF routeFrame, roomVars
  <1>14. CASE UNCHANGED vars
    BY <1>14 DEF vars, roomVars, queueVars, agentVars
  <1> QED BY <1>1, <1>2, <1>3, <1>4, <1>5, <1>6, <1>7, <1>8, <1>9, <1>10, <1>11, <1>12,
             <1>13, <1>14, <1>15, <1>16 DEF Next

\* Every variable of the room keeps the type the code gives it.
THEOREM TypeCorrect == Spec => []TypeOK
  <1> QED BY TypeInit, TypeStep, PTL DEF Spec

-----------------------------------------------------------------------------
(* A turn whose revision is current was told everything that was announced *)

\* What a step keeps of the turns there were: all but position and progress.
SameCapture(t) ==
    /\ t \in DOMAIN turn'
    /\ turn'[t].rev = turn[t].rev /\ turn'[t].seen = turn[t].seen
    /\ turn'[t].topic = turn[t].topic

\* No turn that ended is at work again, and none starts.
NoneRevives == Active' \subseteq Active

Heard(t) ==
    /\ turn[t].topic = topic
    /\ \A m \in Messages : Announced(m) => place[m] <= turn[t].seen

Captured == \A t \in DOMAIN turn : turn[t].rev <= revision
InTranscript == \A m \in Messages : place[m] <= stored
CurrentHeard == \A t \in DOMAIN turn : Current(t) => Heard(t)
FailedIsStale == job.failed => \A t \in Active : turn[t].rev < revision

HeardInv == TypeOK /\ Captured /\ InTranscript /\ CurrentHeard /\ FailedIsStale

\* Initially nobody has missed anything.
LEMMA HeardInit == Init => HeardInv
  <1> SUFFICES ASSUME Init PROVE HeardInv
    OBVIOUS
  <1>1. DOMAIN turn = {}
    BY DEF Init
  <1> QED BY <1>1, TypeInit
          DEF Init, HeardInv, Captured, InTranscript, CurrentHeard, FailedIsStale, NoJob

\* An action of one turn, but for throwing, keeps what every turn captured.
LEMMA TurnActionFrame ==
    ASSUME TypeOK, NEW t \in DOMAIN turn, TurnStep(t) \/ InvalidateSession(t) \/ TurnThrows(t)
    PROVE  /\ DOMAIN turn' = DOMAIN turn
           /\ \A u \in DOMAIN turn : SameCapture(u)
           /\ NoneRevives
           /\ UNCHANGED <<route, place, stored, roomVars>>
           /\ \/ UNCHANGED <<revision, job>>
              \/ revision' = revision + 1
  <1>1. turn \in Seq(TurnRecord)
    BY DEF TypeOK
  <1>0. turn[t] \in TurnRecord
    BY <1>1, TurnTyped
  <1> DEFINE Stays == /\ DOMAIN turn' = DOMAIN turn
                      /\ \A u \in DOMAIN turn :
                            SameCapture(u) /\ (u = t \/ turn'[u] = turn[u])
  <1>a. ASSUME NEW r, turn' = [turn EXCEPT ![t] = r],
               r.rev = turn[t].rev, r.seen = turn[t].seen, r.topic = turn[t].topic
        PROVE  Stays
    BY <1>1, <1>a DEF SameCapture
  <1>2. ASSUME NEW pc, Goto(t, pc) PROVE Stays
    <2>1. turn' = [turn EXCEPT ![t] = [turn[t] EXCEPT !.pc = pc]]
      BY <1>2 DEF Goto
    <2> QED BY <1>0, <1>a, <2>1, CaptureKept
  <1>3. ASSUME Post(t) PROVE Stays
    <2> DEFINE r == [turn[t] EXCEPT !.pc = "posting", !.written = turn[t].written + 1]
    <2>1. turn' = [turn EXCEPT ![t] = r]
      BY <1>3 DEF Post
    <2>2. r.rev = turn[t].rev /\ r.seen = turn[t].seen /\ r.topic = turn[t].topic
      BY <1>0, CaptureKept
    <2> HIDE DEF r
    <2> QED BY <1>a, <2>1, <2>2
  <1>4. ASSUME NEW n, Generated(t, n) PROVE Stays
    <2> DEFINE r == [turn[t] EXCEPT !.pc = "generated", !.size = n]
    <2>1. turn' = [turn EXCEPT ![t] = r]
      BY <1>4 DEF Generated
    <2>2. r.rev = turn[t].rev /\ r.seen = turn[t].seen /\ r.topic = turn[t].topic
      BY <1>0, CaptureKept
    <2> HIDE DEF r
    <2> QED BY <1>a, <2>1, <2>2
  <1>5. UNCHANGED turn => Stays
    BY DEF SameCapture
  <1>6. Stays
    BY <1>2, <1>3, <1>4, <1>5
       DEF TurnStep, GenerationFails, Interpret, Pace, SessionSaved, MessagePosted,
           QuietSaved, QuietClosed, InvalidateSession, TurnThrows
  <1>7. UNCHANGED routeFrame
    BY DEF TurnStep, Generated, GenerationFails, Interpret, Pace, SessionSaved, MessagePosted,
           QuietSaved, QuietClosed, InvalidateSession, TurnThrows
  <1>8. UNCHANGED <<revision, job>> \/ revision' = revision + 1
    BY DEF TurnStep, Generated, GenerationFails, Interpret, Pace, SessionSaved, MessagePosted,
           QuietSaved, QuietClosed, InvalidateSession, TurnThrows
  <1>9. t \in Active \/ UNCHANGED turn
    BY DEF TurnStep, Generated, GenerationFails, Interpret, Pace, SessionSaved, MessagePosted,
           QuietSaved, QuietClosed, InvalidateSession, TurnThrows, Active, Awaiting
  <1>10. NoneRevives
    BY <1>6, <1>9 DEF Active, NoneRevives
  <1> QED BY <1>6, <1>7, <1>8, <1>10 DEF routeFrame

\* Moving the revision makes every turn stale, so nothing remains to be shown.
LEMMA InterruptionMakesStale ==
    ASSUME TypeOK, Captured, revision' = revision + 1,
           DOMAIN turn' = DOMAIN turn, \A u \in DOMAIN turn : SameCapture(u)
    PROVE  Captured' /\ CurrentHeard' /\ FailedIsStale'
  <1>1. \A u \in DOMAIN turn : turn[u].rev \in Nat
    BY TurnTyped DEF TypeOK, TurnRecord
  <1>2. revision \in Nat
    BY DEF TypeOK
  <1>3. \A u \in DOMAIN turn' : turn'[u].rev < revision' /\ turn'[u].rev <= revision'
    BY <1>1, <1>2 DEF Captured, SameCapture
  <1>4. \A u \in Active' : u \in DOMAIN turn'
    BY DEF Active
  <1>5. Captured' /\ FailedIsStale'
    BY <1>3, <1>4 DEF Captured, FailedIsStale
  <1>6. \A u \in DOMAIN turn' : ~Current(u)'
    BY <1>1, <1>2, <1>3 DEF Current, SameCapture
  <1> QED BY <1>5, <1>6 DEF CurrentHeard

\* A step without interruption announces nothing and leaves the captures alone.
LEMMA QuietStepKeeps ==
    ASSUME Captured, CurrentHeard, FailedIsStale, revision' = revision,
           DOMAIN turn' = DOMAIN turn, \A u \in DOMAIN turn : SameCapture(u),
           topic' = topic, NoneRevives,
           \A m \in Messages : Announced(m)' => Announced(m) /\ place'[m] = place[m]
    PROVE  /\ Captured' /\ CurrentHeard'
           /\ (job'.failed => job.failed) => FailedIsStale'
  <1>1. Captured'
    BY DEF Captured, SameCapture
  <1>2. ASSUME job'.failed => job.failed PROVE FailedIsStale'
    <2>1. \A u \in Active : u \in DOMAIN turn
      BY DEF Active
    <2> QED BY <1>2, <2>1 DEF FailedIsStale, SameCapture, NoneRevives
  <1>3. CurrentHeard'
    <2> SUFFICES ASSUME NEW t \in DOMAIN turn', Current(t)' PROVE Heard(t)'
      BY DEF CurrentHeard
    <2>1. t \in DOMAIN turn /\ Current(t) /\ SameCapture(t)
      BY DEF Current, SameCapture
    <2>2. Heard(t)
      BY <2>1 DEF CurrentHeard
    <2> QED BY <2>1, <2>2 DEF Heard, SameCapture
  <1> QED BY <1>1, <1>2, <1>3

\* Whatever the queue does with a request, it does not make a job fail.
LEMMA EnqueueNeverFails ==
    ASSUME NEW key, Enqueue(key)
    PROVE  job'.failed => job.failed
  BY DEF Enqueue, Starts

\* Every step keeps what was heard.
LEMMA HeardStep == HeardInv /\ [Next]_vars => HeardInv'
  <1> SUFFICES ASSUME HeardInv, [Next]_vars PROVE HeardInv'
    OBVIOUS
  <1>0. TypeOK' /\ TypeOK
    BY TypeStep DEF HeardInv
  <1> USE DEF HeardInv
  <1>a. UNCHANGED turn => /\ DOMAIN turn' = DOMAIN turn
                          /\ \A u \in DOMAIN turn : SameCapture(u)
                          /\ NoneRevives
    BY DEF SameCapture, Active, NoneRevives
  <1>b. UNCHANGED <<place, stored>> => InTranscript'
    BY DEF InTranscript
  <1>c. \A m \in Messages : Stores(m) => InTranscript'
    BY <1>0 DEF Stores, InTranscript, TypeOK
  <1>1. ASSUME NEW m \in Messages, ReceiveRoomMessage(m) PROVE HeardInv'
    <2>1. InTranscript' /\ UNCHANGED <<turn, topic, job, revision>>
      BY <1>1, <1>c DEF ReceiveRoomMessage, roomVars, queueVars
    <2>2. \A n \in Messages : Announced(n)' => Announced(n) /\ place'[n] = place[n]
      BY <1>0, <1>1 DEF ReceiveRoomMessage, Stores, Announced, TypeOK
    <2> QED BY <1>0, <1>a, <2>1, <2>2, QuietStepKeeps
  <1>2. ASSUME NEW m \in Messages, AnnounceRoomMessage(m) PROVE HeardInv'
    <2>1. UNCHANGED <<turn, place, stored>> /\ revision' = revision + 1
      BY <1>2 DEF AnnounceRoomMessage
    <2> QED BY <1>0, <1>a, <1>b, <2>1, InterruptionMakesStale
  <1>3. ASSUME NEW m \in Messages, ReceiveDeveloperMessage(m) PROVE HeardInv'
    <2>1. InTranscript' /\ UNCHANGED turn /\ revision' = revision + 1
      BY <1>3, <1>c DEF ReceiveDeveloperMessage
    <2> QED BY <1>0, <1>a, <2>1, InterruptionMakesStale
  <1>4. ASSUME NEW m \in Messages, EnqueueConversation(m) PROVE HeardInv'
    <2>1. UNCHANGED <<turn, place, stored, topic, revision>> /\ (job'.failed => job.failed)
      BY <1>4, EnqueueNeverFails DEF EnqueueConversation, roomVars
    <2>2. \A n \in Messages : Announced(n)' => Announced(n) /\ place'[n] = place[n]
      BY <1>0, <1>4 DEF EnqueueConversation, Announced, TypeOK
    <2> QED BY <1>0, <1>a, <1>b, <2>1, <2>2, QuietStepKeeps
  <1>5. ASSUME NEW m \in Messages, RouteThrows(m) PROVE HeardInv'
    <2>1. UNCHANGED <<turn, place, stored, topic, revision, job>>
      BY <1>5 DEF RouteThrows, roomVars, queueVars
    <2>2. \A n \in Messages : Announced(n)' => Announced(n) /\ place'[n] = place[n]
      BY <1>0, <1>5 DEF RouteThrows, Announced, TypeOK
    <2> QED BY <1>0, <1>a, <1>b, <2>1, <2>2, QuietStepKeeps
  <1>6. CASE RoomAction
    <2>1. UNCHANGED <<turn, route, place, stored, topic, revision>> /\ (job'.failed => job.failed)
      BY <1>6, EnqueueNeverFails DEF RoomAction, roomVars
    <2> QED BY <1>0, <1>a, <1>b, <2>1, QuietStepKeeps DEF Announced
  <1>7. CASE ChangeTopic
    <2>1. UNCHANGED <<turn, place, stored>> /\ revision' = revision + 1
      BY <1>7 DEF ChangeTopic
    <2> QED BY <1>0, <1>a, <1>b, <2>1, InterruptionMakesStale
  <1>8. ASSUME NEW a \in Agents, NEW on \in BOOLEAN, NEW reconfigured \in BOOLEAN,
               EditRoster(a, on, reconfigured)
        PROVE  HeardInv'
    <2>1. UNCHANGED <<turn, route, place, stored, topic, revision, job>>
      BY <1>8 DEF EditRoster, queueVars
    <2> QED BY <1>0, <1>a, <1>b, <2>1, QuietStepKeeps DEF Announced
  <1>9. CASE CloseQueue
    <2>1. UNCHANGED <<turn, route, place, stored, topic, revision, job>>
      BY <1>9 DEF CloseQueue, roomVars
    <2> QED BY <1>0, <1>a, <1>b, <2>1, QuietStepKeeps DEF Announced
  <1>10. CASE InterruptAtShutdown
    <2>1. UNCHANGED <<turn, place, stored>> /\ revision' = revision + 1
      BY <1>10 DEF InterruptAtShutdown
    <2> QED BY <1>0, <1>a, <1>b, <2>1, InterruptionMakesStale
  <1>11. CASE JobEnds
    <2>1. UNCHANGED <<turn, route, place, stored, topic>>
      BY <1>11 DEF JobEnds, roomVars
    <2>2. CASE job.failed
      BY <1>0, <1>11, <1>a, <1>b, <2>1, <2>2, InterruptionMakesStale DEF JobEnds
    <2>3. CASE ~job.failed
      <3>1. revision' = revision
        BY <1>11, <2>3 DEF JobEnds
      <3>2. ~job'.failed
        BY <1>11 DEF JobEnds, NoJob, Starts
      <3> QED BY <1>0, <1>a, <1>b, <2>1, <3>1, <3>2, QuietStepKeeps DEF Announced
    <2> QED BY <2>2, <2>3
  <1>15. CASE StatusThrows
    <2>1. UNCHANGED <<turn, route, place, stored, topic, revision>> /\ Active = {}
      BY <1>15 DEF StatusThrows, roomVars
    <2>2. FailedIsStale'
      BY <1>a, <2>1 DEF FailedIsStale, NoneRevives
    <2> QED BY <1>0, <1>a, <1>b, <2>1, <2>2, QuietStepKeeps DEF Announced
  <1>16. CASE ReportFails
    <2>1. UNCHANGED <<turn, place, stored>> /\ revision' = revision + 1
      BY <1>16 DEF ReportFails
    <2> QED BY <1>0, <1>a, <1>b, <2>1, InterruptionMakesStale
  <1>12. ASSUME NEW a \in Agents, StartTurn(a) PROVE HeardInv'
    <2> DEFINE n == Len(turn) + 1
               r == [agent |-> a, pc |-> "generating", rev |-> revision, seen |-> stored,
                     roster |-> roster, topic |-> topic, size |-> 0, written |-> 0]
    <2>0. r.rev = revision /\ r.seen = stored /\ r.topic = topic
      OBVIOUS
    <2>a. turn' = Append(turn, r) /\ turn \in Seq(TurnRecord) /\ r \in TurnRecord
      BY <1>0, <1>12 DEF StartTurn, TypeOK, TurnRecord, Awaiting
    <2> HIDE DEF r
    <2>1. /\ DOMAIN turn' = DOMAIN turn \cup {n}
          /\ \A u \in DOMAIN turn : turn'[u] = turn[u]
          /\ turn'[n].rev = revision /\ turn'[n].seen = stored /\ turn'[n].topic = topic
      BY <2>0, <2>a
    <2>2. UNCHANGED <<route, place, stored, topic, revision, job>> /\ ~job.failed
      BY <1>12 DEF StartTurn, routeFrame, roomVars
    <2>b. revision \in Nat
      BY <1>0 DEF TypeOK
    <2>3. Captured' /\ FailedIsStale' /\ InTranscript'
      BY <2>1, <2>2, <2>b DEF Captured, FailedIsStale, InTranscript
    <2>4. CurrentHeard'
      <3> SUFFICES ASSUME NEW t \in DOMAIN turn', Current(t)' PROVE Heard(t)'
        BY DEF CurrentHeard
      <3>1. CASE t \in DOMAIN turn
        BY <2>1, <2>2, <3>1 DEF CurrentHeard, Current, Heard, Announced
      <3>2. CASE t = n
        BY <2>1, <2>2, <3>2 DEF Heard, InTranscript
      <3> QED BY <2>1, <3>1, <3>2
    <2> QED BY <1>0, <2>3, <2>4
  <1>13. ASSUME NEW t \in DOMAIN turn, TurnStep(t) \/ InvalidateSession(t) \/ TurnThrows(t)
         PROVE  HeardInv'
    <2>1. /\ DOMAIN turn' = DOMAIN turn
          /\ \A u \in DOMAIN turn : SameCapture(u)
          /\ NoneRevives
          /\ UNCHANGED <<route, place, stored, roomVars>>
          /\ \/ UNCHANGED <<revision, job>>
             \/ revision' = revision + 1
      BY <1>0, <1>13, TurnActionFrame
    <2>2. CASE UNCHANGED <<revision, job>>
      BY <1>0, <1>b, <2>1, <2>2, QuietStepKeeps DEF Announced, roomVars
    <2>3. CASE revision' = revision + 1
      BY <1>0, <1>b, <2>1, <2>3, InterruptionMakesStale
    <2> QED BY <2>1, <2>2, <2>3
  <1>14. CASE UNCHANGED vars
    <2>1. UNCHANGED <<turn, route, place, stored, topic, revision, job>>
      BY <1>14 DEF vars, roomVars, queueVars
    <2> QED BY <1>0, <1>a, <1>b, <2>1, QuietStepKeeps DEF Announced
  <1> QED BY <1>1, <1>2, <1>3, <1>4, <1>5, <1>6, <1>7, <1>8, <1>9, <1>10, <1>11, <1>12,
             <1>13, <1>14, <1>15, <1>16 DEF Next

\* Only a wait that ended, or a session that was saved, lets a turn post.
LEMMA PostingIsDeliverable ==
    ASSUME TypeOK, Next, NEW u \in DOMAIN turn, Posted(u)
    PROVE  /\ u \in Active /\ Deliverable(u)
           /\ revision' = revision /\ UNCHANGED <<route, place, roomVars, job>>
  <1>1. turn \in Seq(TurnRecord) /\ turn[u].written \in Nat
    BY TurnTyped, TurnFields DEF TypeOK
  <1>2. turn' # turn /\ turn'[u].written # turn[u].written
    BY <1>1 DEF Posted
  <1>3. \A a \in Agents : ~StartTurn(a)
    <2> SUFFICES ASSUME NEW a \in Agents, StartTurn(a) PROVE FALSE
      OBVIOUS
    <2> DEFINE r == [agent |-> a, pc |-> "generating", rev |-> revision, seen |-> stored,
                     roster |-> roster, topic |-> topic, size |-> 0, written |-> 0]
    <2>1. turn' = Append(turn, r)
      BY DEF StartTurn
    <2> HIDE DEF r
    <2> QED BY <1>1, <1>2, <2>1
  <1>4. PICK t \in DOMAIN turn : TurnStep(t) \/ InvalidateSession(t) \/ TurnThrows(t)
    BY <1>2, <1>3
       DEF Next, ReceiveRoomMessage, AnnounceRoomMessage, ReceiveDeveloperMessage,
           EnqueueConversation, RouteThrows, RoomAction, ChangeTopic, EditRoster, CloseQueue,
           InterruptAtShutdown, JobEnds, StatusThrows, ReportFails
  <1>5. turn[t] \in TurnRecord
    BY <1>1, TurnTyped
  <1>6. ASSUME NEW pc PROVE ~Goto(t, pc)
    <2> SUFFICES ASSUME Goto(t, pc) PROVE FALSE
      OBVIOUS
    <2> DEFINE r == [turn[t] EXCEPT !.pc = pc]
    <2>1. turn' = [turn EXCEPT ![t] = r]
      BY DEF Goto
    <2>2. r.written = turn[t].written
      BY <1>5 DEF TurnRecord
    <2> HIDE DEF r
    <2> QED BY <1>1, <1>2, <2>1, <2>2
  <1>7. ASSUME NEW n PROVE ~Generated(t, n)
    <2> SUFFICES ASSUME Generated(t, n) PROVE FALSE
      OBVIOUS
    <2> DEFINE r == [turn[t] EXCEPT !.pc = "generated", !.size = n]
    <2>1. turn' = [turn EXCEPT ![t] = r]
      BY DEF Generated
    <2>2. r.written = turn[t].written
      BY <1>5 DEF TurnRecord
    <2> HIDE DEF r
    <2> QED BY <1>1, <1>2, <2>1, <2>2
  <1>8. (Pace(t) \/ SessionSaved(t)) /\ Post(t) /\ Deliverable(t)
    BY <1>2, <1>4, <1>6, <1>7
       DEF TurnStep, GenerationFails, Interpret, Pace, SessionSaved, MessagePosted,
           QuietSaved, QuietClosed, InvalidateSession, TurnThrows
  <1>9. t = u
    BY <1>1, <1>2, <1>8 DEF Post
  <1>10. revision' = revision /\ UNCHANGED <<routeFrame, job>> /\ t \in Active
    BY <1>8 DEF Pace, SessionSaved, Active, Awaiting
  <1> QED BY <1>8, <1>9, <1>10 DEF routeFrame

\* An agent only speaks when its prompt held all that was announced before, and
\* the room still has the turn's topic and roster.
THEOREM HeardTheRoom == Spec => PostsHeardEveryone
  <1>1. HeardInv /\ [Next]_vars =>
           [\A t \in DOMAIN turn : Posted(t) =>
              /\ \A m \in Messages : Announced(m) => place[m] <= turn[t].seen
              /\ turn[t].topic = topic /\ turn[t].roster = roster]_vars
    BY PostingIsDeliverable DEF HeardInv, CurrentHeard, Heard, Deliverable, StillEnabled
  <1> QED BY <1>1, HeardInit, HeardStep, PTL DEF Spec, PostsHeardEveryone

\* No turn posts in a job that has thrown.
THEOREM SilentAfterFailure == Spec => FailureSilencesPeers
  <1>1. HeardInv /\ [Next]_vars => [\A t \in DOMAIN turn : Posted(t) => ~job.failed]_vars
    <2> SUFFICES ASSUME HeardInv, Next, NEW t \in DOMAIN turn, Posted(t) PROVE ~job.failed
      OBVIOUS
    <2>1. turn[t].rev = revision /\ t \in Active
      BY PostingIsDeliverable DEF HeardInv, Deliverable, Current
    <2> QED BY <2>1 DEF HeardInv, FailedIsStale, TypeOK
  <1> QED BY <1>1, HeardInit, HeardStep, PTL DEF Spec, FailureSilencesPeers

-----------------------------------------------------------------------------
(* Coalescing *)

\* Appending keeps the members and adds one.
LEMMA AppendMembers ==
    ASSUME NEW S, NEW s \in Seq(S), NEW e \in S
    PROVE  ToSet(s) \subseteq ToSet(Append(s, e)) /\ e \in ToSet(Append(s, e))
  <1>1. DOMAIN Append(s, e) = 1..Len(s) + 1 /\ DOMAIN s = 1..Len(s) /\ Len(s) \in Nat
    OBVIOUS
  <1>2. Append(s, e)[Len(s) + 1] = e /\ \A i \in 1..Len(s) : Append(s, e)[i] = s[i]
    OBVIOUS
  <1> QED BY <1>1, <1>2 DEF ToSet

\* Taking the head loses the head only.
LEMMA TailMembers ==
    ASSUME NEW S, NEW s \in Seq(S), s # << >>
    PROVE  ToSet(s) \subseteq {Head(s)} \cup ToSet(Tail(s))
  <1> SUFFICES ASSUME NEW i \in 1..Len(s), s[i] # Head(s) PROVE s[i] \in ToSet(Tail(s))
    BY DEF ToSet
  <1>1. Len(Tail(s)) = Len(s) - 1 /\ DOMAIN Tail(s) = 1..Len(Tail(s)) /\ i # 1
    OBVIOUS
  <1>2. i - 1 \in DOMAIN Tail(s) /\ Tail(s)[i - 1] = s[i]
    BY <1>1
  <1> QED BY <1>2 DEF ToSet

\* Every message that was queued is in the snapshot of a job or waits for one,
\* and no snapshot reaches beyond the transcript.
LossInv ==
    /\ TypeOK /\ InTranscript
    /\ consumed <= stored
    /\ CoalescingLosesNothing

\* What a request leaves: its own messages are covered, and all others still are.
Covered(m) == place[m] <= consumed \/ KeyOf(m) \in ToSet(pending) \/ closed

\* A job that starts covers the messages of its key.
LEMMA StartsCovers ==
    ASSUME LossInv, NEW key \in Keys, Starts(key), UNCHANGED <<place, stored>>
    PROVE  /\ consumed' <= stored' /\ consumed <= consumed'
           /\ \A m \in Messages : KeyOf(m) = key => place'[m] <= consumed'
  <1>1. consumed \in Nat /\ stored \in Nat /\ consumed <= stored /\ InTranscript
    BY DEF LossInv, TypeOK
  <1>2. \A m \in Messages : KeyOf(m) \in MessageKeys
    BY KeyTyped
  <1> QED BY <1>1, <1>2 DEF Starts, InTranscript

\* Queueing a key covers its messages and uncovers none.
LEMMA EnqueueCovers ==
    ASSUME LossInv, NEW key \in Keys, Enqueue(key), UNCHANGED <<place, stored, closed>>
    PROVE  /\ consumed' <= stored'
           /\ \A m \in Messages : Covered(m) \/ KeyOf(m) = key => Covered(m)'
  <1>1. CASE closed
    BY <1>1 DEF Enqueue, Covered, LossInv
  <1>2. CASE ~closed /\ ~Idle /\ key \in ToSet(pending)
    BY <1>2 DEF Enqueue, Covered, LossInv
  <1> DEFINE waiting == Append(pending, key)
  <1>0. waiting \in Seq(Keys) /\ waiting # << >> /\ Head(waiting) \in Keys
    <2>0. pending \in Seq(Keys)
      BY DEF LossInv, TypeOK
    <2>1. waiting \in Seq(Keys) /\ Len(waiting) = Len(pending) + 1 /\ Len(pending) \in Nat
      BY <2>0
    <2> HIDE DEF waiting
    <2>2. waiting # << >>
      BY <2>1
    <2> QED BY <2>1, <2>2
  <1>a. ToSet(pending) \subseteq ToSet(waiting) /\ key \in ToSet(waiting)
    BY AppendMembers DEF LossInv, TypeOK
  <1>b. \A m \in Messages : KeyOf(m)' = KeyOf(m)
    BY DEF KeyOf
  <1> HIDE DEF waiting
  <1>3. CASE ~closed /\ Idle
    <2>1. Starts(Head(waiting)) /\ pending' = Tail(waiting)
      BY <1>3 DEF Enqueue, waiting
    <2>2. consumed \in Nat /\ consumed' \in Nat /\ \A m \in Messages : place[m] \in Nat
      BY <2>1 DEF LossInv, TypeOK, Starts
    <2>3. /\ consumed' <= stored' /\ consumed <= consumed'
          /\ \A m \in Messages : KeyOf(m) = Head(waiting) => place'[m] <= consumed'
      BY <1>0, <2>1, StartsCovers
    <2>4. \A m \in Messages : place[m] <= consumed => place'[m] <= consumed'
      BY <2>2, <2>3
    <2>5. ToSet(waiting) \subseteq {Head(waiting)} \cup ToSet(pending')
      BY <1>0, <2>1, TailMembers
    <2> QED BY <1>a, <1>b, <2>3, <2>4, <2>5 DEF Covered
  <1>4. CASE ~closed /\ ~Idle /\ key \notin ToSet(pending)
    <2>1. pending' = waiting /\ UNCHANGED consumed
      BY <1>4 DEF Enqueue, waiting
    <2> QED BY <1>a, <1>b, <2>1 DEF Covered, LossInv
  <1> QED BY <1>1, <1>2, <1>3, <1>4

\* Initially every message is covered.
LEMMA LossInit == Init => LossInv
  BY TypeInit DEF Init, LossInv, InTranscript, CoalescingLosesNothing

\* Every step keeps every message covered.
LEMMA LossStep == LossInv /\ [Next]_vars => LossInv'
  <1> SUFFICES ASSUME LossInv, [Next]_vars PROVE LossInv'
    OBVIOUS
  <1>0. /\ TypeOK' /\ TypeOK
        /\ \A m \in Messages : route[m] = "queued" => Covered(m)
    BY TypeStep DEF LossInv, CoalescingLosesNothing, Covered
  <1>k. \A m \in Messages : KeyOf(m)' = KeyOf(m)
    BY DEF KeyOf
  \* It is enough that no step uncovers a queued message.
  <1>c. /\ InTranscript' /\ consumed' <= stored'
        /\ \A m \in Messages : route'[m] = "queued" => Covered(m)'
        => LossInv'
    BY <1>0 DEF LossInv, CoalescingLosesNothing, Covered
  <1>i. UNCHANGED <<place, stored>> => InTranscript'
    BY DEF LossInv, InTranscript
  \* Nothing of the queue changes and no message becomes queued.
  <1>f. ASSUME UNCHANGED <<place, stored, consumed, pending>>, closed => closed',
               \A m \in Messages : route'[m] = "queued" => route[m] = "queued"
        PROVE  LossInv'
    BY <1>0, <1>c, <1>f, <1>i, <1>k DEF Covered, LossInv
  \* A message is stored.
  <1>s. ASSUME NEW m \in Messages, Stores(m), UNCHANGED <<consumed, pending, closed>>,
               route[m] = "new", NEW r \in {"stored", "announced"},
               route' = [route EXCEPT ![m] = r]
        PROVE  LossInv'
    <2>1. InTranscript' /\ consumed' <= stored'
      BY <1>s, <1>0 DEF Stores, LossInv, InTranscript, TypeOK
    <2>2. \A n \in Messages : route'[n] = "queued" => route[n] = "queued" /\ place'[n] = place[n]
      BY <1>s, <1>0 DEF Stores, TypeOK
    <2> QED BY <1>0, <1>c, <1>k, <1>s, <2>1, <2>2 DEF Covered
  \* A request is made for the key of every message that becomes queued.
  <1>q. ASSUME NEW key \in Keys, Enqueue(key), UNCHANGED <<place, stored, closed>>,
               \A m \in Messages : route'[m] = "queued" => route[m] = "queued" \/ KeyOf(m) = key
        PROVE  LossInv'
    BY <1>0, <1>c, <1>i, <1>q, EnqueueCovers
  <1>1. ASSUME NEW m \in Messages, ReceiveRoomMessage(m) PROVE LossInv'
    BY <1>1, <1>s DEF ReceiveRoomMessage, queueVars
  <1>2. ASSUME NEW m \in Messages, AnnounceRoomMessage(m) PROVE LossInv'
    <2>1. CASE m \in Continuations
      <3>1. \A n \in Messages : route'[n] = "queued" => route[n] = "queued"
        BY <1>0, <1>2, <2>1 DEF AnnounceRoomMessage, TypeOK
      <3> QED BY <1>2, <1>f, <2>1, <3>1 DEF AnnounceRoomMessage, queueVars
    <2>2. CASE m \notin Continuations
      <3>1. \A n \in Messages : route'[n] = "queued" => route[n] = "queued" \/ n = m
        BY <1>0, <1>2, <2>2 DEF AnnounceRoomMessage, TypeOK
      <3>2. Enqueue(KeyOf(m)) /\ KeyOf(m) \in Keys /\ UNCHANGED <<place, stored, closed>>
        BY <1>2, <2>2, KeyTyped DEF AnnounceRoomMessage
      <3> QED BY <1>q, <3>1, <3>2
    <2> QED BY <2>1, <2>2
  <1>3. ASSUME NEW m \in Messages, ReceiveDeveloperMessage(m) PROVE LossInv'
    BY <1>3, <1>s DEF ReceiveDeveloperMessage, queueVars
  <1>4. ASSUME NEW m \in Messages, EnqueueConversation(m) PROVE LossInv'
    <2>1. \A n \in Messages : route'[n] = "queued" => route[n] = "queued" \/ n = m
      BY <1>0, <1>4 DEF EnqueueConversation, TypeOK
    <2>2. Enqueue(KeyOf(m)) /\ KeyOf(m) \in Keys /\ UNCHANGED <<place, stored, closed>>
      BY <1>4, KeyTyped DEF EnqueueConversation
    <2> QED BY <1>q, <2>1, <2>2
  <1>5. ASSUME NEW m \in Messages, RouteThrows(m) PROVE LossInv'
    <2>1. \A n \in Messages : route'[n] = "queued" => route[n] = "queued"
      BY <1>0, <1>5 DEF RouteThrows, TypeOK
    <2> QED BY <1>5, <1>f, <2>1 DEF RouteThrows, queueVars
  <1>6. CASE RoomAction
    BY <1>6, <1>q DEF RoomAction, Keys
  <1>7. CASE ChangeTopic
    BY <1>7, <1>f DEF ChangeTopic, queueVars
  <1>8. ASSUME NEW a \in Agents, NEW on \in BOOLEAN, NEW reconfigured \in BOOLEAN,
               EditRoster(a, on, reconfigured)
        PROVE  LossInv'
    BY <1>8, <1>f DEF EditRoster, queueVars
  <1>9. CASE CloseQueue
    BY <1>0, <1>9, <1>c, <1>i DEF CloseQueue, Covered, LossInv
  <1>10. CASE InterruptAtShutdown
    BY <1>10, <1>f DEF InterruptAtShutdown
  <1>11. CASE JobEnds
    <2>1. CASE pending = << >>
      BY <1>11, <1>f, <2>1 DEF JobEnds
    <2>2. CASE pending # << >>
      <3>1. Starts(Head(pending)) /\ pending' = Tail(pending)
            /\ UNCHANGED <<route, place, stored, closed>>
        BY <1>11, <2>2 DEF JobEnds
      <3>2. pending \in Seq(Keys) /\ Head(pending) \in Keys
        BY <1>0, <2>2 DEF TypeOK
      <3>3. /\ consumed' <= stored' /\ consumed <= consumed'
            /\ \A m \in Messages : KeyOf(m) = Head(pending) => place'[m] <= consumed'
        BY <3>1, <3>2, StartsCovers
      <3>4. ToSet(pending) \subseteq {Head(pending)} \cup ToSet(pending')
        BY <2>2, <3>1, <3>2, TailMembers
      <3>5. consumed \in Nat /\ consumed' \in Nat /\ \A m \in Messages : place[m] \in Nat
        BY <1>0 DEF TypeOK
      <3>6. \A m \in Messages : place[m] <= consumed => place'[m] <= consumed'
        BY <3>1, <3>3, <3>5
      <3>7. \A m \in Messages : Covered(m) => Covered(m)'
        BY <1>k, <3>1, <3>3, <3>4, <3>6 DEF Covered
      <3> QED BY <1>0, <1>c, <1>i, <3>1, <3>3, <3>7
    <2> QED BY <2>1, <2>2
  <1>15. CASE StatusThrows
    BY <1>15, <1>f DEF StatusThrows
  <1>16. CASE ReportFails
    BY <1>16, <1>f DEF ReportFails
  <1>12. ASSUME NEW a \in Agents, StartTurn(a) PROVE LossInv'
    BY <1>12, <1>f DEF StartTurn, routeFrame
  <1>13. ASSUME NEW t \in DOMAIN turn, TurnStep(t) \/ InvalidateSession(t) \/ TurnThrows(t)
         PROVE  LossInv'
    <2>1. UNCHANGED routeFrame
      BY <1>13 DEF TurnStep, Generated, GenerationFails, Interpret, Pace, SessionSaved,
             MessagePosted, QuietSaved, QuietClosed, InvalidateSession, TurnThrows
    <2> QED BY <1>f, <2>1 DEF routeFrame
  <1>14. CASE UNCHANGED vars
    BY <1>14, <1>f DEF vars, queueVars
  <1> QED BY <1>1, <1>2, <1>3, <1>4, <1>5, <1>6, <1>7, <1>8, <1>9, <1>10, <1>11, <1>12,
             <1>13, <1>14, <1>15, <1>16 DEF Next

\* A message whose handler has finished is in the snapshot of a job that started,
\* or a job of its key is pending, unless the server shuts down.
THEOREM NothingLost == Spec => []CoalescingLosesNothing
  <1>1. LossInv => CoalescingLosesNothing
    BY DEF LossInv
  <1> QED BY <1>1, LossInit, LossStep, PTL DEF Spec

-----------------------------------------------------------------------------
(* What is stored about an agent follows what the room was given *)

\* Where a turn may be whose session is the stored one.
MayHold == {"pacing", "saving", "posting", "quiet", "closing"}
              \cup {"delivered", "overtaken", "thrown"}

\* How many of its messages a turn has written, by where it is.
ProgressOf(r) ==
    /\ r.pc \in {"generating", "generated", "saving", "quiet", "closing"} => r.written = 0
    /\ r.pc \in {"pacing", "saving"} => r.written < r.size
    /\ r.pc = "posting" => r.written <= r.size
    /\ r.pc \in {"quiet", "closing", "delivered", "overtaken"} => r.written = r.size

Progress == \A t \in DOMAIN turn : ProgressOf(turn[t])

\* A stored session is that of a turn of its agent, under the present topic, which
\* was neither cancelled nor rejected and is still open only while it delivers.
SessionHeld ==
    \A a \in Agents : session[a] # 0 =>
        /\ turn[session[a]].agent = a
        /\ turn[session[a]].topic = topic
        /\ turn[session[a]].pc \in MayHold

StoreInv == HeardInv /\ Progress /\ SessionHeld /\ CursorFollowsDelivery

\* What a step of turn t does to the turn, to its agent's session and cursor.
Effect(t, r) ==
    /\ turn' = [turn EXCEPT ![t] = r]
    /\ r.agent = turn[t].agent /\ r.seen = turn[t].seen /\ r.topic = turn[t].topic
    /\ ProgressOf(r)
    /\ turn[t].pc \in Ended => r.pc = turn[t].pc
    /\ \/ session' = session /\ (turn[t].pc \in MayHold => r.pc \in MayHold)
       \/ Forget(t)
       \/ KeepSession(t) /\ r.pc \in MayHold /\ Current(t)
    /\ \/ cursor' = cursor
       \/ /\ r.pc = "delivered"
          /\ cursor' = [cursor EXCEPT ![turn[t].agent] = turn[t].seen]

\* What the record of a turn holds after each of the three assignments to it.
LEMMA RecordMoves ==
    ASSUME NEW r \in TurnRecord, NEW pc, NEW n
    PROVE  LET same(s) == s.agent = r.agent /\ s.seen = r.seen /\ s.topic = r.topic
           IN  /\ LET s == [r EXCEPT !.pc = pc]
                  IN  same(s) /\ s.pc = pc /\ s.size = r.size /\ s.written = r.written
               /\ LET s == [r EXCEPT !.pc = pc, !.written = n]
                  IN  same(s) /\ s.pc = pc /\ s.size = r.size /\ s.written = n
               /\ LET s == [r EXCEPT !.pc = pc, !.size = n]
                  IN  same(s) /\ s.pc = pc /\ s.size = n /\ s.written = r.written
  BY DEF TurnRecord

\* Every step of a turn has such an effect.
LEMMA StepEffect ==
    ASSUME TypeOK, Progress, NEW t \in DOMAIN turn,
           TurnStep(t) \/ InvalidateSession(t) \/ TurnThrows(t)
    PROVE  \E r : Effect(t, r)
  <1>0. /\ turn \in Seq(TurnRecord) /\ turn[t] \in TurnRecord
        /\ turn[t].size \in Nat /\ turn[t].written \in Nat
        /\ ProgressOf(turn[t])
    <2>1. turn \in Seq(TurnRecord) /\ turn[t] \in TurnRecord
      BY TurnTyped DEF TypeOK
    <2> QED BY <2>1 DEF TurnRecord, Progress
  <1> DEFINE Moved(pc) == [turn[t] EXCEPT !.pc = pc]
             Spoken == [turn[t] EXCEPT !.pc = "posting", !.written = turn[t].written + 1]
             Sized(n) == [turn[t] EXCEPT !.pc = "generated", !.size = n]
             Same(s) == s.agent = turn[t].agent /\ s.seen = turn[t].seen
                        /\ s.topic = turn[t].topic
  <1>a. \A pc : /\ Same(Moved(pc)) /\ Moved(pc).pc = pc
                /\ Moved(pc).size = turn[t].size /\ Moved(pc).written = turn[t].written
    BY <1>0, RecordMoves
  <1>b. /\ Same(Spoken) /\ Spoken.pc = "posting"
        /\ Spoken.size = turn[t].size /\ Spoken.written = turn[t].written + 1
    BY <1>0, RecordMoves
  <1>c. \A n : /\ Same(Sized(n)) /\ Sized(n).pc = "generated"
               /\ Sized(n).size = n /\ Sized(n).written = turn[t].written
    BY <1>0, RecordMoves
  <1>d. \A pc : Goto(t, pc) => turn' = [turn EXCEPT ![t] = Moved(pc)]
    BY DEF Goto
  <1>e. Post(t) => turn' = [turn EXCEPT ![t] = Spoken]
    BY DEF Post
  <1>f. \A n : Generated(t, n) => turn' = [turn EXCEPT ![t] = Sized(n)]
    BY DEF Generated
  <1>g. AdvanceCursor(t) => \/ cursor' = cursor
                            \/ cursor' = [cursor EXCEPT ![turn[t].agent] = turn[t].seen]
    BY DEF AdvanceCursor
  <1> HIDE DEF Moved, Spoken, Sized
  <1>1. ASSUME NEW n \in 0..MaxBurst, Generated(t, n) PROVE Effect(t, Sized(n))
    <2>1. turn[t].pc = "generating" /\ UNCHANGED <<session, cursor>>
      BY <1>1 DEF Generated, agentVars
    <2>2. ProgressOf(Sized(n))
      BY <1>0, <1>c, <2>1 DEF ProgressOf
    <2> QED BY <1>1, <1>c, <1>f, <2>1, <2>2 DEF Effect, MayHold, Ended
  <1>2. CASE GenerationFails(t)
    <2>1. /\ turn[t].pc = "generating" /\ UNCHANGED cursor
          /\ (Forget(t) \/ UNCHANGED session)
          /\ (Goto(t, "cancelled") \/ Goto(t, "failed"))
      BY <1>2 DEF GenerationFails
    <2>2. \A pc \in {"cancelled", "failed"} : ProgressOf(Moved(pc))
      BY <1>a DEF ProgressOf
    <2> QED BY <1>a, <1>d, <2>1, <2>2 DEF Effect, MayHold, Ended
  <1>3. CASE Interpret(t)
    <2>1. turn[t].pc = "generated" /\ UNCHANGED cursor
      BY <1>3 DEF Interpret
    <2>2. CASE Goto(t, "cancelled") /\ Forget(t)
      <3>1. ProgressOf(Moved("cancelled"))
        BY <1>a DEF ProgressOf
      <3> QED BY <1>a, <1>d, <2>1, <2>2, <3>1 DEF Effect, Ended
    <2>3. CASE Goto(t, "quiet") /\ KeepSession(t) /\ Current(t) /\ turn[t].size = 0
      <3>1. ProgressOf(Moved("quiet"))
        BY <1>0, <1>a, <2>1, <2>3 DEF ProgressOf
      <3> QED BY <1>a, <1>d, <2>1, <2>3, <3>1 DEF Effect, MayHold, Ended
    <2>4. CASE Goto(t, "pacing") /\ UNCHANGED session /\ turn[t].size # 0
      <3>1. ProgressOf(Moved("pacing"))
        BY <1>0, <1>a, <2>1, <2>4 DEF ProgressOf
      <3> QED BY <1>a, <1>d, <2>1, <2>4, <3>1 DEF Effect, MayHold, Ended
    <2> QED BY <1>3, <2>2, <2>3, <2>4 DEF Interpret, Deliverable
  <1>4. CASE Pace(t)
    <2>1. turn[t].pc = "pacing" /\ UNCHANGED cursor
      BY <1>4 DEF Pace
    <2>2. CASE Goto(t, "cancelled") /\ Forget(t)
      <3>1. ProgressOf(Moved("cancelled"))
        BY <1>a DEF ProgressOf
      <3> QED BY <1>a, <1>d, <2>1, <2>2, <3>1 DEF Effect, Ended
    <2>3. CASE Goto(t, "saving") /\ KeepSession(t) /\ Current(t) /\ turn[t].written = 0
      <3>1. ProgressOf(Moved("saving"))
        BY <1>0, <1>a, <2>1, <2>3 DEF ProgressOf
      <3> QED BY <1>a, <1>d, <2>1, <2>3, <3>1 DEF Effect, MayHold, Ended
    <2>4. CASE Post(t) /\ UNCHANGED session
      <3>1. ProgressOf(Spoken)
        BY <1>0, <1>b, <2>1 DEF ProgressOf
      <3> QED BY <1>b, <1>e, <2>1, <2>4, <3>1 DEF Effect, MayHold, Ended
    <2> QED BY <1>4, <2>2, <2>3, <2>4 DEF Pace, Deliverable
  <1>5. CASE SessionSaved(t)
    <2>1. turn[t].pc = "saving" /\ UNCHANGED cursor
      BY <1>5 DEF SessionSaved
    <2>2. CASE Goto(t, "cancelled") /\ Forget(t)
      <3>1. ProgressOf(Moved("cancelled"))
        BY <1>a DEF ProgressOf
      <3> QED BY <1>a, <1>d, <2>1, <2>2, <3>1 DEF Effect, Ended
    <2>3. CASE Post(t) /\ UNCHANGED session
      <3>1. ProgressOf(Spoken)
        BY <1>0, <1>b, <2>1 DEF ProgressOf
      <3> QED BY <1>b, <1>e, <2>1, <2>3, <3>1 DEF Effect, MayHold, Ended
    <2> QED BY <1>5, <2>2, <2>3 DEF SessionSaved
  <1>6. CASE MessagePosted(t)
    <2>1. turn[t].pc = "posting" /\ UNCHANGED session
      BY <1>6 DEF MessagePosted
    <2>2. CASE Goto(t, "pacing") /\ UNCHANGED cursor /\ turn[t].written < turn[t].size
      <3>1. ProgressOf(Moved("pacing"))
        BY <1>a, <2>2 DEF ProgressOf
      <3> QED BY <1>a, <1>d, <2>1, <2>2, <3>1 DEF Effect, MayHold, Ended
    <2>3. CASE Goto(t, "overtaken") /\ UNCHANGED cursor /\ ~(turn[t].written < turn[t].size)
      <3>1. ProgressOf(Moved("overtaken"))
        BY <1>0, <1>a, <2>1, <2>3 DEF ProgressOf
      <3> QED BY <1>a, <1>d, <2>1, <2>3, <3>1 DEF Effect, MayHold, Ended
    <2>4. CASE /\ Goto(t, "delivered") /\ (AdvanceCursor(t) \/ UNCHANGED cursor)
               /\ ~(turn[t].written < turn[t].size)
      <3>1. ProgressOf(Moved("delivered"))
        BY <1>0, <1>a, <2>1, <2>4 DEF ProgressOf
      <3>2. \/ cursor' = cursor
            \/ cursor' = [cursor EXCEPT ![turn[t].agent] = turn[t].seen]
        BY <1>g, <2>4
      <3>3. turn' = [turn EXCEPT ![t] = Moved("delivered")]
        BY <1>d, <2>4
      <3>4. Effect(t, Moved("delivered"))
        BY <1>a, <2>1, <3>1, <3>2, <3>3 DEF Effect, MayHold, Ended
      <3> QED BY <3>4
    <2> QED BY <1>6, <2>2, <2>3, <2>4 DEF MessagePosted
  <1>7. CASE QuietSaved(t)
    <2>1. turn[t].pc = "quiet" /\ UNCHANGED cursor
      BY <1>7 DEF QuietSaved
    <2>2. CASE Goto(t, "cancelled") /\ Forget(t)
      <3>1. ProgressOf(Moved("cancelled"))
        BY <1>a DEF ProgressOf
      <3> QED BY <1>a, <1>d, <2>1, <2>2, <3>1 DEF Effect, Ended
    <2>3. CASE Goto(t, "closing") /\ UNCHANGED session
      <3>1. ProgressOf(Moved("closing"))
        BY <1>0, <1>a, <2>1 DEF ProgressOf
      <3> QED BY <1>a, <1>d, <2>1, <2>3, <3>1 DEF Effect, MayHold, Ended
    <2> QED BY <1>7, <2>2, <2>3 DEF QuietSaved
  <1>8. CASE QuietClosed(t)
    <2>1. /\ turn[t].pc = "closing" /\ UNCHANGED session /\ Goto(t, "delivered")
          /\ (AdvanceCursor(t) \/ UNCHANGED cursor)
      BY <1>8 DEF QuietClosed
    <2>2. ProgressOf(Moved("delivered"))
      BY <1>0, <1>a, <2>1 DEF ProgressOf
    <2>3. Effect(t, Moved("delivered"))
      BY <1>a, <1>d, <1>g, <2>1, <2>2 DEF Effect, MayHold, Ended
    <2> QED BY <2>3
  <1>9. CASE InvalidateSession(t)
    <2>1. Forget(t) /\ UNCHANGED <<turn, cursor>>
      BY <1>9 DEF InvalidateSession
    <2>2. turn' = [turn EXCEPT ![t] = turn[t]]
      BY <1>0, <2>1
    <2> QED BY <1>0, <2>1, <2>2 DEF Effect
  <1>10. CASE TurnThrows(t)
    <2>1. /\ turn[t].pc \in Awaiting /\ UNCHANGED <<session, cursor>>
          /\ Goto(t, "thrown")
      BY <1>10 DEF TurnThrows, agentVars
    <2>2. ProgressOf(Moved("thrown"))
      BY <1>a DEF ProgressOf
    <2> QED BY <1>a, <1>d, <2>1, <2>2 DEF Effect, MayHold, Ended, Awaiting
  <1> QED BY <1>1, <1>2, <1>3, <1>4, <1>5, <1>6, <1>7, <1>8, <1>9, <1>10 DEF TurnStep

\* Whoever keeps the turns, or adds one, and stores no session and no cursor keeps
\* the relation between them.
LEMMA StoreFrame ==
    ASSUME TypeOK, Progress, SessionHeld, CursorFollowsDelivery,
           DOMAIN turn \subseteq DOMAIN turn',
           \A u \in DOMAIN turn : turn'[u] = turn[u],
           \A u \in DOMAIN turn' \ DOMAIN turn : ProgressOf(turn'[u]),
           \A a \in Agents : session'[a] \in {0, session[a]} /\ cursor'[a] \in {0, cursor[a]},
           topic' = topic \/ \A a \in Agents : session'[a] = 0
    PROVE  Progress' /\ SessionHeld' /\ CursorFollowsDelivery'
  <1>1. Progress'
    BY DEF Progress
  <1>2. SessionHeld'
    <2> SUFFICES ASSUME NEW a \in Agents, session'[a] # 0
                 PROVE  /\ turn'[session'[a]].agent = a
                        /\ turn'[session'[a]].topic = topic'
                        /\ turn'[session'[a]].pc \in MayHold
      BY DEF SessionHeld
    <2>1. session'[a] = session[a] /\ topic' = topic
      OBVIOUS
    <2>2. session[a] \in DOMAIN turn
      BY <2>1 DEF TypeOK
    <2> QED BY <2>1, <2>2 DEF SessionHeld
  <1>3. CursorFollowsDelivery'
    BY DEF CursorFollowsDelivery
  <1> QED BY <1>1, <1>2, <1>3

\* The step of one turn keeps it too.
LEMMA EffectKeeps ==
    ASSUME StoreInv, NEW t \in DOMAIN turn, NEW r, Effect(t, r), topic' = topic
    PROVE  Progress' /\ SessionHeld' /\ CursorFollowsDelivery'
  <1>0. /\ turn \in Seq(TurnRecord) /\ t \in 1..Len(turn)
        /\ session \in [Agents -> 0..Len(turn)] /\ cursor \in [Agents -> Nat]
        /\ turn[t].agent \in Agents
    <2>1. turn \in Seq(TurnRecord) /\ turn[t] \in TurnRecord
      BY TurnTyped DEF StoreInv, HeardInv, TypeOK
    <2>2. t \in 1..Len(turn)
      BY <2>1
    <2>3. turn[t].agent \in Agents
      BY <2>1 DEF TurnRecord
    <2> QED BY <2>1, <2>2, <2>3 DEF StoreInv, HeardInv, TypeOK
  <1>1. /\ DOMAIN turn' = DOMAIN turn /\ turn'[t] = r
        /\ \A u \in DOMAIN turn : u # t => turn'[u] = turn[u]
    BY <1>0 DEF Effect
  <1>2. Progress'
    BY <1>1 DEF Effect, Progress, StoreInv
  <1>3. SessionHeld'
    <2> SUFFICES ASSUME NEW a \in Agents, session'[a] # 0
                 PROVE  /\ turn'[session'[a]].agent = a
                        /\ turn'[session'[a]].topic = topic
                        /\ turn'[session'[a]].pc \in MayHold
      BY DEF SessionHeld
    <2>h. session[a] # 0 => /\ session[a] \in DOMAIN turn
                            /\ turn[session[a]].agent = a
                            /\ turn[session[a]].topic = topic
                            /\ turn[session[a]].pc \in MayHold
      BY <1>0 DEF StoreInv, SessionHeld
    <2>1. CASE session' = session /\ (turn[t].pc \in MayHold => r.pc \in MayHold)
      BY <1>1, <2>1, <2>h DEF Effect
    <2>2. CASE Forget(t)
      <3>1. a # turn[t].agent /\ session'[a] = session[a]
        BY <1>0, <2>2 DEF Forget
      <3> QED BY <1>1, <2>h, <3>1
    <2>3. CASE KeepSession(t) /\ r.pc \in MayHold /\ Current(t)
      <3>1. turn[t].topic = topic
        BY <2>3 DEF StoreInv, HeardInv, CurrentHeard, Heard
      <3>2. CASE a = turn[t].agent
        BY <1>0, <1>1, <2>3, <3>1, <3>2 DEF Effect, KeepSession
      <3>3. CASE a # turn[t].agent
        <4>1. session'[a] = session[a]
          BY <1>0, <2>3, <3>3 DEF KeepSession
        <4> QED BY <1>1, <2>h, <3>3, <4>1
      <3> QED BY <3>2, <3>3
    <2> QED BY <2>1, <2>2, <2>3 DEF Effect
  <1>4. CursorFollowsDelivery'
    <2> SUFFICES ASSUME NEW a \in Agents, cursor'[a] # 0
                 PROVE  \E u \in DOMAIN turn' : /\ turn'[u].agent = a
                                                /\ turn'[u].pc = "delivered"
                                                /\ turn'[u].seen = cursor'[a]
      BY DEF CursorFollowsDelivery
    <2>1. CASE cursor'[a] = cursor[a]
      <3>1. PICK u \in DOMAIN turn : /\ turn[u].agent = a /\ turn[u].pc = "delivered"
                                     /\ turn[u].seen = cursor[a]
        BY <2>1 DEF StoreInv, CursorFollowsDelivery
      <3>2. turn'[u].agent = a /\ turn'[u].pc = "delivered" /\ turn'[u].seen = cursor[a]
        BY <1>1, <3>1 DEF Effect, Ended
      <3> QED BY <1>1, <2>1, <3>2
    <2>2. CASE /\ a = turn[t].agent /\ r.pc = "delivered"
               /\ cursor' = [cursor EXCEPT ![turn[t].agent] = turn[t].seen]
      <3>1. turn'[t].agent = a /\ turn'[t].pc = "delivered" /\ turn'[t].seen = cursor'[a]
        BY <1>0, <1>1, <2>2 DEF Effect
      <3> QED BY <1>1, <3>1
    <2> QED BY <1>0, <2>1, <2>2 DEF Effect
  <1> QED BY <1>2, <1>3, <1>4

\* Initially nothing is stored.
LEMMA StoreInit == Init => StoreInv
  <1> SUFFICES ASSUME Init PROVE StoreInv
    OBVIOUS
  <1>1. DOMAIN turn = {}
    BY DEF Init
  <1> QED BY <1>1, HeardInit
          DEF Init, StoreInv, Progress, SessionHeld, CursorFollowsDelivery

\* Every step keeps the relation.
LEMMA StoreStep == StoreInv /\ [Next]_vars => StoreInv'
  <1> SUFFICES ASSUME StoreInv, [Next]_vars PROVE StoreInv'
    OBVIOUS
  <1> DEFINE Stays == Progress' /\ SessionHeld' /\ CursorFollowsDelivery'
  <1>0. HeardInv' /\ TypeOK /\ Progress /\ SessionHeld /\ CursorFollowsDelivery
    BY HeardStep DEF StoreInv, HeardInv
  <1>a. /\ session \in [Agents -> 0..Len(turn)] /\ cursor \in [Agents -> Nat]
        /\ turn \in Seq(TurnRecord)
    BY <1>0 DEF TypeOK
  <1>1. ASSUME NEW a \in Agents, StartTurn(a) PROVE Stays
    <2> DEFINE n == Len(turn) + 1
               r == [agent |-> a, pc |-> "generating", rev |-> revision, seen |-> stored,
                     roster |-> roster, topic |-> topic, size |-> 0, written |-> 0]
    <2>1. ProgressOf(r)
      BY DEF ProgressOf
    <2>2. turn' = Append(turn, r) /\ UNCHANGED <<topic, session, cursor>>
      BY <1>1 DEF StartTurn, routeFrame, roomVars, agentVars
    <2> HIDE DEF r
    <2>3. /\ DOMAIN turn' = DOMAIN turn \cup {n} /\ turn'[n] = r
          /\ \A u \in DOMAIN turn : turn'[u] = turn[u]
      BY <1>a, <2>2
    <2> QED BY <1>0, <2>1, <2>2, <2>3, StoreFrame
  <1>2. ASSUME ChangeTopic PROVE Stays
    <2>1. /\ UNCHANGED turn
          /\ \A a \in Agents : session'[a] = 0 /\ cursor'[a] = 0
      BY <1>2 DEF ChangeTopic
    <2> QED BY <1>0, <2>1, StoreFrame
  <1>3. ASSUME NEW a \in Agents, NEW on \in BOOLEAN, NEW reconfigured \in BOOLEAN,
               EditRoster(a, on, reconfigured)
        PROVE  Stays
    <2>1. /\ UNCHANGED <<turn, topic, cursor>>
          /\ \A b \in Agents : session'[b] \in {0, session[b]}
      BY <1>3 DEF EditRoster
    <2> QED BY <1>0, <2>1, StoreFrame
  <1>4. ASSUME NEW t \in DOMAIN turn, TurnStep(t) \/ InvalidateSession(t) \/ TurnThrows(t)
        PROVE  Stays
    <2>1. PICK r : Effect(t, r)
      BY <1>0, <1>4, StepEffect
    <2>2. topic' = topic
      BY <1>0, <1>4, TurnActionFrame DEF roomVars
    <2> QED BY <2>1, <2>2, EffectKeeps
  <1>5. ASSUME UNCHANGED <<turn, topic, session, cursor>> PROVE Stays
    BY <1>0, <1>5, StoreFrame
  <1>6. ASSUME NEW m \in Messages,
               \/ ReceiveRoomMessage(m) \/ AnnounceRoomMessage(m)
               \/ ReceiveDeveloperMessage(m) \/ EnqueueConversation(m)
               \/ RouteThrows(m)
        PROVE  Stays
    BY <1>5, <1>6 DEF ReceiveRoomMessage, AnnounceRoomMessage, ReceiveDeveloperMessage,
                      EnqueueConversation, RouteThrows, roomVars, agentVars
  <1>7. ASSUME \/ RoomAction \/ CloseQueue \/ InterruptAtShutdown \/ JobEnds
               \/ StatusThrows \/ ReportFails \/ UNCHANGED vars
        PROVE  Stays
    BY <1>5, <1>7 DEF RoomAction, CloseQueue, InterruptAtShutdown, JobEnds, StatusThrows,
                      ReportFails, vars, roomVars, agentVars
  <1>8. Stays
    BY <1>1, <1>2, <1>3, <1>4, <1>6, <1>7 DEF Next
  <1> QED BY <1>0, <1>8 DEF StoreInv

\* The stored session and cursor of an agent follow what the room was given of its
\* turns: no cancelled burst leaves a session behind, no failed or overtaken
\* generation moves a cursor.
THEOREM StoredFollowsDelivery == Spec => []StoreFollowsDelivery
  <1>1. StoreInv => StoreFollowsDelivery
    <2> SUFFICES ASSUME StoreInv PROVE SessionFollowsDelivery
      BY DEF StoreInv, StoreFollowsDelivery
    <2> SUFFICES ASSUME NEW a \in Agents, session[a] # 0, ActiveOf(a) = {}
                 PROVE  LET t == turn[session[a]] IN
                        /\ t.agent = a /\ t.topic = topic
                        /\ \/ t.pc \in {"delivered", "overtaken"} /\ t.written = t.size
                           \/ t.pc = "thrown"
      BY DEF SessionFollowsDelivery
    <2>1. session[a] \in DOMAIN turn
      BY DEF StoreInv, HeardInv, TypeOK
    <2>2. /\ turn[session[a]].agent = a /\ turn[session[a]].topic = topic
          /\ turn[session[a]].pc \in MayHold
          /\ ProgressOf(turn[session[a]])
      BY <2>1 DEF StoreInv, SessionHeld, Progress
    <2>3. turn[session[a]].pc \notin Awaiting
      BY <2>1, <2>2 DEF ActiveOf, Active
    <2> QED BY <2>2, <2>3 DEF MayHold, Awaiting, ProgressOf
  <1> QED BY <1>1, StoreInit, StoreStep, PTL DEF Spec

-----------------------------------------------------------------------------
(***************************************************************************)
(* The event stream and the browser, RoomProtocol, for any client ids and  *)
(* any number of losses, restarts, posts and changes.  Its invariant is a  *)
(* history: a function from the versions of the current stream to what     *)
(* each of them shows, which the last published state, every event on the  *)
(* wire and the browser's position all agree with.  Nobody stores it, so   *)
(* the invariant says that one exists.  What a merge or a filter makes of  *)
(* a list follows step by step along the loop that it is, by the least     *)
(* step that would go wrong.                                               *)
(***************************************************************************)

-----------------------------------------------------------------------------
(* Loops *)

\* A set of natural numbers that is not empty has a least element.
LEMMA LeastOf ==
    ASSUME NEW I, I \subseteq Nat, I # {}
    PROVE  \E x \in I : \A y \in I : x <= y
  <1>1. \E x \in I : \A y \in I : ~(<<y, x>> \in OpToRel(<, Nat))
    BY NatLessThanWellFounded, WFMin
  <1>2. PICK x \in I : \A y \in I : ~(<<y, x>> \in OpToRel(<, Nat))
    BY <1>1
  <1>3. ASSUME NEW y \in I PROVE x <= y
    <2>1. <<y, x>> \in Nat \X Nat /\ <<y, x>>[1] = y /\ <<y, x>>[2] = x
      OBVIOUS
    <2>2. ~(y < x)
      BY <1>2, <2>1 DEF OpToRel
    <2> QED BY <2>2
  <1> QED BY <1>3

\* Induction up to n, for a set of numbers in the place of a predicate.
LEMMA InductionTo ==
    ASSUME NEW n \in Nat, NEW P, 0 \in P, \A k \in 1..n : k - 1 \in P => k \in P
    PROVE  \A k \in 0..n : k \in P
  <1> DEFINE Missed == {k \in 0..n : k \notin P}
  <1>1. CASE Missed # {}
    <2>1. Missed \subseteq Nat
      OBVIOUS
    <2>2. PICK m \in Missed : \A k \in Missed : m <= k
      BY <1>1, <2>1, LeastOf
    <2>3. m \in 0..n /\ m \notin P /\ m # 0
      OBVIOUS
    <2>4. m \in 1..n /\ m - 1 \in 0..n /\ ~(m <= m - 1)
      BY <2>3
    <2>5. m - 1 \in P
      BY <2>2, <2>4
    <2> QED BY <2>3, <2>4, <2>5
  <1>2. CASE Missed = {}
    BY <1>2
  <1> QED BY <1>1, <1>2

\* f holds the value that a loop of n steps has after each of them.
IsLoop(f, S, n, z, step) ==
    f \in [0..n -> S] /\ f[0] = z /\ \A k \in 1..n : f[k] = step[k][f[k - 1]]

\* A loop of n steps has a value after each of them.
LEMMA LoopExists ==
    ASSUME NEW S, NEW n \in Nat, NEW z \in S, NEW step \in [1..n -> [S -> S]]
    PROVE  \E f : IsLoop(f, S, n, z, step)
  <1> DEFINE Reached(m) ==
                \E f \in [0..m -> S] : f[0] = z /\ \A k \in 1..m : f[k] = step[k][f[k - 1]]
             P == {m \in 0..n : Reached(m)}
  <1>1. Reached(0)
    <2> DEFINE f == [k \in 0..0 |-> z]
    <2>1. f \in [0..0 -> S] /\ f[0] = z /\ \A k \in 1..0 : f[k] = step[k][f[k - 1]]
      OBVIOUS
    <2> QED BY <2>1
  <1>2. ASSUME NEW m \in 1..n, Reached(m - 1) PROVE Reached(m)
    <2>1. PICK f \in [0..(m - 1) -> S] :
              f[0] = z /\ \A k \in 1..(m - 1) : f[k] = step[k][f[k - 1]]
      BY <1>2
    <2>2. m \in Nat /\ m - 1 \in 0..(m - 1) /\ 0 \in 0..(m - 1) /\ 0..m = 0..(m - 1) \cup {m}
      OBVIOUS
    <2> DEFINE g == [k \in 0..m |-> IF k = m THEN step[m][f[m - 1]] ELSE f[k]]
    <2>3. f[m - 1] \in S
      BY <2>1, <2>2
    <2>4. step[m][f[m - 1]] \in S
      BY <2>3
    <2>5. \A k \in 0..m : g[k] \in S
      BY <2>1, <2>4
    <2>6. g \in [0..m -> S]
      BY <2>5
    <2>7. g[0] = z
      BY <2>1, <2>2
    <2>8. ASSUME NEW k \in 1..m PROVE g[k] = step[k][g[k - 1]]
      <3>1. k - 1 \in 0..m /\ k \in 0..m /\ k - 1 # m
        BY <2>2
      <3>2. g[k - 1] = f[k - 1]
        BY <3>1
      <3>3. CASE k = m
        BY <3>2, <3>3
      <3>4. CASE k # m
        <4>1. k \in 1..(m - 1)
          BY <3>4, <2>2
        <4>2. g[k] = f[k]
          BY <3>1, <3>4
        <4> QED BY <4>1, <4>2, <3>2, <2>1
      <3> QED BY <3>3, <3>4
    <2> HIDE DEF g
    <2> QED BY <2>6, <2>7, <2>8
  <1> HIDE DEF Reached
  <1>3. 0 \in P /\ \A m \in 1..n : m - 1 \in P => m \in P
    BY <1>1, <1>2
  <1> HIDE DEF P
  <1>4. n \in P
    <2>1. n \in 0..n
      OBVIOUS
    <2> QED BY <2>1, <1>3, InductionTo
  <1>5. Reached(n)
    BY <1>4 DEF P
  <1> QED BY <1>5 DEF Reached, IsLoop

\* f holds what the filter has kept after each of its steps.
IsKept(f, s, T) ==
    f = [n \in 0..Len(s) |->
            IF n = 0 THEN << >> ELSE IF s[n] \in T THEN Append(f[n - 1], s[n]) ELSE f[n - 1]]

\* The loop of a filter has a value after each of its steps.
LEMMA KeptSteps == ASSUME NEW S, NEW s \in Seq(S), NEW T PROVE \E f : IsKept(f, s, T)
  <1> DEFINE Q == Seq(S)
             m == Len(s)
             z == << >>
             step == [n \in 1..m |-> [q \in Q |-> IF s[n] \in T THEN Append(q, s[n]) ELSE q]]
  <1>1. m \in Nat /\ z \in Q /\ step \in [1..m -> [Q -> Q]]
    OBVIOUS
  <1>2. \A n \in 1..m : \A q \in Q :
            step[n][q] = IF s[n] \in T THEN Append(q, s[n]) ELSE q
    OBVIOUS
  <1> HIDE DEF step, Q, m, z
  <1>3. PICK f : IsLoop(f, Q, m, z, step)
    BY <1>1, LoopExists
  <1>4. ASSUME NEW n \in 0..m
        PROVE  f[n] = IF n = 0 THEN << >>
                      ELSE IF s[n] \in T THEN Append(f[n - 1], s[n]) ELSE f[n - 1]
    <2>1. CASE n = 0
      BY <2>1, <1>3 DEF z, IsLoop
    <2>2. CASE n # 0
      <3>1. n \in 1..m /\ n - 1 \in 0..m
        BY <1>1, <2>2
      <3>2. f[n] = step[n][f[n - 1]] /\ f[n - 1] \in Q
        BY <1>3, <3>1 DEF IsLoop
      <3> QED BY <3>1, <3>2, <1>2, <2>2
    <2> QED BY <2>1, <2>2
  <1>5. f = [n \in 0..m |->
                IF n = 0 THEN << >>
                ELSE IF s[n] \in T THEN Append(f[n - 1], s[n]) ELSE f[n - 1]]
    BY <1>3, <1>4 DEF IsLoop
  <1> QED BY <1>5 DEF m, IsKept

\* f holds the sequences over S that the filter has kept on its way to the result.
Keeps(f, S, s, T) ==
    /\ f \in [0..Len(s) -> Seq(S)] /\ f[0] = << >> /\ Kept(s, T) = f[Len(s)]
    /\ \A n \in 1..Len(s) : f[n] = IF s[n] \in T THEN Append(f[n - 1], s[n]) ELSE f[n - 1]

\* The values of the loop that Kept is.
LEMMA KeptLoop == ASSUME NEW S, NEW s \in Seq(S), NEW T PROVE \E f : Keeps(f, S, s, T)
  <1>1. \E f : Kept(s, T) = f[Len(s)] /\ IsKept(f, s, T)
    <2> DEFINE kept == CHOOSE f : IsKept(f, s, T)
    <2>1. Kept(s, T) = kept[Len(s)]
      BY DEF Kept, IsKept
    <2>2. IsKept(kept, s, T)
      BY KeptSteps, Zenon
    <2> QED BY <2>1, <2>2, Zenon
  <1>2. PICK f : Kept(s, T) = f[Len(s)] /\ IsKept(f, s, T)
    BY <1>1
  <1>3. Len(s) \in Nat /\ << >> \in Seq(S) /\ DOMAIN f = 0..Len(s)
    BY <1>2 DEF IsKept
  <1>4. f[0] = << >>
    <2>1. 0 \in 0..Len(s)
      BY <1>3
    <2> QED BY <1>2, <2>1 DEF IsKept
  <1>5. ASSUME NEW n \in 1..Len(s)
        PROVE  f[n] = IF s[n] \in T THEN Append(f[n - 1], s[n]) ELSE f[n - 1]
    <2>1. n \in 0..Len(s) /\ n # 0
      BY <1>3
    <2> QED BY <1>2, <2>1 DEF IsKept
  <1> DEFINE P == {n \in 0..Len(s) : f[n] \in Seq(S)}
  <1>a. 0 \in P
    <2>1. 0 \in 0..Len(s)
      BY <1>3
    <2> QED BY <2>1, <1>3, <1>4
  <1>6. ASSUME NEW n \in 1..Len(s), n - 1 \in P PROVE n \in P
    <2>1. s[n] \in S /\ f[n - 1] \in Seq(S)
      BY <1>6
    <2>2. n \in 0..Len(s)
      BY <1>3
    <2>3. Append(f[n - 1], s[n]) \in Seq(S)
      BY <2>1
    <2>4. f[n] \in Seq(S)
      BY <2>1, <2>3, <1>5
    <2> QED BY <2>2, <2>4
  <1> HIDE DEF P
  <1>7. \A n \in 0..Len(s) : n \in P
    BY <1>3, <1>a, <1>6, InductionTo
  <1>8. f \in [0..Len(s) -> Seq(S)]
    BY <1>2, <1>3, <1>7 DEF P, IsKept
  <1> QED BY <1>2, <1>4, <1>5, <1>8 DEF Keeps

-----------------------------------------------------------------------------
(* Sequences and lists of messages *)

\* The messages of the room as the browser holds them.
Mess == [id : Nat, cid : ClientIds \cup {NoId}]

\* Two entries of the list show different messages.
Clear(x, y) == x # y /\ (x.cid = NoId \/ x.cid # y.cid)

\* No two places of the list show the same message.
Apart(q) == \A i, j \in DOMAIN q : i # j => Clear(q[i], q[j])

\* The elements of a sequence after one more.
LEMMA AppendSet ==
    ASSUME NEW S, NEW q \in Seq(S), NEW x \in S
    PROVE  ToSet(Append(q, x)) = ToSet(q) \cup {x} /\ ToSet(q) \subseteq S
  <1>1. /\ DOMAIN Append(q, x) = 1..(Len(q) + 1) /\ DOMAIN q = 1..Len(q)
        /\ Append(q, x)[Len(q) + 1] = x /\ Len(q) \in Nat
    OBVIOUS
  <1>2. \A i \in 1..Len(q) : Append(q, x)[i] = q[i] /\ q[i] \in S
    OBVIOUS
  <1>3. 1..(Len(q) + 1) = 1..Len(q) \cup {Len(q) + 1}
    BY <1>1
  <1>4. ASSUME NEW y \in ToSet(Append(q, x)) PROVE y \in ToSet(q) \cup {x}
    BY <1>1, <1>2, <1>3, <1>4 DEF ToSet
  <1>5. ToSet(q) \subseteq ToSet(Append(q, x))
    BY <1>1, <1>2, <1>3 DEF ToSet
  <1>6. x \in ToSet(Append(q, x))
    BY <1>1, <1>3 DEF ToSet
  <1>7. ToSet(q) \subseteq S
    BY <1>1, <1>2 DEF ToSet
  <1> QED BY <1>4, <1>5, <1>6, <1>7

\* The elements of two sequences in a row.
LEMMA ConcatSet ==
    ASSUME NEW S, NEW p \in Seq(S), NEW q \in Seq(S)
    PROVE  /\ p \o q \in Seq(S) /\ DOMAIN (p \o q) = 1..(Len(p) + Len(q))
           /\ \A i \in 1..Len(p) : (p \o q)[i] = p[i]
           /\ \A i \in (Len(p) + 1)..(Len(p) + Len(q)) : (p \o q)[i] = q[i - Len(p)]
           /\ ToSet(p \o q) = ToSet(p) \cup ToSet(q)
  <1>1. /\ p \o q \in Seq(S) /\ DOMAIN (p \o q) = 1..(Len(p) + Len(q))
        /\ DOMAIN p = 1..Len(p) /\ DOMAIN q = 1..Len(q) /\ Len(p) \in Nat /\ Len(q) \in Nat
    OBVIOUS
  <1>2. \A i \in 1..Len(p) : (p \o q)[i] = p[i] /\ i \in 1..(Len(p) + Len(q))
    BY ConcatProperties
  <1>3. \A i \in (Len(p) + 1)..(Len(p) + Len(q)) : (p \o q)[i] = q[i - Len(p)]
    BY ConcatProperties
  <1>4. ASSUME NEW x \in ToSet(p \o q) PROVE x \in ToSet(p) \cup ToSet(q)
    <2>1. PICK i \in 1..(Len(p) + Len(q)) : x = (p \o q)[i]
      BY <1>1, <1>4 DEF ToSet
    <2>2. CASE i <= Len(p)
      <3>1. i \in 1..Len(p)
        BY <1>1, <2>2
      <3> QED BY <3>1, <1>1, <1>2, <2>1 DEF ToSet
    <2>3. CASE ~(i <= Len(p))
      <3>1. i \in (Len(p) + 1)..(Len(p) + Len(q)) /\ i - Len(p) \in 1..Len(q)
        BY <1>1, <2>3
      <3> QED BY <3>1, <1>1, <1>3, <2>1 DEF ToSet
    <2> QED BY <2>2, <2>3
  <1>5. ASSUME NEW x \in ToSet(p) PROVE x \in ToSet(p \o q)
    BY <1>1, <1>2, <1>5 DEF ToSet
  <1>6. ASSUME NEW x \in ToSet(q) PROVE x \in ToSet(p \o q)
    <2>1. PICK i \in 1..Len(q) : x = q[i]
      BY <1>1, <1>6 DEF ToSet
    <2>2. /\ Len(p) + i \in (Len(p) + 1)..(Len(p) + Len(q))
          /\ Len(p) + i \in 1..(Len(p) + Len(q)) /\ (Len(p) + i) - Len(p) = i
      BY <1>1
    <2>3. x = (p \o q)[Len(p) + i]
      BY <2>1, <2>2, <1>3
    <2> QED BY <2>2, <2>3, <1>1 DEF ToSet
  <1> QED BY <1>1, <1>2, <1>3, <1>4, <1>5, <1>6

\* The elements up to a place of a sequence.
Upto(s, n) == {s[k] : k \in 1..n}

\* One place further is one element more.
LEMMA UptoNext ==
    ASSUME NEW s, NEW n \in Nat, n # 0
    PROVE  Upto(s, n) = Upto(s, n - 1) \cup {s[n]}
  <1>1. \A k : k \in 1..n <=> (k \in 1..(n - 1) \/ k = n)
    OBVIOUS
  <1>2. ASSUME NEW x \in Upto(s, n) PROVE x \in Upto(s, n - 1) \cup {s[n]}
    <2>1. PICK k \in 1..n : x = s[k]
      BY <1>2 DEF Upto
    <2> QED BY <2>1, <1>1, Zenon DEF Upto
  <1>3. ASSUME NEW x \in Upto(s, n - 1) PROVE x \in Upto(s, n)
    BY <1>1, <1>3, Zenon DEF Upto
  <1>4. s[n] \in Upto(s, n)
    BY <1>1, Zenon DEF Upto
  <1> QED BY <1>2, <1>3, <1>4

\* A filter keeps the elements that are in T.
LEMMA KeptFacts ==
    ASSUME NEW S, NEW s \in Seq(S), NEW T
    PROVE  Kept(s, T) \in Seq(S) /\ ToSet(Kept(s, T)) = ToSet(s) \cap T
  <1>0. PICK f : Keeps(f, S, s, T)
    BY KeptLoop, Zenon
  <1>1. /\ f \in [0..Len(s) -> Seq(S)] /\ f[0] = << >> /\ Kept(s, T) = f[Len(s)]
        /\ \A n \in 1..Len(s) : f[n] = IF s[n] \in T THEN Append(f[n - 1], s[n]) ELSE f[n - 1]
    BY <1>0 DEF Keeps
  <1> DEFINE P == {n \in 0..Len(s) : ToSet(f[n]) = Upto(s, n) \cap T}
  <1>2. Len(s) \in Nat /\ Len(s) \in 0..Len(s) /\ 0 \in 0..Len(s) /\ DOMAIN s = 1..Len(s)
    OBVIOUS
  <1>3. 0 \in P
    <2>1. ToSet(<< >>) = {} /\ Upto(s, 0) = {}
      BY DEF ToSet, Upto
    <2> QED BY <2>1, <1>1, <1>2
  <1>4. ASSUME NEW n \in 1..Len(s), n - 1 \in P PROVE n \in P
    <2>1. n \in 0..Len(s) /\ n - 1 \in 0..Len(s) /\ 1..n = 1..(n - 1) \cup {n}
      BY <1>2
    <2>2. Upto(s, n) = Upto(s, n - 1) \cup {s[n]}
      BY UptoNext
    <2>3. ToSet(f[n - 1]) = Upto(s, n - 1) \cap T
      BY <1>4
    <2>4. s[n] \in S /\ f[n - 1] \in Seq(S)
      BY <2>1, <1>1
    <2>5. CASE s[n] \in T
      <3>1. f[n] = Append(f[n - 1], s[n])
        BY <1>1, <2>5
      <3>2. ToSet(f[n]) = ToSet(f[n - 1]) \cup {s[n]}
        BY <3>1, <2>4, AppendSet
      <3> QED BY <3>2, <2>1, <2>2, <2>3, <2>5
    <2>6. CASE s[n] \notin T
      <3>1. f[n] = f[n - 1]
        BY <1>1, <2>6
      <3> QED BY <3>1, <2>1, <2>2, <2>3, <2>6
    <2> QED BY <2>5, <2>6
  <1> HIDE DEF P
  <1>5. Len(s) \in P
    BY <1>2, <1>3, <1>4, InductionTo
  <1>6. ToSet(Kept(s, T)) = Upto(s, Len(s)) \cap T
    BY <1>1, <1>5 DEF P
  <1>7. Upto(s, Len(s)) = ToSet(s)
    BY <1>2 DEF ToSet, Upto
  <1>8. Kept(s, T) \in Seq(S)
    BY <1>1, <1>2
  <1> QED BY <1>6, <1>7, <1>8

\* A message that differs from all of a list can be added to it.
LEMMA ApartAppend ==
    ASSUME NEW q \in Seq(Mess), NEW x \in Mess, Apart(q), \A y \in ToSet(q) : Clear(x, y)
    PROVE  Apart(Append(q, x))
  <1>1. /\ DOMAIN Append(q, x) = 1..(Len(q) + 1) /\ DOMAIN q = 1..Len(q)
        /\ Append(q, x)[Len(q) + 1] = x /\ Len(q) \in Nat
    OBVIOUS
  <1>2. \A i \in 1..Len(q) : Append(q, x)[i] = q[i]
    OBVIOUS
  <1>3. \A i \in 1..(Len(q) + 1) : i # Len(q) + 1 => i \in 1..Len(q)
    BY <1>1
  <1>4. \A i \in 1..Len(q) : q[i] \in ToSet(q)
    BY <1>1 DEF ToSet
  <1>5. \A y : Clear(x, y) => Clear(y, x)
    BY DEF Clear
  <1> QED BY <1>1, <1>2, <1>3, <1>4, <1>5, Zenon DEF Apart

\* Two lists in a row, when no message is in both.
LEMMA ApartConcat ==
    ASSUME NEW p \in Seq(Mess), NEW q \in Seq(Mess), Apart(p), Apart(q),
           \A x \in ToSet(p), y \in ToSet(q) : Clear(x, y)
    PROVE  Apart(p \o q)
  <1>1. /\ DOMAIN (p \o q) = 1..(Len(p) + Len(q))
        /\ DOMAIN p = 1..Len(p) /\ DOMAIN q = 1..Len(q) /\ Len(p) \in Nat /\ Len(q) \in Nat
    OBVIOUS
  <1>2. \A i \in 1..Len(p) : (p \o q)[i] = p[i]
    BY ConcatSet
  <1>3. \A i \in (Len(p) + 1)..(Len(p) + Len(q)) : (p \o q)[i] = q[i - Len(p)]
    BY ConcatSet
  <1>4. \A i \in 1..(Len(p) + Len(q)) :
            i \in 1..Len(p) \/ (i \in (Len(p) + 1)..(Len(p) + Len(q)) /\ i - Len(p) \in 1..Len(q))
    BY <1>1
  <1>5. \A i \in 1..Len(p) : p[i] \in ToSet(p)
    BY <1>1 DEF ToSet
  <1>6. \A i \in 1..Len(q) : q[i] \in ToSet(q)
    BY <1>1 DEF ToSet
  <1>7. \A x, y : Clear(x, y) => Clear(y, x)
    BY DEF Clear
  <1>8. \A i, j \in (Len(p) + 1)..(Len(p) + Len(q)) : i # j => i - Len(p) # j - Len(p)
    BY <1>1
  <1>9. ASSUME NEW i \in 1..(Len(p) + Len(q)), NEW j \in 1..(Len(p) + Len(q)), i # j
        PROVE  Clear((p \o q)[i], (p \o q)[j])
    <2>1. CASE i \in 1..Len(p) /\ j \in 1..Len(p)
      BY <2>1, <1>1, <1>2, <1>9, Zenon DEF Apart
    <2>2. CASE i \in 1..Len(p) /\ j \notin 1..Len(p)
      BY <2>2, <1>2, <1>3, <1>4, <1>5, <1>6, Zenon
    <2>3. CASE i \notin 1..Len(p) /\ j \in 1..Len(p)
      BY <2>3, <1>2, <1>3, <1>4, <1>5, <1>6, <1>7, Zenon
    <2>4. CASE i \notin 1..Len(p) /\ j \notin 1..Len(p)
      <3>1. /\ i \in (Len(p) + 1)..(Len(p) + Len(q)) /\ j \in (Len(p) + 1)..(Len(p) + Len(q))
            /\ i - Len(p) \in DOMAIN q /\ j - Len(p) \in DOMAIN q
        BY <2>4, <1>1, <1>4, Zenon
      <3>2. i - Len(p) # j - Len(p)
        BY <3>1, <1>8, <1>9, Zenon
      <3>3. Clear(q[i - Len(p)], q[j - Len(p)])
        BY <3>1, <3>2, Zenon DEF Apart
      <3> QED BY <3>1, <3>3, <1>3, Zenon
    <2> QED BY <2>1, <2>2, <2>3, <2>4
  <1> QED BY <1>1, <1>9 DEF Apart

\* A message that differs from all the others can take the place of one.
LEMMA ApartReplace ==
    ASSUME NEW q \in Seq(Mess), NEW i \in DOMAIN q, NEW x \in Mess, Apart(q),
           \A j \in DOMAIN q : j # i => Clear(x, q[j])
    PROVE  Apart([q EXCEPT ![i] = x]) /\ [q EXCEPT ![i] = x] \in Seq(Mess)
  <1> DEFINE r == [q EXCEPT ![i] = x]
  <1>1. r \in Seq(Mess) /\ DOMAIN r = DOMAIN q /\ r[i] = x /\ \A j \in DOMAIN q : j # i => r[j] = q[j]
    OBVIOUS
  <1>2. \A y, z : Clear(y, z) => Clear(z, y)
    BY DEF Clear
  <1> HIDE DEF r
  <1>3. ASSUME NEW j \in DOMAIN q, NEW k \in DOMAIN q, j # k PROVE Clear(r[j], r[k])
    <2>1. CASE j = i
      <3>1. r[j] = x /\ r[k] = q[k] /\ Clear(x, q[k])
        BY <2>1, <1>1, <1>3
      <3> QED BY <3>1
    <2>2. CASE k = i
      <3>1. r[k] = x /\ r[j] = q[j] /\ Clear(x, q[j])
        BY <2>2, <1>1, <1>3
      <3> QED BY <3>1, <1>2
    <2>3. CASE j # i /\ k # i
      <3>1. r[k] = q[k] /\ r[j] = q[j] /\ Clear(q[j], q[k])
        BY <2>3, <1>1, <1>3 DEF Apart
      <3> QED BY <3>1
    <2> QED BY <2>1, <2>2, <2>3
  <1>4. Apart(r)
    BY <1>1, <1>3 DEF Apart
  <1> QED BY <1>1, <1>4 DEF r

\* What a filter keeps of a list that shows every message once does so too.
LEMMA KeptApart ==
    ASSUME NEW s \in Seq(Mess), NEW T, Apart(s)
    PROVE  Apart(Kept(s, T))
  <1>0. PICK f : Keeps(f, Mess, s, T)
    BY KeptLoop, Zenon
  <1>1. /\ f \in [0..Len(s) -> Seq(Mess)] /\ f[0] = << >> /\ Kept(s, T) = f[Len(s)]
        /\ \A n \in 1..Len(s) : f[n] = IF s[n] \in T THEN Append(f[n - 1], s[n]) ELSE f[n - 1]
    BY <1>0 DEF Keeps
  <1> DEFINE P == {n \in 0..Len(s) : Apart(f[n]) /\ ToSet(f[n]) \subseteq Upto(s, n)}
  <1>2. Len(s) \in Nat /\ Len(s) \in 0..Len(s) /\ 0 \in 0..Len(s) /\ DOMAIN s = 1..Len(s)
    OBVIOUS
  <1>3. 0 \in P
    <2>1. ToSet(<< >>) = {} /\ Apart(<< >>)
      BY DEF ToSet, Apart
    <2> QED BY <2>1, <1>1, <1>2
  <1>4. ASSUME NEW n \in 1..Len(s), n - 1 \in P PROVE n \in P
    <2>1. n \in 0..Len(s) /\ n - 1 \in 0..Len(s) /\ 1..n = 1..(n - 1) \cup {n}
      BY <1>2
    <2>2. Upto(s, n) = Upto(s, n - 1) \cup {s[n]}
      BY UptoNext
    <2>3. Apart(f[n - 1]) /\ ToSet(f[n - 1]) \subseteq Upto(s, n - 1)
      BY <1>4
    <2>4. s[n] \in Mess /\ f[n - 1] \in Seq(Mess)
      BY <2>1, <1>1
    <2>5. \A k \in 1..(n - 1) : k \in DOMAIN s /\ k # n /\ n \in DOMAIN s
      BY <1>2
    <2>6. \A y \in Upto(s, n - 1) : Clear(s[n], y)
      BY <2>5 DEF Apart, Upto
    <2>7. CASE s[n] \in T
      <3>1. f[n] = Append(f[n - 1], s[n])
        BY <1>1, <2>7
      <3>2. ToSet(f[n]) = ToSet(f[n - 1]) \cup {s[n]}
        BY <3>1, <2>4, AppendSet
      <3>3. \A y \in ToSet(f[n - 1]) : Clear(s[n], y)
        BY <2>3, <2>6
      <3>4. Apart(f[n])
        BY <3>1, <3>3, <2>3, <2>4, ApartAppend
      <3> QED BY <3>2, <3>4, <2>1, <2>2, <2>3
    <2>8. CASE s[n] \notin T
      <3>1. f[n] = f[n - 1]
        BY <1>1, <2>8
      <3> QED BY <3>1, <2>1, <2>2, <2>3
    <2> QED BY <2>7, <2>8
  <1> HIDE DEF P
  <1>5. Len(s) \in P
    BY <1>2, <1>3, <1>4, InductionTo
  <1> QED BY <1>1, <1>5 DEF P

-----------------------------------------------------------------------------
(* What an event makes of the browser's list *)

\* What a list may show of a message: an optimistic one or one of the log.
Holds(x) ==
    /\ x.id = 0 => x.cid # NoId
    /\ x.id # 0 => x.id \in DOMAIN log /\ x.cid = log[x.id]

\* No message of the browser is stored twice.
LogOnce == \A i, j \in DOMAIN log : i # j => log[i] = NoId \/ log[i] # log[j]

\* A list that shows every message once, and only what it may show.
Sound(q) == q \in Seq(Mess) /\ Apart(q) /\ \A x \in ToSet(q) : Holds(x)

\* The places of a list that mergeAuthoritativeMessages finds for a message.
SamePlaces(q, m) == {i \in DOMAIN q : q[i].id = m.id \/ (m.cid # NoId /\ q[i].cid = m.cid)}

\* What stands at such a place is the message or its optimistic form.
LEMMA SameMessage ==
    ASSUME LogOnce, NEW x \in Mess, NEW m \in Mess, Holds(x), Holds(m), m.id # 0,
           x.id = m.id \/ (m.cid # NoId /\ x.cid = m.cid)
    PROVE  x = m \/ (x.id = 0 /\ x.cid = m.cid /\ m.cid # NoId)
  <1>1. x = [id |-> x.id, cid |-> x.cid] /\ m = [id |-> m.id, cid |-> m.cid]
    BY DEF Mess
  <1>2. CASE x.id = 0
    BY <1>2
  <1>3. CASE x.id # 0 /\ x.id = m.id
    <2>1. x.cid = m.cid
      BY <1>3 DEF Holds
    <2> QED BY <1>1, <1>3, <2>1
  <1>4. CASE x.id # 0 /\ x.id # m.id
    <2>1. m.cid # NoId /\ x.cid = m.cid
      BY <1>4
    <2>2. /\ x.id \in DOMAIN log /\ x.cid = log[x.id]
          /\ m.id \in DOMAIN log /\ m.cid = log[m.id]
      BY <1>4 DEF Holds
    <2> QED BY <1>4, <2>1, <2>2 DEF LogOnce
  <1> QED BY <1>2, <1>3, <1>4

\* A list has at most one place for a message.
LEMMA OnePlace ==
    ASSUME LogOnce, NEW q, Sound(q), NEW m \in Mess, Holds(m), m.id # 0,
           NEW i \in SamePlaces(q, m), NEW j \in SamePlaces(q, m)
    PROVE  i = j
  <1>1. /\ i \in DOMAIN q /\ q[i] \in Mess /\ Holds(q[i])
        /\ q[i].id = m.id \/ (m.cid # NoId /\ q[i].cid = m.cid)
    BY DEF SamePlaces, Sound, ToSet
  <1>2. /\ j \in DOMAIN q /\ q[j] \in Mess /\ Holds(q[j])
        /\ q[j].id = m.id \/ (m.cid # NoId /\ q[j].cid = m.cid)
    BY DEF SamePlaces, Sound, ToSet
  <1>3. q[i] = m \/ (q[i].id = 0 /\ q[i].cid = m.cid /\ m.cid # NoId)
    BY <1>1, SameMessage
  <1>4. q[j] = m \/ (q[j].id = 0 /\ q[j].cid = m.cid /\ m.cid # NoId)
    BY <1>2, SameMessage
  <1>5. ~Clear(q[i], q[j])
    <2>1. CASE q[i].id = 0 /\ q[j].id = 0
      BY <2>1, <1>3, <1>4 DEF Clear
    <2>2. CASE q[i] = m /\ q[j] = m
      BY <2>2 DEF Clear
    <2>3. CASE q[i] = m /\ q[j].id = 0 /\ q[j].cid = m.cid /\ m.cid # NoId
      BY <2>3 DEF Clear
    <2>4. CASE q[j] = m /\ q[i].id = 0 /\ q[i].cid = m.cid /\ m.cid # NoId
      BY <2>4 DEF Clear
    <2> QED BY <2>1, <2>2, <2>3, <2>4, <1>3, <1>4
  <1> QED BY <1>1, <1>2, <1>5 DEF Sound, Apart

\* A stored message reaches the list once and leaves the others there.
LEMMA MergeOneFacts ==
    ASSUME LogOnce, NEW q, Sound(q), NEW m \in Mess, Holds(m), m.id # 0
    PROVE  /\ Sound(MergeOne(q, m)) /\ ToSet(MergeOne(q, m)) \subseteq ToSet(q) \cup {m}
           /\ Authoritative(MergeOne(q, m)) = Authoritative(q) \cup {m}
  <1>1. /\ q \in Seq(Mess) /\ Apart(q) /\ DOMAIN q = 1..Len(q) /\ Len(q) \in Nat
        /\ \A x \in ToSet(q) : Holds(x)
    BY DEF Sound
  <1>2. \A i \in DOMAIN q : i \notin SamePlaces(q, m) => Clear(m, q[i])
    BY DEF SamePlaces, Clear
  <1>3. CASE SamePlaces(q, m) = {}
    <2>1. MergeOne(q, m) = Append(q, m)
      BY <1>3 DEF MergeOne, SamePlaces
    <2>2. \A y \in ToSet(q) : Clear(m, y)
      BY <1>2, <1>3 DEF ToSet
    <2>3. Apart(Append(q, m)) /\ Append(q, m) \in Seq(Mess)
      BY <1>1, <2>2, ApartAppend
    <2>4. ToSet(Append(q, m)) = ToSet(q) \cup {m}
      BY <1>1, AppendSet
    <2> QED BY <2>1, <2>3, <2>4, <1>1 DEF Sound, Authoritative
  <1>4. CASE SamePlaces(q, m) # {}
    <2> DEFINE k == CHOOSE i \in SamePlaces(q, m) : \A j \in SamePlaces(q, m) : i <= j
    <2>1. k \in SamePlaces(q, m)
      <3>1. SamePlaces(q, m) \subseteq Nat
        BY <1>1 DEF SamePlaces
      <3>2. \E i \in SamePlaces(q, m) : \A j \in SamePlaces(q, m) : i <= j
        BY <3>1, <1>4, LeastOf
      <3> QED BY <3>2
    <2>2. MergeOne(q, m) = [q EXCEPT ![k] = m]
      BY <1>4 DEF MergeOne, SamePlaces
    <2> HIDE DEF k
    <2>3. k \in DOMAIN q /\ q[k] \in Mess /\ Holds(q[k])
      BY <1>1, <2>1 DEF SamePlaces, ToSet
    <2>4. q[k] = m \/ q[k].id = 0
      <3>1. q[k].id = m.id \/ (m.cid # NoId /\ q[k].cid = m.cid)
        BY <2>1 DEF SamePlaces
      <3> QED BY <2>3, <3>1, SameMessage
    <2>5. \A j \in DOMAIN q : j # k => Clear(m, q[j])
      BY <1>2, <2>1, OnePlace
    <2>6. Apart([q EXCEPT ![k] = m]) /\ [q EXCEPT ![k] = m] \in Seq(Mess)
      BY <1>1, <2>3, <2>5, ApartReplace
    <2> DEFINE r == [q EXCEPT ![k] = m]
    <2>7. DOMAIN r = DOMAIN q /\ r[k] = m /\ \A j \in DOMAIN q : j # k => r[j] = q[j]
      BY <1>1, <2>3
    <2> HIDE DEF r
    <2>8. ToSet(r) \subseteq ToSet(q) \cup {m}
      BY <2>7 DEF ToSet
    <2>9. m \in ToSet(r) /\ \A j \in DOMAIN q : j # k => q[j] \in ToSet(r)
      BY <2>3, <2>7 DEF ToSet
    <2>10. \A x \in ToSet(q) : x.id # 0 => x \in ToSet(r)
      BY <2>4, <2>9 DEF ToSet
    <2>11. Authoritative(r) = Authoritative(q) \cup {m}
      BY <2>8, <2>9, <2>10 DEF Authoritative
    <2> QED BY <2>2, <2>6, <2>8, <2>11, <1>1 DEF Sound, r
  <1> QED BY <1>3, <1>4

\* g holds the list after each message of the event.
IsMerged(g, q, t) ==
    g = [n \in 0..Len(t) |-> IF n = 0 THEN q ELSE MergeOne(g[n - 1], t[n])]

\* The merge of an event has a list after each of its messages.
LEMMA MergeSteps ==
    ASSUME LogOnce, NEW q, Sound(q), NEW t \in Seq(Mess),
           \A x \in ToSet(t) : Holds(x) /\ x.id # 0
    PROVE  \E g : IsMerged(g, q, t)
  <1> DEFINE S == {p \in Seq(Mess) : Sound(p)}
             m == Len(t)
             step == [n \in 1..m |-> [p \in S |-> MergeOne(p, t[n])]]
  <1>1. m \in Nat /\ q \in S /\ DOMAIN t = 1..m
    BY DEF Sound
  <1>2. ASSUME NEW n \in 1..m, NEW p \in S PROVE MergeOne(p, t[n]) \in S
    <2>1. t[n] \in Mess /\ t[n] \in ToSet(t) /\ Sound(p)
      BY <1>1 DEF ToSet
    <2>2. Sound(MergeOne(p, t[n]))
      BY <2>1, MergeOneFacts
    <2> QED BY <2>2 DEF Sound
  <1>3. step \in [1..m -> [S -> S]] /\ \A n \in 1..m : \A p \in S : step[n][p] = MergeOne(p, t[n])
    BY <1>2
  <1> HIDE DEF step, S, m
  <1>4. PICK g : IsLoop(g, S, m, q, step)
    BY <1>1, <1>3, LoopExists
  <1>5. ASSUME NEW n \in 0..m
        PROVE  g[n] = IF n = 0 THEN q ELSE MergeOne(g[n - 1], t[n])
    <2>1. CASE n = 0
      BY <2>1, <1>4 DEF IsLoop
    <2>2. CASE n # 0
      <3>1. n \in 1..m /\ n - 1 \in 0..m
        BY <1>1, <2>2
      <3>2. g[n] = step[n][g[n - 1]] /\ g[n - 1] \in S
        BY <1>4, <3>1 DEF IsLoop
      <3> QED BY <3>1, <3>2, <1>3, <2>2
    <2> QED BY <2>1, <2>2
  <1>6. g = [n \in 0..m |-> IF n = 0 THEN q ELSE MergeOne(g[n - 1], t[n])]
    BY <1>4, <1>5 DEF IsLoop
  <1> QED BY <1>6 DEF m, IsMerged

\* What an event adds to a list.
LEMMA MergeFacts ==
    ASSUME LogOnce, NEW q, Sound(q), NEW t \in Seq(Mess),
           \A x \in ToSet(t) : Holds(x) /\ x.id # 0
    PROVE  /\ Sound(Merge(q, t)) /\ ToSet(Merge(q, t)) \subseteq ToSet(q) \cup ToSet(t)
           /\ Authoritative(Merge(q, t)) = Authoritative(q) \cup ToSet(t)
  <1>1. \E g : Merge(q, t) = g[Len(t)] /\ IsMerged(g, q, t)
    <2> DEFINE merged == CHOOSE g : IsMerged(g, q, t)
    <2>1. Merge(q, t) = merged[Len(t)]
      BY DEF Merge, IsMerged
    <2>2. IsMerged(merged, q, t)
      BY MergeSteps, Zenon
    <2> QED BY <2>1, <2>2, Zenon
  <1>2. PICK g : Merge(q, t) = g[Len(t)] /\ IsMerged(g, q, t)
    BY <1>1
  <1>3. Len(t) \in Nat /\ Len(t) \in 0..Len(t) /\ 0 \in 0..Len(t) /\ DOMAIN t = 1..Len(t)
    OBVIOUS
  <1>4. g[0] = q
    BY <1>2, <1>3 DEF IsMerged
  <1>5. ASSUME NEW n \in 1..Len(t) PROVE g[n] = MergeOne(g[n - 1], t[n])
    <2>1. n \in 0..Len(t) /\ n # 0
      BY <1>3
    <2> QED BY <1>2, <2>1 DEF IsMerged
  <1> DEFINE P == {n \in 0..Len(t) : /\ Sound(g[n]) /\ ToSet(g[n]) \subseteq ToSet(q) \cup Upto(t, n)
                                     /\ Authoritative(g[n]) = Authoritative(q) \cup Upto(t, n)}
  <1>6. 0 \in P
    BY <1>3, <1>4 DEF Upto
  <1>7. ASSUME NEW n \in 1..Len(t), n - 1 \in P PROVE n \in P
    <2>1. /\ Sound(g[n - 1]) /\ ToSet(g[n - 1]) \subseteq ToSet(q) \cup Upto(t, n - 1)
          /\ Authoritative(g[n - 1]) = Authoritative(q) \cup Upto(t, n - 1)
      BY <1>7
    <2>2. t[n] \in Mess /\ t[n] \in ToSet(t) /\ n \in 0..Len(t)
      BY <1>3 DEF ToSet
    <2>3. /\ Sound(g[n]) /\ ToSet(g[n]) \subseteq ToSet(g[n - 1]) \cup {t[n]}
          /\ Authoritative(g[n]) = Authoritative(g[n - 1]) \cup {t[n]}
      BY <1>5, <2>1, <2>2, MergeOneFacts
    <2>4. Upto(t, n) = Upto(t, n - 1) \cup {t[n]}
      BY UptoNext
    <2> QED BY <2>1, <2>2, <2>3, <2>4
  <1> HIDE DEF P
  <1>8. Len(t) \in P
    BY <1>3, <1>6, <1>7, InductionTo
  <1>9. Upto(t, Len(t)) = ToSet(t)
    BY <1>3 DEF Upto, ToSet
  <1> QED BY <1>2, <1>8, <1>9 DEF P

\* What a snapshot makes of a list.
LEMMA InstallFacts ==
    ASSUME NEW q, Sound(q), NEW t \in Seq(Mess), Apart(t),
           \A x \in ToSet(t) : Holds(x) /\ x.id # 0
    PROVE  /\ Sound(InstallSnapshot(q, t)) /\ ToSet(InstallSnapshot(q, t)) \subseteq ToSet(q) \cup ToSet(t)
           /\ Authoritative(InstallSnapshot(q, t)) = ToSet(t)
  <1> DEFINE T == {m \in ToSet(q) : m.id = 0 /\ ~Has(t, m.cid)}
             k == Kept(q, T)
  <1>1. q \in Seq(Mess) /\ Apart(q) /\ \A x \in ToSet(q) : Holds(x)
    BY DEF Sound
  <1>2. k \in Seq(Mess) /\ Apart(k)
    BY <1>1, KeptFacts, KeptApart
  <1>3. ToSet(k) = ToSet(q) \cap T
    BY <1>1, KeptFacts
  <1>4. InstallSnapshot(q, t) = t \o k
    BY DEF InstallSnapshot
  <1> HIDE DEF k
  <1>5. t \o k \in Seq(Mess) /\ ToSet(t \o k) = ToSet(t) \cup ToSet(k)
    BY <1>2, ConcatSet
  <1>6. ASSUME NEW x \in ToSet(t), NEW y \in ToSet(k) PROVE Clear(x, y)
    <2>1. x.id # 0 /\ y.id = 0 /\ ~Has(t, y.cid)
      BY <1>3
    <2>2. x.cid # y.cid
      BY <2>1 DEF Has, Authoritative
    <2> QED BY <2>1, <2>2 DEF Clear
  <1>7. Apart(t \o k)
    BY <1>2, <1>6, ApartConcat
  <1>8. \A x \in ToSet(t \o k) : Holds(x)
    BY <1>1, <1>3, <1>5
  <1>9. Authoritative(t \o k) = ToSet(t)
    BY <1>3, <1>5 DEF Authoritative
  <1> QED BY <1>3, <1>4, <1>5, <1>7, <1>8, <1>9 DEF Sound

-----------------------------------------------------------------------------
(* The invariant *)

Requests == [cid : ClientIds, kind : {"submit", "resend"}]
StateType == [messages : Seq(Mess), fields : Nat]
EventType == [kind : {"append", "delta", "snapshot"}, stream : Nat, from : Nat, version : Nat,
              messages : Seq(Mess), fields : Nat, protocol : {1, 2}]

\* The types of what the properties read.
Typed ==
    /\ log \in Seq(ClientIds \cup {NoId}) /\ fields \in Nat /\ protocol \in {1, 2}
    /\ stream \in [id : Nat, version : Nat, seen : SUBSET StateType]
    /\ wire \in Seq(EventType)
    /\ position \in [stream : Nat, version : Nat]
    /\ room \in Seq(Mess) /\ shown \in Nat
    /\ pendingSend \in ClientIds \cup {NoId}
    /\ transit \in SUBSET Requests /\ awaiting \in SUBSET Requests
    /\ used \in SUBSET ClientIds

\* The messages of an event are those of the log.
Carried(e) ==
    /\ \A x \in ToSet(e.messages) : Holds(x) /\ x.id # 0
    /\ e.kind = "snapshot" => Apart(e.messages)

\* Every event on the wire is of that kind.
WireSound == \A e \in ToSet(wire) : Carried(e)

\* The client ids of messages and requests are those that were given.
IdsUsed ==
    /\ ToSet(log) \subseteq used \cup {NoId}
    /\ \A x \in ToSet(room) : x.cid \in used \cup {NoId}
    /\ pendingSend \in used \cup {NoId}
    /\ \A r \in transit \cup awaiting : r.cid \in used

\* Nothing refers to a stream of a later boot, nor to this one before it began.
Numbered ==
    /\ stream.id # 0 /\ position.stream <= stream.id
    /\ \A e \in ToSet(wire) : e.stream <= stream.id
    /\ \A s, t \in stream.seen : s = t
    /\ stream.seen = {} => position.stream # stream.id /\ \A e \in ToSet(wire) : e.stream # stream.id

\* What a published state or a snapshot shows.
Shows(s) == [messages |-> ToSet(s.messages), fields |-> s.fields]

\* The event tells the versions of its stream as H has them.
EventAgrees(e, H) ==
    /\ e.version <= stream.version
    /\ IF e.kind = "snapshot" THEN H[e.version] = Shows(e)
       ELSE /\ e.version = e.from + 1
            /\ H[e.version] = [messages |-> H[e.from].messages \cup ToSet(e.messages),
                               fields |-> IF e.kind = "append" THEN H[e.from].fields ELSE e.fields]

\* H holds what every version of the stream shows: the last published state at
\* the last version, the browser's view at its position, the events in between.
Agrees(H) ==
    /\ \A s \in stream.seen : H[stream.version] = Shows(s)
    /\ \A e \in ToSet(wire) : e.stream = stream.id => EventAgrees(e, H)
    /\ position.stream = stream.id =>
          /\ position.version <= stream.version
          /\ H[position.version] = [messages |-> Authoritative(room), fields |-> shown]

\* The versions of the stream have such a history.
Told == \E H : Agrees(H)

StreamInv ==
    Typed /\ LogOnce /\ Sound(room) /\ WireSound /\ IdsUsed /\ Numbered /\ Told /\ OfferIsUnseen

-----------------------------------------------------------------------------
(* What one step does *)

\* Part of a sequence has some of its elements.
LEMMA PartSet ==
    ASSUME NEW S, NEW s \in Seq(S), NEW m \in Nat, m # 0, NEW n \in 0..Len(s)
    PROVE  /\ SubSeq(s, m, n) \in Seq(S) /\ ToSet(SubSeq(s, m, n)) \subseteq ToSet(s)
           /\ m <= n + 1 => Len(SubSeq(s, m, n)) = n - m + 1
  <1>1. SubSeq(s, m, n) \in Seq(S) /\ DOMAIN s = 1..Len(s) /\ Len(s) \in Nat
    BY SubSeqProperties
  <1>2. DOMAIN SubSeq(s, m, n) = 1..Len(SubSeq(s, m, n))
    BY <1>1
  <1>3. CASE m <= n + 1
    <2>1. Len(SubSeq(s, m, n)) = n - m + 1
      BY <1>3, SubSeqProperties
    <2>2. \A i \in 1..(n - m + 1) : SubSeq(s, m, n)[i] = s[m + i - 1] /\ m + i - 1 \in 1..Len(s)
      BY <1>3, SubSeqProperties
    <2> QED BY <1>1, <1>2, <2>1, <2>2 DEF ToSet
  <1>4. CASE ~(m <= n + 1)
    <2>1. SubSeq(s, m, n) = << >>
      BY <1>4
    <2> QED BY <1>1, <1>4, <2>1 DEF ToSet
  <1> QED BY <1>3, <1>4

\* Nothing is behind the end of a sequence.
LEMMA EmptyPart ==
    ASSUME NEW S, NEW s \in Seq(S), NEW m \in Nat, m > Len(s)
    PROVE  SubSeq(s, m, Len(s)) = << >>
  <1>1. Len(s) \in Nat /\ Len(s) \in 0..Len(s) /\ m # 0
    OBVIOUS
  <1>2. CASE m = Len(s) + 1
    <2>1. SubSeq(s, m, Len(s)) \in Seq(S) /\ Len(SubSeq(s, m, Len(s))) = 0
      <3>1. m <= Len(s) + 1 /\ Len(s) - m + 1 = 0
        BY <1>1, <1>2
      <3> QED BY <3>1, <1>1, PartSet
    <2> QED BY <2>1, EmptySeq
  <1>3. CASE m # Len(s) + 1
    BY <1>1, <1>3
  <1> QED BY <1>2, <1>3

\* Before and after a place of a sequence.
LEMMA RemoveSet ==
    ASSUME NEW S, NEW s \in Seq(S), NEW i \in 1..(Len(s) - 1)
    PROVE  RemoveAt(s, i) \in Seq(S) /\ ToSet(RemoveAt(s, i)) \subseteq ToSet(s)
  <1> DEFINE p == SubSeq(s, 1, i - 1)
             q == SubSeq(s, i + 1, Len(s))
  <1>1. i - 1 \in 0..Len(s) /\ i + 1 \in Nat /\ i + 1 # 0 /\ Len(s) \in 0..Len(s)
    OBVIOUS
  <1>2. /\ p \in Seq(S) /\ ToSet(p) \subseteq ToSet(s)
        /\ q \in Seq(S) /\ ToSet(q) \subseteq ToSet(s)
    BY <1>1, PartSet
  <1>3. RemoveAt(s, i) = p \o q
    BY DEF RemoveAt
  <1> HIDE DEF p, q
  <1> QED BY <1>2, <1>3, ConcatSet

\* The first event and those behind it.
LEMMA HeadTail ==
    ASSUME NEW S, NEW s \in Seq(S), s # << >>
    PROVE  Head(s) \in ToSet(s) /\ Tail(s) \in Seq(S) /\ ToSet(Tail(s)) \subseteq ToSet(s)
  <1>1. /\ Len(s) \in Nat /\ Len(s) # 0 /\ DOMAIN s = 1..Len(s) /\ Head(s) = s[1]
        /\ Tail(s) \in Seq(S) /\ DOMAIN Tail(s) = 1..(Len(s) - 1)
    BY HeadTailProperties
  <1>2. \A i \in 1..(Len(s) - 1) : Tail(s)[i] = s[i + 1] /\ i + 1 \in 1..Len(s)
    BY <1>1, HeadTailProperties
  <1>3. Head(s) \in ToSet(s)
    BY <1>1 DEF ToSet
  <1> QED BY <1>1, <1>2, <1>3 DEF ToSet

\* What onmessage does with the first event of the wire.
ReceiveOutcome(e) ==
    \/ Reconciliation(e) = "applied" /\ Apply(e)
    \/ BeginResync
    \/ Incompatible(e)
    \/ UNCHANGED <<view, conn, marker, bundle, resending, awaiting>>

\* Receiving takes an event off the wire, or drops the wire, and changes nothing of
\* the server; the decision about the event is one of four.
LEMMA ReceiveCases ==
    ASSUME Typed, Receive
    PROVE  /\ Head(wire) \in ToSet(wire) /\ wire' \in Seq(EventType) /\ ToSet(wire') \subseteq ToSet(wire)
           /\ UNCHANGED <<server, network, used, spent>> /\ ReceiveOutcome(Head(wire))
  <1>1. Head(wire) \in ToSet(wire) /\ Tail(wire) \in Seq(EventType) /\ ToSet(Tail(wire)) \subseteq ToSet(wire)
    BY HeadTail DEF Typed, Receive
  <1>2. wire' = Tail(wire) \/ wire' = << >>
    BY DEF Receive
  <1>3. << >> \in Seq(EventType) /\ ToSet(<< >>) = {}
    BY DEF ToSet
  <1>4. UNCHANGED <<server, network, used, spent>>
    BY DEF Receive
  <1> DEFINE e == Head(wire)
             o == Reconciliation(Head(wire))
  <1>5. o = "applied" \/ o = "resync" \/ o = "incompatible" \/ o = "ignored"
    BY DEF Reconciliation
  <1> HIDE DEF o
  <1>6. (CASE o = "applied" -> Apply(e)
          [] o = "resync" -> BeginResync
          [] o = "incompatible" -> Incompatible(e)
          [] OTHER -> UNCHANGED <<view, conn, marker, bundle, resending, awaiting>>)
    BY DEF Receive, o
  <1>7. ReceiveOutcome(e)
    BY <1>5, <1>6 DEF ReceiveOutcome, o
  <1> QED BY <1>1, <1>2, <1>3, <1>4, <1>7

\* One step leaves the log, or adds a message that is not stored yet.
LogStep ==
    \/ log' = log
    \/ \E c \in ClientIds \cup {NoId} :
          /\ log' = Append(log, c)
          /\ c = NoId \/ (c \notin ToSet(log) /\ \E r \in transit : r.cid = c)

\* Only an agent and the acceptance of a request write to the log, and a request
\* that is stored already writes nothing.
LEMMA LogSteps == ASSUME Typed, StreamNext PROVE LogStep
  <1>1. CASE AgentPosts
    BY <1>1 DEF AgentPosts, LogStep
  <1>2. ASSUME NEW r \in transit, Accept(r) PROVE LogStep
    <2>1. r.cid \in ClientIds
      BY DEF Typed, Requests
    <2>2. log' = IF r.cid \in ToSet(log) THEN log ELSE Append(log, r.cid)
      BY <1>2 DEF Accept, AddHumanMessageOnce, Stored
    <2> QED BY <2>1, <2>2 DEF LogStep
  <1>3. CASE Receive
    BY <1>3, ReceiveCases DEF server, LogStep
  <1>4. CASE \/ Connect \/ Broadcast \/ FieldsChange \/ Restart \/ Break
             \/ Lose \/ StreamError \/ Watchdog \/ Reconnect \/ Settle
             \/ User \/ (\E r \in transit : Refuse(r))
    BY <1>4 DEF Connect, Broadcast, FieldsChange, Restart, Break, Lose,
                StreamError, Watchdog, Reconnect, Settle, User, Refuse,
                Acknowledged, Refused, OutcomeUnknown, SubmitMessage,
                ResendPending, ReturnPendingToDraft, server, LogStep
  <1> QED BY <1>1, <1>2, <1>3, <1>4 DEF StreamNext, Serve

\* The server publishes.
Publishes == (Connect \/ Broadcast) /\ UNCHANGED view /\ UNCHANGED log

\* One step publishes, or leaves of the wire what it will; only a restart moves
\* the stream then.
StreamStep ==
    \/ Publishes
    \/ /\ wire' \in Seq(EventType) /\ ToSet(wire') \subseteq ToSet(wire)
       /\ \/ stream' = stream
          \/ stream' = [id |-> stream.id + 1, version |-> 0, seen |-> {}] /\ UNCHANGED view

\* Only connecting and broadcasting write events; everything else consumes or loses them.
LEMMA StreamSteps == ASSUME Typed, StreamNext PROVE StreamStep
  <1>1. /\ wire \in Seq(EventType) /\ << >> \in Seq(EventType) /\ ToSet(<< >>) \subseteq ToSet(wire)
        /\ \A n \in 0..Len(wire) : /\ SubSeq(wire, 1, n) \in Seq(EventType)
                                   /\ ToSet(SubSeq(wire, 1, n)) \subseteq ToSet(wire)
    <2>1. wire \in Seq(EventType)
      BY DEF Typed
    <2> QED BY <2>1, PartSet DEF ToSet
  <1>2. CASE Connect \/ Broadcast
    BY <1>2 DEF Connect, Broadcast, Publishes, StreamStep
  <1>3. CASE Restart
    BY <1>1, <1>3 DEF Restart, StreamStep
  <1>4. CASE Receive
    BY <1>4, ReceiveCases DEF server, StreamStep
  <1>5. CASE Break
    BY <1>1, <1>5 DEF Break, server, StreamStep
  <1>6. CASE Lose
    <2>1. \A i \in 1..(Len(wire) - 1) : /\ RemoveAt(wire, i) \in Seq(EventType)
                                        /\ ToSet(RemoveAt(wire, i)) \subseteq ToSet(wire)
      BY <1>1, RemoveSet
    <2> QED BY <1>6, <2>1 DEF Lose, server, StreamStep
  <1>7. CASE StreamError \/ Watchdog
    BY <1>1, <1>7 DEF StreamError, Watchdog, server, StreamStep
  <1>8. CASE \/ AgentPosts \/ FieldsChange \/ Serve \/ Reconnect \/ Settle
             \/ User
    <2>1. UNCHANGED <<wire, stream>>
      BY <1>8 DEF AgentPosts, FieldsChange, Serve, Accept, Reconnect,
                  Settle, User, Refuse, Acknowledged, Refused,
                  OutcomeUnknown, SubmitMessage, ResendPending,
                  ReturnPendingToDraft, server
    <2> QED BY <1>1, <2>1 DEF StreamStep
  <1> QED BY <1>2, <1>3, <1>4, <1>5, <1>6, <1>7, <1>8 DEF StreamNext

\* The stored messages of the list and the rest of the view stay, or the
\* position is forgotten, or all of it moves with an event of the wire.
ViewStep ==
    \/ /\ room' = room /\ shown' = shown
       /\ position' = position \/ position' = NoPosition
    \/ room' = << >> /\ shown' = 0 /\ position' = NoPosition
    \/ \E c \in ClientIds :
          /\ c \notin used /\ c \in used'
          /\ room' = Append(room, Pending(c)) /\ shown' = shown /\ position' = position
    \/ \E c \in ClientIds :
          room' = Kept(room, ToSet(room) \ {Pending(c)}) /\ shown' = shown /\ position' = position
    \/ \E e \in ToSet(wire) : /\ Reconciliation(e) = "applied" /\ Apply(e)
                              /\ ToSet(wire') \subseteq ToSet(wire) /\ UNCHANGED <<log, stream>>

\* Each action of the browser changes its list in one of these ways.
LEMMA ViewSteps == ASSUME Typed, StreamNext PROVE ViewStep
  <1>1. CASE Receive
    <2> DEFINE e == Head(wire)
    <2>1. e \in ToSet(wire) /\ ToSet(wire') \subseteq ToSet(wire) /\ UNCHANGED <<server, used>> /\ ReceiveOutcome(e)
      BY <1>1, ReceiveCases
    <2>2. CASE Reconciliation(e) = "applied" /\ Apply(e)
      BY <2>1, <2>2 DEF ViewStep, server
    <2>3. CASE BeginResync
      BY <2>3 DEF BeginResync, ViewStep
    <2>4. CASE Incompatible(e)
      BY <2>4 DEF Incompatible, Reload, view, ViewStep
    <2>5. CASE UNCHANGED <<view, conn, marker, bundle, resending, awaiting>>
      BY <2>5 DEF view, ViewStep
    <2> HIDE DEF e
    <2> QED BY <2>1, <2>2, <2>3, <2>4, <2>5 DEF ReceiveOutcome
  <1>2. ASSUME NEW c \in ClientIds, SubmitMessage(c) PROVE ViewStep
    BY <1>2 DEF SubmitMessage, ViewStep
  <1>3. ASSUME NEW r \in awaiting, Refused(r) \/ OutcomeUnknown(r) PROVE ViewStep
    <2>1. r.cid \in ClientIds
      BY DEF Typed, Requests
    <2>2. /\ room' = room \/ room' = Kept(room, ToSet(room) \ {Pending(r.cid)})
          /\ shown' = shown /\ position' = position
      BY <1>3 DEF Refused, OutcomeUnknown, Discard
    <2> QED BY <2>1, <2>2 DEF ViewStep
  <1>4. CASE StreamError
    BY <1>4 DEF StreamError, BeginResync, ViewStep
  <1>5. CASE \/ Connect \/ Broadcast \/ AgentPosts \/ FieldsChange \/ Serve
             \/ Restart \/ Break \/ Lose \/ Watchdog \/ Reconnect
             \/ ResendPending \/ ReturnPendingToDraft
             \/ \E r \in awaiting : Acknowledged(r)
    <2>1. UNCHANGED <<room, shown, position>>
      BY <1>5 DEF Connect, Broadcast, AgentPosts, FieldsChange, Serve,
                  Accept, Refuse, Restart, Break, Lose, Watchdog,
                  Reconnect, ResendPending, ReturnPendingToDraft, Acknowledged,
                  view
    <2> QED BY <2>1 DEF ViewStep
  <1> QED BY <1>1, <1>2, <1>3, <1>4, <1>5 DEF StreamNext, Settle, User

-----------------------------------------------------------------------------
(* What the server publishes *)

\* The messages of a longer list are those of its prefix and of the rest.
LEMMA PrefixSet ==
    ASSUME NEW S, NEW s \in Seq(S), NEW t \in Seq(S), IsPrefix(s, t)
    PROVE  ToSet(t) = ToSet(s) \cup ToSet(SubSeq(t, Len(s) + 1, Len(t)))
  <1>1. /\ Len(s) \in Nat /\ Len(t) \in Nat /\ Len(s) <= Len(t)
        /\ DOMAIN s = 1..Len(s) /\ DOMAIN t = 1..Len(t)
        /\ SubSeq(s, 1, Len(s)) = SubSeq(t, 1, Len(s))
    BY DEF IsPrefix
  <1>2. \A i \in 1..Len(s) : SubSeq(s, 1, Len(s))[i] = s[i] /\ SubSeq(t, 1, Len(s))[i] = t[i]
    BY <1>1, SubSeqProperties
  <1>3. \A i \in 1..Len(s) : s[i] = t[i] /\ i \in 1..Len(t)
    BY <1>1, <1>2
  <1> DEFINE r == SubSeq(t, Len(s) + 1, Len(t))
  <1>a. Len(s) + 1 \in Nat /\ Len(s) + 1 # 0 /\ Len(t) \in 0..Len(t) /\ Len(s) + 1 <= Len(t) + 1
    BY <1>1
  <1>4. r \in Seq(S) /\ ToSet(r) \subseteq ToSet(t) /\ Len(r) = Len(t) - (Len(s) + 1) + 1
    BY <1>a, PartSet
  <1> HIDE DEF r
  <1>5. r \in Seq(S) /\ Len(r) = Len(t) - Len(s)
    <2>1. Len(t) - (Len(s) + 1) + 1 = Len(t) - Len(s)
      BY <1>1
    <2> QED BY <1>4, <2>1
  <1>6. \A i \in 1..(Len(t) - Len(s)) : r[i] = t[Len(s) + i]
    BY <1>1, SubSeqProperties DEF r
  <1>7. DOMAIN r = 1..(Len(t) - Len(s))
    BY <1>5
  <1>8. ToSet(s) \subseteq ToSet(t)
    BY <1>1, <1>3 DEF ToSet
  <1>9. ASSUME NEW x \in ToSet(t) PROVE x \in ToSet(s) \cup ToSet(r)
    <2>1. PICK i \in 1..Len(t) : x = t[i]
      BY <1>1, <1>9 DEF ToSet
    <2>2. CASE i <= Len(s)
      <3>1. i \in 1..Len(s)
        BY <1>1, <2>2
      <3> QED BY <3>1, <2>1, <1>1, <1>3 DEF ToSet
    <2>3. CASE ~(i <= Len(s))
      <3>1. i - Len(s) \in 1..(Len(t) - Len(s)) /\ Len(s) + (i - Len(s)) = i
        BY <1>1, <2>3
      <3>2. r[i - Len(s)] = x
        BY <3>1, <2>1, <1>6
      <3> QED BY <3>1, <3>2, <1>7 DEF ToSet
    <2> QED BY <2>2, <2>3
  <1>10. ToSet(t) = ToSet(s) \cup ToSet(r)
    BY <1>4, <1>8, <1>9
  <1> QED BY <1>10 DEF r

\* The messages of the log.
LEMMA PublicFacts ==
    ASSUME Typed, LogOnce
    PROVE  /\ PublicState \in StateType /\ Apart(PublicState.messages)
           /\ \A x \in ToSet(PublicState.messages) : Holds(x) /\ x.id # 0
  <1> DEFINE t == PublicState.messages
  <1>1. log \in Seq(ClientIds \cup {NoId}) /\ fields \in Nat /\ DOMAIN log = 1..Len(log) /\ Len(log) \in Nat
    BY DEF Typed
  <1>2. DOMAIN t = 1..Len(log) /\ PublicState.fields = fields
    BY <1>1 DEF PublicState
  <1>3. \A i \in 1..Len(log) : t[i] = Message(i)
    BY <1>1 DEF PublicState
  <1>4. \A i \in 1..Len(log) : /\ Message(i) \in Mess /\ Message(i).id = i /\ Message(i).cid = log[i]
                               /\ i # 0
    BY <1>1 DEF Message, Mess
  <1>5. PublicState = [messages |-> [i \in 1..Len(log) |-> Message(i)], fields |-> fields]
    BY <1>1 DEF PublicState
  <1>6. [i \in 1..Len(log) |-> Message(i)] \in Seq(Mess)
    BY <1>1, <1>4
  <1>7. PublicState \in StateType
    BY <1>1, <1>5, <1>6 DEF StateType
  <1> HIDE DEF t
  <1>8. \A x \in ToSet(t) : Holds(x) /\ x.id # 0
    BY <1>1, <1>2, <1>3, <1>4 DEF ToSet, Holds
  <1>9. ASSUME NEW i \in 1..Len(log), NEW j \in 1..Len(log), i # j PROVE Clear(t[i], t[j])
    <2>1. log[i] = NoId \/ log[i] # log[j]
      BY <1>1, <1>9 DEF LogOnce
    <2> QED BY <2>1, <1>3, <1>4, <1>9 DEF Clear
  <1>10. Apart(t)
    BY <1>2, <1>9 DEF Apart
  <1> QED BY <1>7, <1>8, <1>10 DEF t

\* An event of the stream that carries the messages from a place of the log on.
Tells(e, kind, from, version, first) ==
    /\ e \in EventType /\ Carried(e) /\ e.stream = stream.id
    /\ e.kind = kind /\ e.from = from /\ e.version = version /\ e.fields = fields
    /\ e.messages = SubSeq(PublicState.messages, first, Len(PublicState.messages))

\* What Event builds is an event, and its messages stand apart and are in the log.
LEMMA EventFacts ==
    ASSUME Typed, LogOnce,
           NEW kind \in {"append", "delta", "snapshot"}, NEW from \in Nat, NEW version \in Nat,
           NEW first \in Nat, first # 0, kind = "snapshot" => first = 1
    PROVE  Tells(Event(kind, from, version, PublicState, first), kind, from, version, first)
  <1> DEFINE e == Event(kind, from, version, PublicState, first)
             t == PublicState.messages
  <1>1. /\ t \in Seq(Mess) /\ Apart(t) /\ PublicState.fields = fields /\ fields \in Nat
        /\ \A x \in ToSet(t) : Holds(x) /\ x.id # 0
    BY PublicFacts DEF StateType, PublicState, Typed
  <1>2. stream.id \in Nat /\ protocol \in {1, 2}
    BY DEF Typed
  <1> HIDE DEF t
  <1>3. SubSeq(t, first, Len(t)) \in Seq(Mess) /\ ToSet(SubSeq(t, first, Len(t))) \subseteq ToSet(t)
    BY <1>1, PartSet
  <1>4. e = [kind |-> kind, stream |-> stream.id, from |-> from, version |-> version,
             messages |-> SubSeq(t, first, Len(t)), fields |-> fields, protocol |-> protocol]
    BY <1>1 DEF Event, t
  <1> HIDE DEF e
  <1>5. e \in EventType
    BY <1>1, <1>2, <1>3, <1>4 DEF EventType
  <1>6. /\ e.kind = kind /\ e.stream = stream.id /\ e.from = from /\ e.version = version
        /\ e.messages = SubSeq(t, first, Len(t)) /\ e.fields = fields
    BY <1>4
  <1>7. first = 1 => SubSeq(t, first, Len(t)) = t
    BY <1>1, SubSeqProperties
  <1>8. Carried(e)
    BY <1>1, <1>3, <1>6, <1>7 DEF Carried
  <1> QED BY <1>5, <1>6, <1>8 DEF e, t, Tells

\* Two events in a row.
LEMMA TwoInARow == \A x, y : <<x>> \o <<y>> = <<x, y>>
  <1> TAKE x, y
  <1>1. <<x>> \in Seq({x, y}) /\ <<y>> \in Seq({x, y}) /\ Len(<<x>>) = 1 /\ Len(<<y>>) = 1
    OBVIOUS
  <1>2. Len(<<x>> \o <<y>>) = 2 /\ (<<x>> \o <<y>>)[1] = x /\ (<<x>> \o <<y>>)[2] = y
    BY <1>1, ConcatProperties
  <1>3. <<x>> \o <<y>> \in Seq({x, y}) /\ <<x, y>> \in Seq({x, y})
    BY <1>1
  <1>4. Len(<<x, y>>) = 2 /\ <<x, y>>[1] = x /\ <<x, y>>[2] = y
    OBVIOUS
  <1> DEFINE p == <<x>> \o <<y>>
             q == <<x, y>>
  <1>5. /\ p \in Seq({x, y}) /\ Len(p) = 2 /\ p[1] = x /\ p[2] = y
        /\ q \in Seq({x, y}) /\ Len(q) = 2 /\ q[1] = x /\ q[2] = y
    BY <1>2, <1>3, <1>4
  <1> HIDE DEF p, q
  <1>6. \A i \in 1..Len(p) : p[i] = q[i]
    BY <1>5
  <1>7. p = q
    BY <1>5, <1>6, SeqEqual
  <1> QED BY <1>7 DEF p, q

\* What a broadcast writes, s being what was published last.
Appended(s) == Event("append", stream.version, stream.version + 1, PublicState, Len(s.messages) + 1)
Changed(w) == Event("delta", w, w + 1, PublicState, Len(PublicState.messages) + 1)

Written(s, t) ==
    LET longer == Len(PublicState.messages) > Len(s.messages)
        changed == fields # s.fields
    IN  IF ~IsPrefix(s.messages, PublicState.messages)
        THEN t = <<Event("snapshot", stream.version, stream.version + 1, PublicState, 1)>>
        ELSE /\ longer /\ changed => t = <<Appended(s), Changed(stream.version + 1)>>
             /\ longer /\ ~changed => t = <<Appended(s)>>
             /\ ~longer /\ changed => t = <<Changed(stream.version)>>
             /\ ~longer /\ ~changed => t = << >>

\* EventsFor compares the published state with the present one and writes just that.
LEMMA EventsWritten ==
    ASSUME Typed, NEW s \in stream.seen, \A x, y \in stream.seen : x = y
    PROVE  Written(s, EventsFor(PublicState))
  <1>1. (CHOOSE x \in stream.seen : TRUE) = s /\ stream.seen # {}
    OBVIOUS
  <1>2. PublicState.fields = fields
    BY DEF PublicState
  <1>3. stream.version \in Nat
    BY DEF Typed
  <1> DEFINE longer == Len(PublicState.messages) > Len(s.messages)
             changed == fields # s.fields
             a == IF longer THEN <<Appended(s)>> ELSE << >>
             w == stream.version + Len(a)
             d == IF changed THEN <<Changed(w)>> ELSE << >>
  <1>4. EventsFor(PublicState) =
            IF ~IsPrefix(s.messages, PublicState.messages)
            THEN <<Event("snapshot", stream.version, stream.version + 1, PublicState, 1)>> ELSE a \o d
    BY <1>1, <1>2, Zenon DEF EventsFor, Appended, Changed
  <1>5. CASE longer /\ changed
    <2>1. a = <<Appended(s)>> /\ w = stream.version + 1 /\ d = <<Changed(stream.version + 1)>>
      BY <1>3, <1>5
    <2> HIDE DEF a, w, d
    <2>2. a \o d = <<Appended(s), Changed(stream.version + 1)>>
      BY <2>1, TwoInARow, Zenon
    <2> QED BY <2>2, <1>4, <1>5, Zenon DEF Written
  <1>6. CASE longer /\ ~changed
    <2>1. a \o d = <<Appended(s)>>
      BY <1>6
    <2> HIDE DEF a, w, d
    <2> QED BY <2>1, <1>4, <1>6, Zenon DEF Written
  <1>7. CASE ~longer /\ changed
    <2>1. a = << >> /\ w = stream.version /\ d = <<Changed(stream.version)>>
      BY <1>3, <1>7
    <2> HIDE DEF a, w, d
    <2>2. a \o d = <<Changed(stream.version)>>
      BY <2>1
    <2> QED BY <2>2, <1>4, <1>7, Zenon DEF Written
  <1>8. CASE ~longer /\ ~changed
    <2>1. a \o d = << >>
      BY <1>8
    <2> HIDE DEF a, w, d
    <2> QED BY <2>1, <1>4, <1>8, Zenon DEF Written
  <1> QED BY <1>5, <1>6, <1>7, <1>8

\* The stream object after a publication.
LEMMA StreamMoved ==
    ASSUME NEW r \in [id : Nat, version : Nat, seen : SUBSET StateType], NEW n, NEW x
    PROVE  [r EXCEPT !.version = @ + n, !.seen = x] = [id |-> r.id, version |-> r.version + n, seen |-> x]
  <1>1. r = [id |-> r.id, version |-> r.version, seen |-> r.seen]
    OBVIOUS
  <1> DEFINE u == [r EXCEPT !.version = @ + n]
  <1>2. u = [id |-> r.id, version |-> r.version + n, seen |-> r.seen]
    BY <1>1
  <1>3. [r EXCEPT !.version = @ + n, !.seen = x] = [u EXCEPT !.seen = x]
    OBVIOUS
  <1> HIDE DEF u
  <1> QED BY <1>2, <1>3

\* The number of events a broadcast writes, and that they are good to carry.
LEMMA PublishFacts ==
    ASSUME Typed, LogOnce, Numbered
    PROVE  /\ EventsFor(PublicState) \in Seq(EventType)
           /\ \A e \in ToSet(EventsFor(PublicState)) : Carried(e) /\ e.stream = stream.id
           /\ Published = [id |-> stream.id, version |-> stream.version + Len(EventsFor(PublicState)),
                           seen |-> {PublicState}]
           /\ Len(EventsFor(PublicState)) \in Nat
  <1> DEFINE t == EventsFor(PublicState)
             Fine(e) == e \in EventType /\ Carried(e) /\ e.stream = stream.id
  <1>1. t \in Seq(EventType) /\ \A e \in ToSet(t) : Fine(e)
    <2>1. CASE stream.seen = {}
      BY <2>1 DEF EventsFor, ToSet
    <2>2. ASSUME NEW s \in stream.seen PROVE t \in Seq(EventType) /\ \A e \in ToSet(t) : Fine(e)
      <3>1. Written(s, t)
        BY <2>2, EventsWritten DEF Numbered
      <3>2. /\ stream.version \in Nat /\ stream.version + 1 \in Nat /\ s \in StateType
            /\ PublicState \in StateType
        BY PublicFacts DEF Typed
      <3>3. /\ Len(s.messages) + 1 \in Nat /\ Len(s.messages) + 1 # 0
            /\ Len(PublicState.messages) + 1 \in Nat /\ Len(PublicState.messages) + 1 # 0
        BY <3>2 DEF StateType
      <3>a. Fine(Event("snapshot", stream.version, stream.version + 1, PublicState, 1))
        BY <3>2, EventFacts DEF Tells
      <3>b. Fine(Appended(s))
        <4>1. Tells(Appended(s), "append", stream.version, stream.version + 1, Len(s.messages) + 1)
          BY <3>2, <3>3, EventFacts DEF Appended
        <4> QED BY <4>1 DEF Tells
      <3>c. ASSUME NEW w \in Nat PROVE Fine(Changed(w))
        <4>1. w + 1 \in Nat
          OBVIOUS
        <4>2. Tells(Changed(w), "delta", w, w + 1, Len(PublicState.messages) + 1)
          BY <4>1, <3>3, EventFacts DEF Changed
        <4> QED BY <4>2 DEF Tells
      <3>4. /\ Fine(Event("snapshot", stream.version, stream.version + 1, PublicState, 1))
            /\ Fine(Appended(s)) /\ \A w \in Nat : Fine(Changed(w))
        BY <3>a, <3>b, <3>c
      <3> HIDE DEF Fine, t
      <3>5. CASE t = << >>
        BY <3>5 DEF ToSet
      <3>6. ASSUME NEW e, Fine(e), t = <<e>> PROVE t \in Seq(EventType) /\ \A x \in ToSet(t) : Fine(x)
        BY <3>6 DEF ToSet, Fine
      <3>7. ASSUME NEW e, NEW f, Fine(e), Fine(f), t = <<e, f>>
            PROVE  t \in Seq(EventType) /\ \A x \in ToSet(t) : Fine(x)
        BY <3>7 DEF ToSet, Fine
      <3> QED BY <3>1, <3>2, <3>4, <3>5, <3>6, <3>7, Zenon DEF Written
    <2> QED BY <2>1, <2>2
  <1>2. stream \in [id : Nat, version : Nat, seen : SUBSET StateType]
    BY DEF Typed
  <1>3. Published = [stream EXCEPT !.version = @ + Len(t), !.seen = {PublicState}]
    BY DEF Published
  <1> HIDE DEF t
  <1>4. Published = [id |-> stream.id, version |-> stream.version + Len(t), seen |-> {PublicState}]
    BY <1>2, <1>3, StreamMoved
  <1>5. Len(t) \in Nat
    BY <1>1
  <1> QED BY <1>1, <1>4, <1>5 DEF t

\* G tells of the new version, and of the old ones as H does.
Continues(G, H) ==
    /\ stream.seen # {} => \A w \in Nat : w <= stream.version => G[w] = H[w]
    /\ G[Published.version] = Shows(PublicState)
    /\ \A e \in ToSet(EventsFor(PublicState)) :
          /\ e.version <= Published.version
          /\ IF e.kind = "snapshot" THEN G[e.version] = Shows(e)
             ELSE /\ e.version = e.from + 1
                  /\ G[e.version] = [messages |-> G[e.from].messages \cup ToSet(e.messages),
                                     fields |-> IF e.kind = "append" THEN G[e.from].fields ELSE e.fields]

\* A broadcast continues the history by the versions of the events it writes.
LEMMA HistoryContinues ==
    ASSUME Typed, LogOnce, Numbered, NEW H, Agrees(H)
    PROVE  \E G : Continues(G, H)
  <1> DEFINE t == EventsFor(PublicState)
             v == stream.version
             next == PublicState.messages
  <1>1. /\ t \in Seq(EventType) /\ Len(t) \in Nat /\ Published.version = v + Len(t)
        /\ v \in Nat /\ v + 1 \in Nat /\ v + 1 # v
    BY PublishFacts DEF Typed
  <1>2. CASE stream.seen = {}
    <2> DEFINE G == [w \in Nat |-> Shows(PublicState)]
    <2>1. t = << >>
      BY <1>2 DEF EventsFor
    <2>2. G[Published.version] = Shows(PublicState)
      BY <1>1
    <2>3. ToSet(t) = {}
      BY <2>1 DEF ToSet
    <2> HIDE DEF G, t
    <2>4. Continues(G, H)
      BY <1>2, <2>2, <2>3 DEF Continues, t
    <2> QED BY <2>4
  <1>3. ASSUME NEW s \in stream.seen PROVE \E G : Continues(G, H)
    <2> DEFINE K == Shows(PublicState)
               G == [w \in Nat |->
                        IF w <= v THEN H[w]
                        ELSE IF w = v + 1 /\ Len(t) = 2 THEN [messages |-> K.messages, fields |-> s.fields]
                        ELSE K]
    <2>1. Written(s, t) /\ H[v] = Shows(s)
      BY <1>3, EventsWritten DEF Numbered, Agrees
    <2>2. /\ next \in Seq(Mess) /\ s.messages \in Seq(Mess) /\ PublicState.fields = fields
          /\ K = [messages |-> ToSet(next), fields |-> fields]
      BY PublicFacts DEF Typed, StateType, PublicState, Shows
    <2>3. \A w \in Nat : w <= v => G[w] = H[w]
      OBVIOUS
    <2>4. G[v] = [messages |-> ToSet(s.messages), fields |-> s.fields]
      BY <1>1, <2>1, <2>3 DEF Shows
    <2>5. /\ Len(t) # 2 => G[v + 1] = K
          /\ Len(t) = 2 => G[v + 1] = [messages |-> ToSet(next), fields |-> s.fields] /\ G[v + 2] = K
      BY <1>1, <2>2
    <2> DEFINE more == SubSeq(next, Len(s.messages) + 1, Len(next))
    <2>6. IsPrefix(s.messages, next) => ToSet(next) = ToSet(s.messages) \cup ToSet(more)
      BY <2>2, PrefixSet
    <2>7. ~(Len(next) > Len(s.messages)) => ToSet(more) = {}
      <3>1. Len(next) \in Nat /\ Len(s.messages) \in Nat
        BY <2>2
      <3>2. ASSUME ~(Len(next) > Len(s.messages)) PROVE more = << >>
        <4>1. Len(s.messages) + 1 \in Nat /\ Len(s.messages) + 1 > Len(next)
          BY <3>1, <3>2
        <4> QED BY <4>1, <2>2, EmptyPart
      <3>3. ToSet(<< >>) = {}
        BY DEF ToSet
      <3> HIDE DEF more, next
      <3> QED BY <3>2, <3>3
    <2>8. SubSeq(next, 1, Len(next)) = next /\ ToSet(SubSeq(next, Len(next) + 1, Len(next))) = {}
      <3>1. SubSeq(next, 1, Len(next)) = next
        BY <2>2, SubSeqProperties
      <3>2. Len(next) + 1 \in Nat /\ Len(next) + 1 > Len(next)
        BY <2>2
      <3>3. SubSeq(next, Len(next) + 1, Len(next)) = << >>
        BY <2>2, <3>2, EmptyPart
      <3> QED BY <3>1, <3>3 DEF ToSet
    <2> DEFINE Snapshot == Event("snapshot", v, v + 1, PublicState, 1)
    <2>9. /\ Len(s.messages) + 1 \in Nat /\ Len(s.messages) + 1 # 0
          /\ Len(next) + 1 \in Nat /\ Len(next) + 1 # 0
      BY <2>2
    <2>10. /\ Snapshot.kind = "snapshot" /\ Snapshot.version = v + 1
           /\ Shows(Snapshot) = K
      <3>1. Tells(Snapshot, "snapshot", v, v + 1, 1)
        BY <1>1, EventFacts
      <3> HIDE DEF Snapshot
      <3> QED BY <3>1, <2>2, <2>8 DEF Tells, Shows
    <2>11. /\ Appended(s).kind = "append" /\ Appended(s).from = v /\ Appended(s).version = v + 1
           /\ Appended(s).messages = more
      <3>1. Tells(Appended(s), "append", v, v + 1, Len(s.messages) + 1)
        BY <1>1, <2>9, EventFacts DEF Appended
      <3> QED BY <3>1 DEF Tells
    <2>12. \A w \in Nat : /\ Changed(w).kind = "delta" /\ Changed(w).from = w /\ Changed(w).version = w + 1
                          /\ ToSet(Changed(w).messages) = {} /\ Changed(w).fields = fields
      <3>1. ASSUME NEW w \in Nat PROVE Tells(Changed(w), "delta", w, w + 1, Len(next) + 1)
        <4>1. w + 1 \in Nat
          OBVIOUS
        <4> QED BY <4>1, <2>9, EventFacts DEF Changed
      <3> HIDE DEF next
      <3> QED BY <3>1, <2>8 DEF Tells, next
    <2> HIDE DEF G, K, t, more, Snapshot, next
    <2>13. CASE t = <<Snapshot>>
      <3>1. Len(t) = 1 /\ ToSet(t) = {Snapshot} /\ Published.version = v + 1
        BY <2>13, <1>1 DEF ToSet
      <3>2. G[v + 1] = K
        BY <3>1, <2>5
      <3>3. Continues(G, H)
        BY <3>1, <3>2, <2>3, <2>10, <1>1 DEF Continues, K, t
      <3> QED BY <3>3
    <2>14. CASE t = << >> /\ K = G[v]
      <3>1. Len(t) = 0 /\ ToSet(t) = {} /\ Published.version = v
        BY <2>14, <1>1 DEF ToSet
      <3>2. Continues(G, H)
        BY <3>1, <2>14, <2>3 DEF Continues, K, t
      <3> QED BY <3>2
    <2>15. CASE t = <<Appended(s)>> /\ ToSet(next) = ToSet(s.messages) \cup ToSet(more) /\ fields = s.fields
      <3>1. Len(t) = 1 /\ ToSet(t) = {Appended(s)} /\ Published.version = v + 1
        BY <2>15, <1>1 DEF ToSet
      <3>2. G[v + 1] = [messages |-> G[v].messages \cup ToSet(more), fields |-> G[v].fields] /\ G[v + 1] = K
        BY <3>1, <2>2, <2>4, <2>5, <2>15
      <3>3. v + 1 <= Published.version /\ Appended(s).kind # "snapshot"
        BY <1>1, <3>1, <2>11
      <3>4. G[Published.version] = Shows(PublicState)
        BY <3>1, <3>2 DEF K
      <3>5. Continues(G, H)
        BY <3>1, <3>2, <3>3, <3>4, <2>3, <2>11 DEF Continues, t
      <3> QED BY <3>5
    <2>16. CASE t = <<Changed(v)>> /\ ToSet(next) = ToSet(s.messages)
      <3>1. Len(t) = 1 /\ ToSet(t) = {Changed(v)} /\ Published.version = v + 1
        BY <2>16, <1>1 DEF ToSet
      <3>2. G[v + 1] = [messages |-> G[v].messages \cup {}, fields |-> fields] /\ G[v + 1] = K
        BY <3>1, <2>2, <2>4, <2>5, <2>16
      <3>3. /\ Changed(v).kind = "delta" /\ Changed(v).from = v /\ Changed(v).version = v + 1
            /\ ToSet(Changed(v).messages) = {} /\ Changed(v).fields = fields
        BY <1>1, <2>12
      <3>4. v + 1 <= Published.version /\ Changed(v).kind # "snapshot" /\ Changed(v).kind # "append"
        BY <1>1, <3>1, <3>3
      <3>5. G[Published.version] = Shows(PublicState)
        BY <3>1, <3>2 DEF K
      <3>6. Continues(G, H)
        BY <3>1, <3>2, <3>3, <3>4, <3>5, <2>3 DEF Continues, t
      <3> QED BY <3>6
    <2>17. CASE t = <<Appended(s), Changed(v + 1)>> /\ ToSet(next) = ToSet(s.messages) \cup ToSet(more)
      <3>1. Len(t) = 2 /\ ToSet(t) = {Appended(s), Changed(v + 1)} /\ Published.version = v + 2
        BY <2>17, <1>1 DEF ToSet
      <3>2. /\ G[v + 1] = [messages |-> G[v].messages \cup ToSet(more), fields |-> G[v].fields]
            /\ G[v + 2] = [messages |-> G[v + 1].messages \cup {}, fields |-> fields] /\ G[v + 2] = K
        <4>1. G[v + 1] = [messages |-> ToSet(next), fields |-> s.fields] /\ G[v + 2] = K
          BY <3>1, <2>5
        <4>2. G[v].messages = ToSet(s.messages) /\ G[v].fields = s.fields /\ G[v + 1].messages = ToSet(next)
          BY <4>1, <2>4
        <4> QED BY <4>1, <4>2, <2>2, <2>17
      <3>3. /\ Changed(v + 1).kind = "delta" /\ Changed(v + 1).from = v + 1 /\ Changed(v + 1).version = v + 2
            /\ ToSet(Changed(v + 1).messages) = {} /\ Changed(v + 1).fields = fields
        <4>1. v + 1 + 1 = v + 2
          BY <1>1
        <4> QED BY <4>1, <1>1, <2>12
      <3>4. /\ v + 1 <= Published.version /\ v + 2 <= Published.version /\ v + 2 = v + 1 + 1
            /\ Appended(s).kind # "snapshot" /\ Changed(v + 1).kind # "snapshot" /\ Changed(v + 1).kind # "append"
        BY <1>1, <3>1, <3>3, <2>11
      <3>5. G[Published.version] = Shows(PublicState)
        BY <3>1, <3>2 DEF K
      <3> DEFINE Follows(e) ==
                    /\ e.version <= Published.version
                    /\ IF e.kind = "snapshot" THEN G[e.version] = Shows(e)
                       ELSE /\ e.version = e.from + 1
                            /\ G[e.version] = [messages |-> G[e.from].messages \cup ToSet(e.messages),
                                               fields |-> IF e.kind = "append" THEN G[e.from].fields ELSE e.fields]
      <3>6. Follows(Appended(s))
        BY <3>2, <3>4, <2>11
      <3>7. Follows(Changed(v + 1))
        BY <3>2, <3>3, <3>4
      <3>8. \A e \in ToSet(t) : Follows(e)
        BY <3>1, <3>6, <3>7
      <3>9. Continues(G, H)
        BY <3>5, <3>8, <2>3 DEF Continues, t
      <3> QED BY <3>9
    <2>18. \/ t = <<Snapshot>> \/ (t = << >> /\ K = G[v])
           \/ (t = <<Appended(s)>> /\ ToSet(next) = ToSet(s.messages) \cup ToSet(more) /\ fields = s.fields)
           \/ (t = <<Changed(v)>> /\ ToSet(next) = ToSet(s.messages))
           \/ (t = <<Appended(s), Changed(v + 1)>> /\ ToSet(next) = ToSet(s.messages) \cup ToSet(more))
      <3>1. CASE ~IsPrefix(s.messages, next)
        BY <3>1, <2>1, Zenon DEF Written, Snapshot, next
      <3>2. CASE IsPrefix(s.messages, next) /\ Len(next) > Len(s.messages)
        BY <3>2, <2>1, <2>6, Zenon DEF Written, next
      <3>3. CASE IsPrefix(s.messages, next) /\ ~(Len(next) > Len(s.messages)) /\ fields # s.fields
        <4>1. ToSet(next) = ToSet(s.messages)
          BY <3>3, <2>6, <2>7
        <4> QED BY <4>1, <3>3, <2>1, Zenon DEF Written, next
      <3>4. CASE IsPrefix(s.messages, next) /\ ~(Len(next) > Len(s.messages)) /\ fields = s.fields
        <4>1. ToSet(next) = ToSet(s.messages)
          BY <3>4, <2>6, <2>7
        <4>2. t = << >>
          BY <3>4, <2>1, Zenon DEF Written, next
        <4> QED BY <4>1, <4>2, <3>4, <2>2, <2>4
      <3> QED BY <3>1, <3>2, <3>3, <3>4
    <2> QED BY <2>13, <2>14, <2>15, <2>16, <2>17, <2>18
  <1> QED BY <1>2, <1>3

-----------------------------------------------------------------------------
(* The steps keep the invariant *)

\* What an applied event makes of the list.
LEMMA ReconciledFacts ==
    ASSUME Typed, LogOnce, Sound(room), WireSound, NEW e \in ToSet(wire)
    PROVE  /\ e \in EventType /\ Carried(e)
           /\ Sound(Reconciled(e)) /\ ToSet(Reconciled(e)) \subseteq ToSet(room) \cup ToSet(e.messages)
           /\ Authoritative(Reconciled(e)) =
                 IF e.kind = "snapshot" THEN ToSet(e.messages) ELSE Authoritative(room) \cup ToSet(e.messages)
  <1>1. e \in EventType /\ Carried(e)
    BY DEF Typed, WireSound, ToSet
  <1>2. /\ e.messages \in Seq(Mess) /\ \A x \in ToSet(e.messages) : Holds(x) /\ x.id # 0
        /\ e.kind = "snapshot" => Apart(e.messages)
    BY <1>1 DEF EventType, Carried
  <1>3. CASE e.kind = "snapshot"
    <2>1. Reconciled(e) = InstallSnapshot(room, e.messages)
      BY <1>3 DEF Reconciled
    <2> QED BY <2>1, <1>1, <1>2, <1>3, InstallFacts
  <1>4. CASE e.kind # "snapshot"
    <2>1. Reconciled(e) = Merge(room, e.messages)
      BY <1>4 DEF Reconciled
    <2> QED BY <2>1, <1>1, <1>2, <1>4, MergeFacts
  <1> QED BY <1>3, <1>4

\* An optimistic message more or less leaves the stored ones as they are.
LEMMA OptimisticFacts ==
    ASSUME Typed, NEW c \in ClientIds
    PROVE  LET longer == Append(room, Pending(c))
               shorter == Kept(room, ToSet(room) \ {Pending(c)})
           IN  /\ Pending(c) \in Mess /\ Pending(c).id = 0 /\ Pending(c).cid = c
               /\ longer \in Seq(Mess) /\ ToSet(longer) = ToSet(room) \cup {Pending(c)}
               /\ shorter \in Seq(Mess) /\ ToSet(shorter) \subseteq ToSet(room)
               /\ Authoritative(longer) = Authoritative(room) /\ Authoritative(shorter) = Authoritative(room)
  <1> DEFINE longer == Append(room, Pending(c))
             shorter == Kept(room, ToSet(room) \ {Pending(c)})
  <1>1. Pending(c) \in Mess /\ Pending(c).id = 0 /\ Pending(c).cid = c /\ room \in Seq(Mess)
    BY DEF Pending, Mess, Typed
  <1>2. longer \in Seq(Mess) /\ ToSet(longer) = ToSet(room) \cup {Pending(c)}
    BY <1>1, AppendSet
  <1>3. shorter \in Seq(Mess) /\ ToSet(shorter) = ToSet(room) \ {Pending(c)}
    BY <1>1, KeptFacts
  <1> HIDE DEF longer, shorter
  <1>4. Authoritative(longer) = Authoritative(room) /\ Authoritative(shorter) = Authoritative(room)
    BY <1>1, <1>2, <1>3 DEF Authoritative
  <1> QED BY <1>1, <1>2, <1>3, <1>4 DEF longer, shorter

\* Messages of the log stay where they are.
LEMMA HoldsKept == ASSUME Typed, LogStep, NEW x, Holds(x) PROVE Holds(x)'
  <1>1. log \in Seq(ClientIds \cup {NoId})
    BY DEF Typed
  <1>2. \A i \in DOMAIN log : i \in DOMAIN log' /\ log'[i] = log[i]
    <2>1. CASE log' = log
      BY <2>1
    <2>2. ASSUME NEW c \in ClientIds \cup {NoId}, log' = Append(log, c)
          PROVE  \A i \in DOMAIN log : i \in DOMAIN log' /\ log'[i] = log[i]
      <3>1. DOMAIN log = 1..Len(log) /\ DOMAIN Append(log, c) = 1..(Len(log) + 1) /\ Len(log) \in Nat
        BY <1>1
      <3>2. \A i \in 1..Len(log) : Append(log, c)[i] = log[i] /\ i \in 1..(Len(log) + 1)
        BY <1>1, <3>1
      <3> QED BY <2>2, <3>1, <3>2
    <2> QED BY <2>1, <2>2 DEF LogStep
  <1> QED BY <1>2 DEF Holds

\* The log stays a sequence without a message stored twice.
LEMMA LogKept == ASSUME Typed, LogOnce, LogStep PROVE LogOnce' /\ log' \in Seq(ClientIds \cup {NoId})
  <1>1. log \in Seq(ClientIds \cup {NoId})
    BY DEF Typed
  <1>2. CASE log' = log
    BY <1>1, <1>2 DEF LogOnce
  <1>3. ASSUME NEW c \in ClientIds \cup {NoId}, log' = Append(log, c), c = NoId \/ c \notin ToSet(log)
        PROVE  LogOnce' /\ log' \in Seq(ClientIds \cup {NoId})
    <2>1. /\ DOMAIN log = 1..Len(log) /\ DOMAIN log' = 1..(Len(log) + 1) /\ Len(log) \in Nat
          /\ log'[Len(log) + 1] = c /\ log' \in Seq(ClientIds \cup {NoId})
      BY <1>1, <1>3
    <2>2. \A i \in 1..Len(log) : log'[i] = log[i] /\ (c = NoId \/ log[i] # c)
      BY <1>1, <1>3, <2>1 DEF ToSet
    <2>3. \A i \in 1..(Len(log) + 1) : i # Len(log) + 1 => i \in 1..Len(log)
      BY <2>1
    <2>4. ASSUME NEW i \in 1..(Len(log) + 1), NEW j \in 1..(Len(log) + 1), i # j
          PROVE  log'[i] = NoId \/ log'[i] # log'[j]
      <3>1. CASE i = Len(log) + 1
        <4>1. j \in 1..Len(log)
          BY <2>3, <2>4, <3>1
        <4> QED BY <4>1, <3>1, <2>1, <2>2
      <3>2. CASE j = Len(log) + 1
        <4>1. i \in 1..Len(log)
          BY <2>3, <2>4, <3>2
        <4> QED BY <4>1, <3>2, <2>1, <2>2
      <3>3. CASE i # Len(log) + 1 /\ j # Len(log) + 1
        <4>1. i \in DOMAIN log /\ j \in DOMAIN log
          BY <2>1, <2>3, <3>3
        <4> QED BY <4>1, <2>1, <2>2, <2>4 DEF LogOnce
      <3> QED BY <3>1, <3>2, <3>3
    <2> QED BY <2>1, <2>4 DEF LogOnce
  <1> QED BY <1>2, <1>3 DEF LogStep

\* The list keeps showing every message once.
LEMMA RoomKept ==
    ASSUME Typed, LogOnce, Sound(room), WireSound, IdsUsed, LogStep, ViewStep
    PROVE  Sound(room)'
  <1>1. Sound(room')
    <2>1. CASE room' = room
      BY <2>1
    <2>2. CASE room' = << >>
      BY <2>2 DEF Sound, Apart, ToSet
    <2>3. ASSUME NEW c \in ClientIds, c \notin used, room' = Append(room, Pending(c)) PROVE Sound(room')
      <3>1. c # NoId
        BY NoIdAssumption
      <3>2. /\ Pending(c) \in Mess /\ Pending(c).id = 0 /\ Pending(c).cid = c
            /\ ToSet(room') = ToSet(room) \cup {Pending(c)} /\ room' \in Seq(Mess)
        BY <2>3, OptimisticFacts
      <3>3. \A y \in ToSet(room) : Clear(Pending(c), y)
        BY <2>3, <3>1, <3>2 DEF IdsUsed, Clear
      <3>4. Apart(room')
        BY <2>3, <3>2, <3>3, ApartAppend DEF Sound
      <3> QED BY <3>1, <3>2, <3>4 DEF Sound, Holds
    <2>4. ASSUME NEW c \in ClientIds, room' = Kept(room, ToSet(room) \ {Pending(c)}) PROVE Sound(room')
      <3>1. ToSet(room') \subseteq ToSet(room) /\ room' \in Seq(Mess)
        BY <2>4, OptimisticFacts
      <3>2. Apart(room')
        BY <2>4, KeptApart DEF Sound
      <3> QED BY <3>1, <3>2 DEF Sound
    <2>5. ASSUME NEW e \in ToSet(wire), Apply(e) PROVE Sound(room')
      <3>1. room' = Reconciled(e)
        BY <2>5 DEF Apply
      <3> QED BY <3>1, ReconciledFacts
    <2> QED BY <2>1, <2>2, <2>3, <2>4, <2>5 DEF ViewStep
  <1>2. \A x \in ToSet(room') : Holds(x)'
    BY <1>1, HoldsKept DEF Sound
  <1> QED BY <1>1, <1>2 DEF Sound

\* What a publication leaves on the wire.
LEMMA PublishedWire ==
    ASSUME Typed, LogOnce, Numbered, Publishes
    PROVE  /\ wire' \in Seq(EventType) /\ stream' = Published /\ Published.id = stream.id
           /\ Published.seen = {PublicState} /\ Published.version \in Nat /\ stream.version <= Published.version
           /\ \A e \in ToSet(wire') :
                 \/ e \in ToSet(wire) /\ stream.seen # {}
                 \/ e \in ToSet(EventsFor(PublicState))
                 \/ Tells(e, "snapshot", 0, Published.version, 1)
  <1> DEFINE t == EventsFor(PublicState)
  <1>1. /\ t \in Seq(EventType) /\ Len(t) \in Nat
        /\ Published = [id |-> stream.id, version |-> stream.version + Len(t), seen |-> {PublicState}]
    BY PublishFacts
  <1>2. stream.version \in Nat /\ wire \in Seq(EventType)
    BY DEF Typed
  <1>3. /\ Published.id = stream.id /\ Published.seen = {PublicState} /\ Published.version \in Nat
        /\ stream.version <= Published.version
    BY <1>1, <1>2
  <1> HIDE DEF t
  <1>4. CASE Connect
    <2> DEFINE e == Event("snapshot", 0, Published.version, PublicState, 1)
    <2>1. Tells(e, "snapshot", 0, Published.version, 1)
      BY <1>3, EventFacts
    <2>2. wire' = <<e>> /\ stream' = Published
      BY <1>4 DEF Connect
    <2> HIDE DEF e
    <2>3. wire' \in Seq(EventType) /\ ToSet(wire') = {e}
      BY <2>1, <2>2 DEF Tells, ToSet
    <2> QED BY <1>3, <2>1, <2>2, <2>3
  <1>5. CASE Broadcast
    <2>1. stream' = Published /\ stream.seen # {} /\ (wire' = wire \o t \/ wire' = wire)
      BY <1>5 DEF Broadcast, t
    <2>2. wire \o t \in Seq(EventType) /\ ToSet(wire \o t) = ToSet(wire) \cup ToSet(t)
      BY <1>1, <1>2, ConcatSet
    <2> QED BY <1>2, <1>3, <2>1, <2>2 DEF t
  <1> QED BY <1>4, <1>5 DEF Publishes

\* The events carry messages of the log.
LEMMA WireKept ==
    ASSUME Typed, LogOnce, WireSound, Numbered, LogStep, StreamStep
    PROVE  WireSound' /\ wire' \in Seq(EventType)
  <1>1. wire' \in Seq(EventType) /\ \A e \in ToSet(wire') : Carried(e)
    <2>1. CASE Publishes
      BY <2>1, PublishedWire, PublishFacts DEF WireSound, Tells
    <2>2. CASE wire' \in Seq(EventType) /\ ToSet(wire') \subseteq ToSet(wire)
      BY <2>2 DEF WireSound
    <2> QED BY <2>1, <2>2 DEF StreamStep
  <1>2. ASSUME NEW e \in ToSet(wire') PROVE Carried(e)'
    <2>1. Carried(e)
      BY <1>1, <1>2
    <2>2. \A x \in ToSet(e.messages) : Holds(x)'
      BY <2>1, HoldsKept DEF Carried
    <2> QED BY <2>1, <2>2 DEF Carried
  <1> QED BY <1>1, <1>2 DEF WireSound

\* Only a new message gives out a client id, and requests keep theirs.
RequestStep ==
    /\ used' \in SUBSET ClientIds /\ used \subseteq used'
    /\ transit' \in SUBSET Requests /\ awaiting' \in SUBSET Requests
    /\ \A r \in transit' \cup awaiting' :
          r \in transit \cup awaiting \/ r.cid \in used' \/ (r.cid = pendingSend /\ pendingSend # NoId)
    /\ pendingSend' \in {pendingSend, NoId} \cup {r.cid : r \in awaiting}

\* Each action takes its requests from those under way or makes one with a new id.
LEMMA RequestSteps == ASSUME Typed, StreamNext PROVE RequestStep
  <1>1. /\ used \in SUBSET ClientIds /\ transit \in SUBSET Requests /\ awaiting \in SUBSET Requests
        /\ pendingSend \in ClientIds \cup {NoId}
    BY DEF Typed
  <1>2. CASE Receive
    <2> DEFINE e == Head(wire)
    <2>1. UNCHANGED <<network, used>> /\ ReceiveOutcome(e)
      BY <1>2, ReceiveCases
    <2>2. (awaiting' = awaiting \/ awaiting' = {}) /\ (pendingSend' = pendingSend \/ pendingSend' = NoId)
      <3>1. CASE Apply(e)
        BY <3>1 DEF Apply
      <3>2. CASE BeginResync
        BY <3>2 DEF BeginResync
      <3>3. CASE Incompatible(e)
        BY <3>3 DEF Incompatible, Reload, view
      <3>4. CASE UNCHANGED <<view, conn, marker, bundle, resending, awaiting>>
        BY <3>4 DEF view
      <3> HIDE DEF e
      <3> QED BY <2>1, <3>1, <3>2, <3>3, <3>4 DEF ReceiveOutcome
    <2> QED BY <2>1, <2>2, <1>1 DEF network, RequestStep
  <1>3. ASSUME NEW c \in ClientIds, SubmitMessage(c) PROVE RequestStep
    <2>1. Request(c, "submit") \in Requests /\ Request(c, "submit").cid = c
      BY DEF Request, Requests
    <2>2. /\ used' = used \cup {c} /\ pendingSend' = pendingSend
          /\ transit' = transit \cup {Request(c, "submit")} /\ awaiting' = awaiting \cup {Request(c, "submit")}
      BY <1>3 DEF SubmitMessage, Send
    <2> QED BY <1>1, <2>1, <2>2 DEF RequestStep
  <1>4. CASE ResendPending
    <2> DEFINE r == Request(pendingSend, "resend")
    <2>1. pendingSend # NoId /\ r \in Requests /\ r.cid = pendingSend
      BY <1>1, <1>4 DEF ResendPending, Request, Requests
    <2>2. /\ used' = used /\ pendingSend' = pendingSend
          /\ transit' = transit \cup {r} /\ awaiting' = awaiting \cup {r}
      BY <1>4 DEF ResendPending, Send, view
    <2> HIDE DEF r
    <2> QED BY <1>1, <2>1, <2>2 DEF RequestStep
  <1>5. ASSUME NEW r \in awaiting, Acknowledged(r) \/ Refused(r) \/ OutcomeUnknown(r) PROVE RequestStep
    <2>1. /\ used' = used /\ awaiting' = awaiting \ {r} /\ transit' = transit
          /\ pendingSend' = pendingSend \/ pendingSend' = NoId \/ pendingSend' = r.cid
      BY <1>5 DEF Acknowledged, Refused, OutcomeUnknown, network
    <2> QED BY <1>1, <2>1 DEF RequestStep
  <1>6. ASSUME NEW r \in transit, Accept(r) \/ Refuse(r) PROVE RequestStep
    <2>1. used' = used /\ awaiting' = awaiting /\ transit' = transit \ {r} /\ pendingSend' = pendingSend
      BY <1>6 DEF Accept, Refuse, view
    <2> QED BY <1>1, <2>1 DEF RequestStep
  <1>7. CASE \/ Connect \/ Broadcast \/ AgentPosts \/ FieldsChange \/ Restart
             \/ Break \/ Lose \/ StreamError \/ Watchdog \/ Reconnect
             \/ ReturnPendingToDraft
    <2>1. /\ used' = used /\ awaiting' = awaiting /\ (transit' = transit \/ transit' = {})
          /\ pendingSend' = pendingSend \/ pendingSend' = NoId
      BY <1>7 DEF Connect, Broadcast, AgentPosts, FieldsChange, Restart,
                  Break, Lose, StreamError, BeginResync, Watchdog,
                  Reconnect, ReturnPendingToDraft, view, network
    <2> QED BY <1>1, <2>1 DEF RequestStep
  <1> QED BY <1>2, <1>3, <1>4, <1>5, <1>6, <1>7 DEF StreamNext, Serve, Settle, User

\* Client ids in the room and on the way are given ones.
LEMMA IdsKept ==
    ASSUME Typed, LogOnce, Sound(room), WireSound, IdsUsed, LogStep, ViewStep, RequestStep
    PROVE  IdsUsed'
  <1>1. used \subseteq used' /\ \A r \in transit \cup awaiting : r.cid \in used
    BY DEF RequestStep, IdsUsed
  <1>2. ToSet(log') \subseteq used' \cup {NoId}
    <2>1. CASE log' = log
      BY <2>1, <1>1 DEF IdsUsed
    <2>2. ASSUME NEW c \in ClientIds \cup {NoId}, log' = Append(log, c), c = NoId \/ \E r \in transit : r.cid = c
          PROVE  ToSet(log') \subseteq used' \cup {NoId}
      <3>1. log \in Seq(ClientIds \cup {NoId})
        BY DEF Typed
      <3>2. ToSet(log') = ToSet(log) \cup {c}
        BY <2>2, <3>1, AppendSet
      <3> QED BY <2>2, <3>2, <1>1 DEF IdsUsed
    <2> QED BY <2>1, <2>2 DEF LogStep
  <1>3. \A x \in ToSet(room') : x.cid \in used' \cup {NoId}
    <2>1. CASE room' = room
      BY <2>1, <1>1 DEF IdsUsed
    <2>2. CASE room' = << >>
      BY <2>2 DEF ToSet
    <2>3. ASSUME NEW c \in ClientIds, c \in used', room' = Append(room, Pending(c))
          PROVE  \A x \in ToSet(room') : x.cid \in used' \cup {NoId}
      <3>1. ToSet(room') = ToSet(room) \cup {Pending(c)} /\ Pending(c).cid = c
        BY <2>3, OptimisticFacts
      <3> QED BY <3>1, <2>3, <1>1 DEF IdsUsed
    <2>4. ASSUME NEW c \in ClientIds, room' = Kept(room, ToSet(room) \ {Pending(c)})
          PROVE  \A x \in ToSet(room') : x.cid \in used' \cup {NoId}
      <3>1. ToSet(room') \subseteq ToSet(room)
        BY <2>4, OptimisticFacts
      <3> QED BY <3>1, <1>1 DEF IdsUsed
    <2>5. ASSUME NEW e \in ToSet(wire), Apply(e)
          PROVE  \A x \in ToSet(room') : x.cid \in used' \cup {NoId}
      <3>1. room' = Reconciled(e)
        BY <2>5 DEF Apply
      <3>2. ToSet(room') \subseteq ToSet(room) \cup ToSet(e.messages) /\ Carried(e)
        BY <3>1, ReconciledFacts
      <3>3. \A x \in ToSet(e.messages) : x.cid \in ToSet(log)
        BY <3>2 DEF Carried, Holds, ToSet
      <3> QED BY <3>2, <3>3, <1>1 DEF IdsUsed
    <2> QED BY <2>1, <2>2, <2>3, <2>4, <2>5 DEF ViewStep
  <1>4. pendingSend' \in used' \cup {NoId} /\ \A r \in transit' \cup awaiting' : r.cid \in used'
    BY <1>1 DEF IdsUsed, RequestStep
  <1> QED BY <1>2, <1>3, <1>4 DEF IdsUsed

\* The types are kept.
LEMMA TypedKept ==
    ASSUME Typed, LogOnce, Sound(room), WireSound, IdsUsed, Numbered, StreamNext
    PROVE  Typed'
  <1>1. LogStep /\ StreamStep /\ ViewStep /\ RequestStep
    BY LogSteps, StreamSteps, ViewSteps, RequestSteps
  <1>2. log' \in Seq(ClientIds \cup {NoId}) /\ wire' \in Seq(EventType) /\ room' \in Seq(Mess)
    BY <1>1, LogKept, WireKept, RoomKept DEF Sound
  <1>3. stream' \in [id : Nat, version : Nat, seen : SUBSET StateType]
    <2>1. CASE Publishes
      <3>1. /\ stream' = [id |-> stream.id, version |-> Published.version, seen |-> {PublicState}]
            /\ Published.version \in Nat /\ PublicState \in StateType
        BY <2>1, PublishedWire, PublishFacts, PublicFacts
      <3>2. stream.id \in Nat
        BY DEF Typed
      <3> QED BY <3>1, <3>2
    <2>2. CASE stream' = stream \/ stream' = [id |-> stream.id + 1, version |-> 0, seen |-> {}]
      BY <2>2 DEF Typed
    <2> QED BY <2>1, <2>2, <1>1 DEF StreamStep
  <1>4. position' \in [stream : Nat, version : Nat] /\ shown' \in Nat
    <2>1. ASSUME NEW e \in ToSet(wire), Apply(e) PROVE position' \in [stream : Nat, version : Nat] /\ shown' \in Nat
      <3>1. e \in EventType
        BY ReconciledFacts
      <3> QED BY <2>1, <3>1 DEF Apply, EventType, Typed
    <2>2. CASE position' \in {position, NoPosition} /\ shown' \in {shown, 0}
      BY <2>2 DEF Typed, NoPosition
    <2> QED BY <2>1, <2>2, <1>1 DEF ViewStep
  <1>5. fields' \in Nat /\ protocol' \in {1, 2}
    <2>1. fields \in Nat /\ protocol \in {1, 2}
      BY DEF Typed
    <2>2. CASE FieldsChange \/ Restart
      BY <2>1, <2>2 DEF FieldsChange, Restart
    <2>3. CASE Receive
      BY <2>1, <2>3, ReceiveCases DEF server
    <2>4. CASE \/ Connect \/ Broadcast \/ AgentPosts \/ Serve \/ Break
               \/ Lose \/ StreamError \/ Watchdog \/ Reconnect \/ Settle
               \/ User
      BY <2>1, <2>4 DEF Connect, Broadcast, AgentPosts, Serve, Accept,
                        Refuse, Break, Lose, StreamError, Watchdog,
                        Reconnect, Settle, User, Acknowledged, Refused,
                        OutcomeUnknown, SubmitMessage, ResendPending,
                        ReturnPendingToDraft, server
    <2> QED BY <2>2, <2>3, <2>4 DEF StreamNext
  <1>6. pendingSend' \in ClientIds \cup {NoId} /\ transit' \in SUBSET Requests /\ awaiting' \in SUBSET Requests
        /\ used' \in SUBSET ClientIds
    BY <1>1 DEF RequestStep, Typed, Requests
  <1> QED BY <1>2, <1>3, <1>4, <1>5, <1>6 DEF Typed

\* No position and no event is of a stream that has not begun.
LEMMA NumberedKept ==
    ASSUME Typed, LogOnce, Sound(room), WireSound, Numbered, StreamStep, ViewStep
    PROVE  Numbered'
  <1>1. /\ stream.id \in Nat /\ stream.id # 0 /\ position.stream \in Nat /\ position.stream <= stream.id
        /\ \A e \in ToSet(wire) : e.stream \in Nat /\ e.stream <= stream.id
        /\ stream.seen = {} => position.stream # stream.id /\ \A e \in ToSet(wire) : e.stream # stream.id
    <2>1. \A e \in ToSet(wire) : e \in EventType
      BY DEF Typed, ToSet
    <2>2. \A e \in EventType : e.stream \in Nat
      BY DEF EventType
    <2>3. stream.id \in Nat /\ position.stream \in Nat
      BY DEF Typed
    <2> QED BY <2>1, <2>2, <2>3 DEF Numbered
  <1>2. CASE Publishes
    <2>1. /\ stream' = Published /\ Published.id = stream.id /\ Published.seen = {PublicState}
          /\ \A e \in ToSet(wire') : e.stream <= stream.id
      BY <1>1, <1>2, PublishedWire, PublishFacts DEF Tells
    <2>2. position' = position
      BY <1>2 DEF Publishes, view
    <2> QED BY <1>1, <2>1, <2>2 DEF Numbered
  <1>3. CASE ToSet(wire') \subseteq ToSet(wire) /\ stream' = stream
    <2>1. position'.stream = position.stream \/ position'.stream = 0
          \/ \E e \in ToSet(wire) : position'.stream = e.stream
      <3>1. CASE position' = position \/ position' = NoPosition
        BY <3>1 DEF NoPosition
      <3>2. ASSUME NEW e \in ToSet(wire), Apply(e) PROVE position'.stream = e.stream
        BY <3>2 DEF Apply
      <3> QED BY <3>1, <3>2 DEF ViewStep
    <2> QED BY <1>1, <1>3, <2>1 DEF Numbered
  <1>4. CASE /\ ToSet(wire') \subseteq ToSet(wire) /\ UNCHANGED view
             /\ stream' = [id |-> stream.id + 1, version |-> 0, seen |-> {}]
    <2>1. stream'.id = stream.id + 1 /\ stream'.seen = {} /\ position' = position
      BY <1>4 DEF view
    <2>2. \A n \in Nat : n <= stream.id => n <= stream.id + 1 /\ n # stream.id + 1
      BY <1>1
    <2> QED BY <1>1, <1>4, <2>1, <2>2 DEF Numbered
  <1> QED BY <1>2, <1>3, <1>4 DEF StreamStep

\* What was told of the stream stays told.
LEMMA ToldKept ==
    ASSUME Typed, LogOnce, Sound(room), WireSound, Numbered, Told, StreamStep, ViewStep
    PROVE  Told'
  <1>1. PICK H : Agrees(H)
    BY DEF Told
  <1>2. /\ stream.id \in Nat /\ stream.version \in Nat /\ position.stream \in Nat /\ position.version \in Nat
        /\ \A e \in ToSet(wire) : e.version \in Nat /\ e.from \in Nat
    <2>1. \A e \in ToSet(wire) : e \in EventType
      BY DEF Typed, ToSet
    <2>2. \A e \in EventType : e.version \in Nat /\ e.from \in Nat
      BY DEF EventType
    <2>3. stream.id \in Nat /\ stream.version \in Nat /\ position.stream \in Nat /\ position.version \in Nat
      BY DEF Typed
    <2> QED BY <2>1, <2>2, <2>3
  <1>3. CASE Publishes
    <2>1. PICK G : Continues(G, H)
      BY <1>1, HistoryContinues
    <2>2. /\ stream' = Published /\ Published.id = stream.id /\ Published.seen = {PublicState}
          /\ Published.version \in Nat /\ stream.version <= Published.version
          /\ \A e \in ToSet(wire') :
                \/ e \in ToSet(wire) /\ stream.seen # {}
                \/ e \in ToSet(EventsFor(PublicState))
                \/ Tells(e, "snapshot", 0, Published.version, 1)
      BY <1>3, PublishedWire
    <2>3. position' = position /\ room' = room /\ shown' = shown
      BY <1>3 DEF Publishes, view
    <2>4. ASSUME NEW e \in ToSet(wire'), e.stream = stream.id PROVE EventAgrees(e, G)'
      <3>1. CASE e \in ToSet(wire) /\ stream.seen # {}
        <4>1. EventAgrees(e, H) /\ \A w \in Nat : w <= stream.version => G[w] = H[w]
          BY <2>1, <2>4, <3>1, <1>1 DEF Agrees, Continues
        <4>2. e.version \in Nat /\ e.from \in Nat /\ e.version <= stream.version
          BY <3>1, <4>1, <1>2 DEF EventAgrees
        <4>3. e.version <= Published.version /\ G[e.version] = H[e.version]
          BY <4>1, <4>2, <2>2, <1>2
        <4>4. e.version = e.from + 1 => G[e.from] = H[e.from]
          BY <4>1, <4>2, <1>2
        <4> QED BY <4>1, <4>3, <4>4, <2>2 DEF EventAgrees
      <3>2. CASE e \in ToSet(EventsFor(PublicState))
        BY <3>2, <2>1, <2>2 DEF Continues, EventAgrees
      <3>3. CASE Tells(e, "snapshot", 0, Published.version, 1)
        <4>1. PublicState.messages \in Seq(Mess) /\ PublicState.fields = fields
          BY PublicFacts DEF StateType, PublicState
        <4>2. SubSeq(PublicState.messages, 1, Len(PublicState.messages)) = PublicState.messages
          BY <4>1, SubSeqProperties
        <4>3. Shows(e) = Shows(PublicState) /\ e.kind = "snapshot" /\ e.version = Published.version
          BY <3>3, <4>1, <4>2 DEF Tells, Shows
        <4>4. G[Published.version] = Shows(PublicState)
          BY <2>1 DEF Continues
        <4> QED BY <4>3, <4>4, <2>2 DEF EventAgrees
      <3> QED BY <2>2, <3>1, <3>2, <3>3
    <2>5. ASSUME position.stream = stream.id
          PROVE  /\ position.version <= Published.version
                 /\ G[position.version] = [messages |-> Authoritative(room), fields |-> shown]
      <3>1. stream.seen # {}
        BY <2>5 DEF Numbered
      <3>2. /\ position.version <= stream.version
            /\ H[position.version] = [messages |-> Authoritative(room), fields |-> shown]
        BY <2>5, <1>1 DEF Agrees
      <3>3. G[position.version] = H[position.version]
        BY <3>1, <3>2, <2>1, <1>2 DEF Continues
      <3> QED BY <3>2, <3>3, <2>2, <1>2
    <2>6. \A s \in Published.seen : G[Published.version] = Shows(s)
      BY <2>1, <2>2 DEF Continues
    <2>7. Agrees(G)'
      BY <2>2, <2>3, <2>4, <2>5, <2>6 DEF Agrees
    <2> QED BY <2>7 DEF Told
  <1>4. CASE ToSet(wire') \subseteq ToSet(wire) /\ stream' = stream
    <2>1. \A e \in ToSet(wire') : e.stream = stream.id => EventAgrees(e, H)'
      BY <1>1, <1>4 DEF Agrees, EventAgrees
    <2>2. ASSUME position'.stream = stream.id
          PROVE  /\ position'.version <= stream.version
                 /\ H[position'.version] = [messages |-> Authoritative(room'), fields |-> shown']
      <3>1. stream.id # 0
        BY DEF Numbered
      <3>2. CASE position' = NoPosition
        BY <3>1, <3>2, <2>2 DEF NoPosition
      <3>3. CASE position' = position /\ shown' = shown /\ Authoritative(room') = Authoritative(room)
        BY <3>3, <2>2, <1>1 DEF Agrees
      <3>4. ASSUME NEW c \in ClientIds, \/ room' = Append(room, Pending(c))
                                        \/ room' = Kept(room, ToSet(room) \ {Pending(c)})
            PROVE  Authoritative(room') = Authoritative(room)
        <4>1. CASE room' = Append(room, Pending(c))
          BY <4>1, OptimisticFacts
        <4>2. CASE room' = Kept(room, ToSet(room) \ {Pending(c)})
          BY <4>2, OptimisticFacts
        <4> QED BY <3>4, <4>1, <4>2
      <3>5. ASSUME NEW e \in ToSet(wire), Reconciliation(e) = "applied", Apply(e)
            PROVE  /\ position'.version <= stream.version
                   /\ H[position'.version] = [messages |-> Authoritative(room'), fields |-> shown']
        <4>1. /\ room' = Reconciled(e) /\ position' = [stream |-> e.stream, version |-> e.version]
              /\ shown' = IF e.kind = "append" THEN shown ELSE e.fields
          BY <3>5 DEF Apply
        <4>2. position'.stream = e.stream /\ position'.version = e.version
          BY <4>1
        <4>3. EventAgrees(e, H)
          BY <4>2, <2>2, <1>1 DEF Agrees
        <4>4. CASE e.kind = "snapshot"
          <5>1. Authoritative(room') = ToSet(e.messages)
            BY <4>1, <4>4, ReconciledFacts
          <5>2. shown' = e.fields
            BY <4>1, <4>4
          <5> QED BY <5>1, <5>2, <4>2, <4>3, <4>4 DEF EventAgrees, Shows
        <4>5. CASE e.kind # "snapshot"
          <5>1. e.stream = position.stream /\ e.from = position.version
            BY <3>5, <4>5 DEF Reconciliation
          <5>2. H[e.from].messages = Authoritative(room) /\ H[e.from].fields = shown
            BY <5>1, <4>2, <2>2, <1>1 DEF Agrees
          <5>3. Authoritative(room') = Authoritative(room) \cup ToSet(e.messages)
            BY <4>1, <4>5, ReconciledFacts
          <5> QED BY <5>2, <5>3, <4>1, <4>2, <4>3, <4>5 DEF EventAgrees
        <4> QED BY <4>4, <4>5
      <3>6. room' = room => Authoritative(room') = Authoritative(room)
        OBVIOUS
      <3> QED BY <3>2, <3>3, <3>4, <3>5, <3>6 DEF ViewStep
    <2>3. Authoritative(room)' = Authoritative(room')
      BY DEF Authoritative
    <2>4. Agrees(H)'
      BY <2>1, <2>2, <2>3, <1>1, <1>4 DEF Agrees
    <2> QED BY <2>4 DEF Told
  <1>5. CASE /\ ToSet(wire') \subseteq ToSet(wire) /\ UNCHANGED view
             /\ stream' = [id |-> stream.id + 1, version |-> 0, seen |-> {}]
    <2>1. stream'.id = stream.id + 1 /\ stream'.seen = {} /\ position' = position
      BY <1>5 DEF view
    <2>2. /\ \A e \in ToSet(wire') : e.stream \in Nat /\ e.stream <= stream.id
          /\ position.stream <= stream.id
      <3>1. \A e \in ToSet(wire) : e \in EventType
        BY DEF Typed, ToSet
      <3>2. \A e \in EventType : e.stream \in Nat
        BY DEF EventType
      <3> QED BY <3>1, <3>2, <1>5 DEF Numbered
    <2>3. \A n \in Nat : n <= stream.id => n # stream.id + 1
      BY <1>2
    <2>4. Agrees(H)'
      BY <2>1, <2>2, <2>3, <1>2 DEF Agrees
    <2> QED BY <2>4 DEF Told
  <1> QED BY <1>3, <1>4, <1>5 DEF StreamStep

\* What a step does to the offer of sending again.
OfferStep ==
    \/ /\ pendingSend' = pendingSend \/ pendingSend' = NoId
       /\ room' = << >> \/ Authoritative(room') = Authoritative(room)
    \/ /\ Authoritative(room') = Authoritative(room)
       /\ \E c \in ClientIds : pendingSend' = IF Has(room, c) THEN pendingSend ELSE c
    \/ pendingSend' = IF Has(room', pendingSend) THEN NoId ELSE pendingSend

\* Each action offers a message the list does not have, or looks again when the list
\* changes.
LEMMA OfferSteps == ASSUME Typed, StreamNext PROVE OfferStep
  <1>1. room' = room => Authoritative(room') = Authoritative(room)
    OBVIOUS
  <1>2. CASE Receive
    <2> DEFINE e == Head(wire)
    <2>1. ReceiveOutcome(e)
      BY <1>2, ReceiveCases
    <2>2. CASE Apply(e)
      BY <2>2 DEF Apply, OfferStep
    <2>3. CASE BeginResync
      BY <1>1, <2>3 DEF BeginResync, OfferStep
    <2>4. CASE Incompatible(e)
      BY <1>1, <2>4 DEF Incompatible, Reload, view, OfferStep
    <2>5. CASE UNCHANGED <<view, conn, marker, bundle, resending, awaiting>>
      BY <1>1, <2>5 DEF view, OfferStep
    <2> HIDE DEF e
    <2> QED BY <2>1, <2>2, <2>3, <2>4, <2>5 DEF ReceiveOutcome
  <1>3. ASSUME NEW c \in ClientIds, SubmitMessage(c) PROVE OfferStep
    <2>1. room' = Append(room, Pending(c)) /\ pendingSend' = pendingSend
      BY <1>3 DEF SubmitMessage
    <2> QED BY <2>1, OptimisticFacts DEF OfferStep
  <1>4. ASSUME NEW r \in awaiting, Refused(r) \/ OutcomeUnknown(r) PROVE OfferStep
    <2>1. r.cid \in ClientIds
      BY DEF Typed, Requests
    <2>2. room' = room \/ room' = Kept(room, ToSet(room) \ {Pending(r.cid)})
      BY <1>4 DEF Refused, OutcomeUnknown, Discard
    <2>3. Authoritative(room') = Authoritative(room)
      BY <1>1, <2>1, <2>2, OptimisticFacts
    <2>4. \/ pendingSend' = pendingSend
          \/ pendingSend' = IF Has(room, r.cid) THEN pendingSend ELSE r.cid
      BY <1>4 DEF Refused, OutcomeUnknown, Delivered
    <2> QED BY <2>1, <2>3, <2>4 DEF OfferStep
  <1>5. CASE \/ Connect \/ Broadcast \/ AgentPosts \/ FieldsChange \/ Serve
             \/ Restart \/ Break \/ Lose \/ StreamError \/ Watchdog
             \/ Reconnect \/ ResendPending \/ ReturnPendingToDraft
             \/ \E r \in awaiting : Acknowledged(r)
    <2>1. room' = room /\ (pendingSend' = pendingSend \/ pendingSend' = NoId)
      BY <1>5 DEF Connect, Broadcast, AgentPosts, FieldsChange, Serve,
                  Accept, Refuse, Restart, Break, Lose, StreamError,
                  BeginResync, Watchdog, Reconnect, ResendPending,
                  ReturnPendingToDraft, Acknowledged, view
    <2> QED BY <1>1, <2>1 DEF OfferStep
  <1> QED BY <1>2, <1>3, <1>4, <1>5 DEF StreamNext, Settle, User

\* The offer stays one of an unseen message.
LEMMA OfferKept == ASSUME OfferIsUnseen, OfferStep PROVE OfferIsUnseen'
  <1>1. OfferIsUnseen' = (pendingSend' # NoId => ~Has(room', pendingSend'))
    BY DEF OfferIsUnseen, Has, Authoritative
  <1>2. \A c : Authoritative(room') = Authoritative(room) => (Has(room', c) <=> Has(room, c))
    BY DEF Has
  <1>3. \A c : room' = << >> => ~Has(room', c)
    BY DEF Has, Authoritative, ToSet
  <1> QED BY <1>1, <1>2, <1>3 DEF OfferStep, OfferIsUnseen

-----------------------------------------------------------------------------
(* The theorems *)

\* At the beginning nothing was said, published or asked.
LEMMA StreamInvInit == StreamInit => StreamInv
  <1> SUFFICES ASSUME StreamInit PROVE StreamInv
    OBVIOUS
  <1>1. /\ log = << >> /\ wire = << >> /\ room = << >> /\ ToSet(<< >>) = {}
        /\ stream = [id |-> 1, version |-> 0, seen |-> {}] /\ position = [stream |-> 0, version |-> 0]
    BY DEF StreamInit, NoPosition, ToSet
  <1>2. Typed
    BY <1>1 DEF StreamInit, Typed
  <1>3. LogOnce /\ Sound(room) /\ WireSound
    BY <1>1 DEF LogOnce, Sound, WireSound, Apart
  <1>4. IdsUsed
    BY <1>1 DEF StreamInit, IdsUsed
  <1>5. Numbered
    BY <1>1 DEF Numbered
  <1>6. Agrees(<< >>)
    BY <1>1 DEF Agrees
  <1>7. OfferIsUnseen
    BY DEF StreamInit, OfferIsUnseen
  <1> QED BY <1>2, <1>3, <1>4, <1>5, <1>6, <1>7 DEF StreamInv, Told

\* Each part of the invariant is kept by the kinds of step it can notice.
LEMMA StreamInvStep == StreamInv /\ [StreamNext]_streamVars => StreamInv'
  <1> SUFFICES ASSUME StreamInv, [StreamNext]_streamVars PROVE StreamInv'
    OBVIOUS
  <1>1. CASE StreamNext
    <2>1. /\ Typed /\ LogOnce /\ Sound(room) /\ WireSound /\ IdsUsed /\ Numbered /\ Told /\ OfferIsUnseen
      BY DEF StreamInv
    <2>2. LogStep /\ StreamStep /\ ViewStep /\ RequestStep /\ OfferStep
      BY <1>1, <2>1, LogSteps, StreamSteps, ViewSteps, RequestSteps, OfferSteps
    <2>3. Typed'
      BY <1>1, <2>1, TypedKept
    <2>4. LogOnce' /\ Sound(room)' /\ WireSound' /\ IdsUsed' /\ Numbered' /\ Told' /\ OfferIsUnseen'
      BY <2>1, <2>2, LogKept, RoomKept, WireKept, IdsKept, NumberedKept, ToldKept, OfferKept
    <2> QED BY <2>3, <2>4 DEF StreamInv
  <1>2. CASE UNCHANGED streamVars
    <2>1. /\ log' = log /\ fields' = fields /\ protocol' = protocol /\ stream' = stream /\ wire' = wire
          /\ position' = position /\ room' = room /\ shown' = shown /\ pendingSend' = pendingSend
          /\ transit' = transit /\ awaiting' = awaiting /\ used' = used
      BY <1>2 DEF streamVars, server, view, network
    <2>2. Typed' /\ LogOnce' /\ IdsUsed' /\ Numbered'
      BY <2>1 DEF StreamInv, Typed, LogOnce, IdsUsed, Numbered
    <2>3. \A x : Holds(x)' <=> Holds(x)
      BY <2>1 DEF Holds
    <2>4. Sound(room)'
      BY <2>1, <2>3 DEF StreamInv, Sound
    <2>5. \A e : Carried(e)' <=> Carried(e)
      BY <2>3 DEF Carried
    <2>6. WireSound'
      BY <2>1, <2>5 DEF StreamInv, WireSound
    <2>7. OfferIsUnseen'
      BY <2>1 DEF StreamInv, OfferIsUnseen, Has, Authoritative
    <2>8. PICK H : Agrees(H)
      BY DEF StreamInv, Told
    <2>9. \A e : EventAgrees(e, H)' <=> EventAgrees(e, H)
      BY <2>1 DEF EventAgrees
    <2>10. Authoritative(room)' = Authoritative(room)
      BY <2>1 DEF Authoritative
    <2>11. Agrees(H)'
      BY <2>1, <2>8, <2>9, <2>10 DEF Agrees
    <2> QED BY <2>2, <2>4, <2>6, <2>7, <2>11 DEF StreamInv, Told
  <1> QED BY <1>1, <1>2

\* The invariant holds: what connect and broadcast published, what is under way to the
\* browser and what the browser applied of it belong to one history, and each message
\* is stored once and once in the browser's list.
THEOREM StreamIsSound == StreamSpec => []StreamInv
  <1>1. StreamInv /\ [StreamNext]_streamVars => StreamInv'
    BY StreamInvStep
  <1> QED BY <1>1, StreamInvInit, PTL DEF StreamSpec

\* At the stream's last version the browser shows what connect or broadcast published
\* with it, through every loss, restart of the server and reconnect.
THEOREM ViewIsCurrent == StreamSpec => []ViewIsPublished
  <1>1. StreamInv => ViewIsPublished
    <2> SUFFICES ASSUME StreamInv, position = [stream |-> stream.id, version |-> stream.version],
                        NEW s \in stream.seen
                 PROVE  Authoritative(room) = ToSet(s.messages) /\ shown = s.fields
      BY DEF ViewIsPublished
    <2>1. PICK H : Agrees(H)
      BY DEF StreamInv, Told
    <2>2. H[stream.version] = Shows(s)
      BY <2>1 DEF Agrees
    <2>3. H[stream.version] = [messages |-> Authoritative(room), fields |-> shown]
      BY <2>1 DEF Agrees
    <2> QED BY <2>2, <2>3 DEF Shows
  <1> QED BY <1>1, StreamIsSound, PTL

\* However snapshots, appends, deltas and the browser's own optimistic messages cross,
\* mergeRoomMessages leaves each message once in the list.
THEOREM MessagesAreShownOnce == StreamSpec => []ShownOnce
  <1>1. StreamInv => ShownOnce
    BY DEF StreamInv, Sound, Apart, Clear, ShownOnce
  <1> QED BY <1>1, StreamIsSound, PTL

\* The browser offers to send a message again only while the room it shows does not
\* have it: pendingSend is dropped when a snapshot or an event brings the message.
THEOREM OffersAreUnseen == StreamSpec => []OfferIsUnseen
  <1>1. StreamInv => OfferIsUnseen
    BY DEF StreamInv
  <1> QED BY <1>1, StreamIsSound, PTL

=============================================================================
