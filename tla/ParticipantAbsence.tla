------------------------- MODULE ParticipantAbsence -------------------------
(***************************************************************************)
(* What protected work promises the room, without saying how: a           *)
(* participant leaves once, is withheld from the room until it is back,    *)
(* reports at most once and only after its work was stopped for certain,   *)
(* and the outcome the ledger keeps for ever agrees with the room.         *)
(***************************************************************************)

VARIABLES stage,     \* where the participant is
          withheld,  \* the room may not start it
          report,    \* its report in the room: "no", "memory", "saved"
          outcome    \* what the ledger says of the return

absence == <<stage, withheld, report, outcome>>

Stages == {"here", "leaving", "away", "stopped", "back"}

Init == stage = "here" /\ withheld = FALSE /\ report = "no" /\ outcome = "none"

\* The admission withholds the participant before anything is durable ...
Leave ==
    /\ stage = "here" /\ stage' = "leaving"
    /\ withheld' = TRUE /\ UNCHANGED <<report, outcome>>

\* ... and gives it back when the admission fails or is forgotten.
StayAfterAll ==
    /\ stage = "leaving" /\ stage' = "here"
    /\ withheld' = FALSE /\ UNCHANGED <<report, outcome>>

Depart ==
    /\ stage = "leaving" /\ stage' = "away"
    /\ UNCHANGED <<withheld, report, outcome>>

\* The executor is known to have stopped; only now may there be a report.
ConfirmStop ==
    /\ stage = "away" /\ stage' = "stopped"
    /\ UNCHANGED <<withheld, report, outcome>>

Report ==
    /\ stage = "stopped" /\ report = "no" /\ report' = "memory"
    /\ UNCHANGED <<stage, withheld, outcome>>

Persist ==
    /\ report = "memory" /\ report' = "saved"
    /\ UNCHANGED <<stage, withheld, outcome>>

\* A crash before the room was saved; a report the ledger counts on is not lost.
Lose ==
    /\ report = "memory" /\ stage = "stopped" /\ report' = "no"
    /\ UNCHANGED <<stage, withheld, outcome>>

ComeBack ==
    /\ stage \in {"away", "stopped"} /\ stage' = "back"
    /\ withheld' = FALSE
    /\ outcome' = IF report = "no" THEN "no-update" ELSE "delivered"
    /\ UNCHANGED report

Next == \/ Leave \/ StayAfterAll \/ Depart \/ ConfirmStop
        \/ Report \/ Persist \/ Lose \/ ComeBack

Spec == Init /\ [][Next]_absence
=============================================================================
