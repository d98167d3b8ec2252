------------------------ MODULE MCConversationRun ---------------------------
(* Small instances of ConversationRun, with the policies of the code. *)
EXTENDS ConversationRun, TLC

CONSTANTS a1, a2, a3, a4

Low      == [participants |-> 1, all |-> FALSE, certain |-> FALSE, soft |-> 1,
             messages |-> 3, turns |-> 3]
Balanced == [participants |-> 2, all |-> FALSE, certain |-> FALSE, soft |-> 4,
             messages |-> 6, turns |-> 6]

Run(candidates, mentionable, policy, invite, stop, floor, n) ==
    [candidates |-> candidates, mentionable |-> mentionable, inviteAll |-> invite,
     stopOnSettled |-> stop, floor |-> floor, concurrency |-> n] @@ policy

\* What latestHumanBroadcastPolicy can answer: nothing special, the whole room, one
\* answer, a conversational floor, the whole room with a floor.
Broadcasts == {<<FALSE, FALSE, FALSE>>, <<FALSE, TRUE, FALSE>>, <<FALSE, FALSE, TRUE>>}
WholeRoom  == {<<TRUE, FALSE, FALSE>>, <<TRUE, FALSE, TRUE>>}

RunsOf(candidates, mentionable, policy, broadcasts) ==
    {Run(candidates, mentionable, policy, b[1], b[2], b[3], n) : b \in broadcasts, n \in {1, 2}}

\* Two candidates and a participant that may only be mentioned: runs that soon reach
\* the ceilings, and one that goes on until its pairs have had their replies.
Addressed == RunsOf(<<a1, a2>>, {a1, a2, a3}, Low, Broadcasts)
               \cup {Run(<<a1, a2>>, {a1, a2, a3}, Balanced, FALSE, FALSE, FALSE, 1)}
\* A room larger than the flat ceilings, and one that comes to converge; nobody is
\* mentioned.
Ceilings  == RunsOf(<<a1, a2, a3, a4>>, {}, Low, WholeRoom)
               \cup RunsOf(<<a1, a2, a3, a4>>, {}, Balanced, Broadcasts)
Staged == Addressed \cup Ceilings

\* Room actions: they carry no broadcast option.  Two or three agents that name one
\* another and one more, by one worker, two or three, with one follow-up, three or
\* four, and four agents that leave none.
NoBroadcast == {<<FALSE, FALSE, FALSE>>}
Actions == RunsOf(<<a1, a2>>, {a1, a2, a3}, Low, NoBroadcast)
             \cup RunsOf(<<a1, a2>>, {a1, a2, a3}, Balanced, NoBroadcast)
             \cup {Run(<<a1, a2, a3>>, {a1, a2, a3, a4}, Balanced, FALSE, FALSE, FALSE, 3)}
             \cup RunsOf(<<a1, a2, a3, a4>>, {a1, a2, a3}, Low, NoBroadcast)

MCOptions == Staged \cup Actions
MCRuns == [staged : {TRUE}, opt : Staged] \cup [staged : {FALSE}, opt : Actions]
=============================================================================
