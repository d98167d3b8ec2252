------------------------------ MODULE RoomProtocol ------------------------------
(***************************************************************************)
(* The room's event stream and the browser that follows it.  The server    *)
(* publishes numbered events of one viewer's stream over one connection at *)
(* a time (server/room-event-stream.ts); the browser reconciles them with  *)
(* its own optimistic messages, reconnects, and posts messages whose       *)
(* outcome it may never learn (src/room-reconciliation.ts, src/App.tsx).   *)
(* A stored message is named by its place in the log, an optimistic one    *)
(* by 0 and its client message id.  The specification is StreamSpec, so    *)
(* that a module may speak of the stream and of the turns (RoomTurns).     *)
(***************************************************************************)
EXTENDS Naturals, Sequences, FiniteSets, SequencesExt

CONSTANTS ClientIds,     \* the client message ids the browser may create
          NoId,          \* no client message id
          Posts,         \* bound: the messages others may post
          Changes,       \* bound: the changes of the other room fields
          Losses,        \* bound: connections that break or look stale
          Restarts,      \* bound: restarts of the server
          Resends        \* bound: the user's clicks on "Send now"

ASSUME NoIdAssumption == NoId \notin ClientIds
ASSUME BoundsAssumption == {Posts, Changes, Losses, Restarts, Resends} \subseteq Nat

NoPosition == [stream |-> 0, version |-> 0]

VARIABLES
  log,        \* the client ids of the stored messages, in their order
  fields,     \* the revision of everything else in the public room state
  protocol,   \* ROOM_PROTOCOL_VERSION of the running server
  stream,     \* [id, version, seen]: the stream object of this boot
  conn,       \* "waiting" | "requested" | "open" | "broken" | "closed"
  wire,       \* events written to the connection and not yet handled
  bundle,     \* ROOM_PROTOCOL_VERSION of the loaded client
  marker,     \* the boot the client has already reloaded for, or 0
  position, room, shown, connected,   \* roomPosition, room.messages, its other fields
  pendingSend, resending,
  transit,    \* requests on their way to the server
  replies,    \* answers on their way to the browser
  awaiting,   \* requests the browser still waits for
  used,       \* the ids that were given to a message
  spent       \* how much of each bound is used up

server == <<log, fields, protocol, stream>>
network == <<transit, replies>>
view == <<position, room, shown, connected, pendingSend>>
streamVars == <<server, conn, wire, bundle, marker, view, resending, network, awaiting, used, spent>>

Message(i) == [id |-> i, cid |-> log[i]]
Pending(c) == [id |-> 0, cid |-> c]
PublicState == [messages |-> [i \in DOMAIN log |-> Message(i)], fields |-> fields]
Nothing == [messages |-> <<>>, fields |-> 0]

StreamInit ==
  /\ log = <<>> /\ fields = 0 /\ protocol = 1 /\ bundle = 1 /\ marker = 0
  /\ stream = [id |-> 1, version |-> 0, seen |-> {}]
  /\ conn = "requested" /\ wire = <<>>
  /\ position = NoPosition /\ room = <<>> /\ shown = 0 /\ connected = FALSE
  /\ pendingSend = NoId /\ resending = FALSE
  /\ transit = {} /\ replies = {} /\ awaiting = {} /\ used = {}
  /\ spent = [agents |-> 0, losses |-> 0, restarts |-> 0, resends |-> 0]

Spend(what) == spent' = [spent EXCEPT ![what] = @ + 1]

(***************************************************************************)
(* The server: room-event-stream.ts.                                       *)
(***************************************************************************)
Event(kind, from, version, state, first) ==
  [kind |-> kind, stream |-> stream.id, from |-> from, version |-> version,
   messages |-> SubSeq(state.messages, first, Len(state.messages)), fields |-> state.fields, protocol |-> protocol]

\* The events that bring a client from the last published state to the next.
EventsFor(next) ==
  IF stream.seen = {} THEN <<>>
  ELSE LET prev == CHOOSE s \in stream.seen : TRUE
           v == stream.version
           appended == IF Len(next.messages) > Len(prev.messages)
                       THEN <<Event("append", v, v + 1, next, Len(prev.messages) + 1)>> ELSE <<>>
           w == v + Len(appended)
           delta == IF next.fields # prev.fields THEN <<Event("delta", w, w + 1, next, Len(next.messages) + 1)>> ELSE <<>>
       IN IF ~IsPrefix(prev.messages, next.messages) THEN <<Event("snapshot", v, v + 1, next, 1)>>
          ELSE appended \o delta

Published == [stream EXCEPT !.version = @ + Len(EventsFor(PublicState)), !.seen = {PublicState}]

\* GET /api/events: the baseline moves first, then the client gets a snapshot.
Connect ==
  /\ conn = "requested"
  /\ stream' = Published
  /\ wire' = <<Event("snapshot", 0, Published.version, PublicState, 1)>>
  /\ conn' = "open"
  /\ UNCHANGED <<log, fields, protocol, bundle, marker, view, resending, network, awaiting, used, spent>>

\* broadcast(): every handler that changed the room ends with one.
Broadcast ==
  /\ stream.seen \notin {{}, {PublicState}}
  /\ stream' = Published
  /\ wire' = IF conn = "open" THEN wire \o EventsFor(PublicState) ELSE wire
  /\ UNCHANGED <<log, fields, protocol, conn, bundle, marker, view, resending, network, awaiting, used, spent>>

AgentPosts ==
  /\ spent.agents < Posts /\ Spend("agents")
  /\ log' = Append(log, NoId)
  /\ UNCHANGED <<fields, protocol, stream, conn, wire, bundle, marker, view, resending, network, awaiting, used>>

FieldsChange ==
  /\ fields < Changes
  /\ fields' = fields + 1
  /\ UNCHANGED <<log, protocol, stream, conn, wire, bundle, marker, view, resending, network, awaiting, used, spent>>

Stored(c) == c \in ToSet(log)

\* POST /api/messages: an id that is already stored is answered, not stored again.
AddHumanMessageOnce(c) == log' = IF Stored(c) THEN log ELSE Append(log, c)

Accept(r) ==
  /\ r \in transit /\ transit' = transit \ {r}
  /\ AddHumanMessageOnce(r.cid)
  /\ replies' = replies \cup {[request |-> r, ok |-> TRUE]}
  /\ UNCHANGED <<fields, protocol, stream, conn, wire, bundle, marker, view, resending, awaiting, used, spent>>

\* The request is refused before anything is stored (session, mentions, text).
Refuse(r) ==
  /\ r \in transit /\ transit' = transit \ {r} /\ ~Stored(r.cid)
  /\ replies' = replies \cup {[request |-> r, ok |-> FALSE]}
  /\ UNCHANGED <<server, conn, wire, bundle, marker, view, resending, awaiting, used, spent>>

\* The next boot has a new stream, perhaps a newer protocol, and no connections.
Restart ==
  /\ spent.restarts < Restarts /\ Spend("restarts")
  /\ stream' = [id |-> stream.id + 1, version |-> 0, seen |-> {}]
  /\ protocol' \in {protocol, 2}
  /\ conn' = IF conn \in {"open", "requested"} THEN "broken" ELSE conn
  /\ \E n \in 0..Len(wire) : wire' = SubSeq(wire, 1, n)
  /\ transit' = {} /\ replies' = {}
  /\ UNCHANGED <<log, fields, bundle, marker, view, resending, awaiting, used>>

(***************************************************************************)
(* The browser: room-reconciliation.ts.                                    *)
(***************************************************************************)
Authoritative(messages) == {m \in ToSet(messages) : m.id # 0}
Has(messages, c) == \E m \in Authoritative(messages) : m.cid = c

\* filter: the elements of s that are in T, in their order.
Kept(s, T) ==
  LET kept[n \in 0..Len(s)] ==
        IF n = 0 THEN <<>> ELSE IF s[n] \in T THEN Append(kept[n - 1], s[n]) ELSE kept[n - 1]
  IN kept[Len(s)]

\* installSnapshot: the optimistic messages the snapshot does not hold stay.
\* Mutant: without looking for them in the snapshot.
InstallSnapshot_all(current, next) == next \o Kept(current, {m \in ToSet(current) : m.id = 0})
InstallSnapshot(current, next) ==
  next \o Kept(current, {m \in ToSet(current) : m.id = 0 /\ ~Has(next, m.cid)})

\* mergeAuthoritativeMessages: replace in place by id or client id, else append.
MergeOne(current, m) ==
  LET same == {i \in DOMAIN current : current[i].id = m.id \/ (m.cid # NoId /\ current[i].cid = m.cid)}
  IN IF same = {} THEN Append(current, m)
     ELSE [current EXCEPT ![CHOOSE i \in same : \A j \in same : i <= j] = m]

Merge(current, appended) ==
  LET merged[n \in 0..Len(appended)] ==
        IF n = 0 THEN current ELSE MergeOne(merged[n - 1], appended[n])
  IN merged[Len(appended)]

\* Mutant: any later event of the stream is applied.
Reconciliation_gaps(e) ==
  IF e.kind = "snapshot" THEN IF e.protocol = bundle THEN "applied" ELSE "incompatible"
  ELSE IF position = NoPosition \/ e.stream # position.stream THEN "resync"
  ELSE IF e.version <= position.version THEN "ignored"
  ELSE "applied"

Reconciliation(e) ==
  IF e.kind = "snapshot" THEN IF e.protocol = bundle THEN "applied" ELSE "incompatible"
  ELSE IF position = NoPosition \/ e.stream # position.stream THEN "resync"
  ELSE IF e.version <= position.version THEN "ignored"
  ELSE IF e.from # position.version \/ e.version # e.from + 1 THEN "resync"
  ELSE IF e.kind = "delta" /\ e.protocol # bundle THEN "incompatible"
  ELSE "applied"

Reconciled(e) == IF e.kind = "snapshot" THEN InstallSnapshot(room, e.messages) ELSE Merge(room, e.messages)

\* onmessage, when the reconciliation applies: the whole view moves at once.
Apply(e) ==
  /\ room' = Reconciled(e)
  /\ shown' = IF e.kind = "append" THEN shown ELSE e.fields
  /\ position' = [stream |-> e.stream, version |-> e.version]
  /\ pendingSend' = IF Has(Reconciled(e), pendingSend) THEN NoId ELSE pendingSend
  /\ connected' = TRUE /\ marker' = 0
  /\ UNCHANGED <<conn, bundle, resending, awaiting>>

\* The source is closed, the position forgotten, and one retry timer is armed.
\* Mutant: the timer is not armed.
BeginResync_unarmed ==
  /\ conn' = "idle" /\ position' = NoPosition /\ connected' = FALSE
  /\ UNCHANGED <<room, shown, pendingSend, marker, bundle, resending, awaiting>>

BeginResync ==
  /\ conn' = "waiting" /\ position' = NoPosition /\ connected' = FALSE
  /\ UNCHANGED <<room, shown, pendingSend, marker, bundle, resending, awaiting>>

\* window.location.reload(): only what localStorage and sessionStorage hold survives.
Reload ==
  /\ marker' = stream.id /\ bundle' \in {bundle, protocol}
  /\ room' = <<>> /\ shown' = 0 /\ position' = NoPosition /\ connected' = FALSE
  /\ resending' = FALSE /\ awaiting' = {} /\ conn' = "requested"
  /\ UNCHANGED pendingSend

\* One reload for one server; after that the source is closed with an error.
\* Mutant: the marker is not consulted.
Incompatible_again(e) == Reload

Incompatible(e) ==
  IF marker # e.stream THEN Reload
  ELSE conn' = "closed" /\ UNCHANGED <<view, marker, bundle, resending, awaiting>>

Receive ==
  /\ wire # <<>> /\ conn \in {"open", "broken"}
  /\ LET e == Head(wire)
         outcome == Reconciliation(e)
     IN /\ CASE outcome = "applied" -> Apply(e)
             [] outcome = "resync" -> BeginResync
             [] outcome = "incompatible" -> Incompatible(e)
             [] OTHER -> UNCHANGED <<view, conn, marker, bundle, resending, awaiting>>
        /\ wire' = IF conn' = conn THEN Tail(wire) ELSE <<>>
  /\ UNCHANGED <<server, network, used, spent>>

\* The connection breaks: what was written last may never arrive.
Break ==
  /\ conn = "open" /\ spent.losses < Losses /\ Spend("losses")
  /\ conn' = "broken"
  /\ \E n \in 0..Len(wire) : wire' = SubSeq(wire, 1, n)
  /\ UNCHANGED <<server, bundle, marker, view, resending, network, awaiting, used>>

\* Something between the two loses an event that others follow.
Lose ==
  /\ conn = "open" /\ spent.losses < Losses /\ Spend("losses")
  /\ \E i \in 1..(Len(wire) - 1) : wire' = RemoveAt(wire, i)
  /\ UNCHANGED <<server, conn, bundle, marker, view, resending, network, awaiting, used>>

\* onerror of the current source.
StreamError ==
  /\ conn = "broken" /\ wire = <<>> /\ wire' = wire
  /\ BeginResync
  /\ UNCHANGED <<server, network, used, spent>>

\* The watchdog closes a stale source; unlike onerror it keeps the position.
Watchdog ==
  /\ \/ conn \in {"broken", "closed"} /\ UNCHANGED spent
     \/ conn = "open" /\ spent.losses < Losses /\ Spend("losses")
  /\ conn' = "waiting" /\ wire' = <<>> /\ connected' = FALSE
  /\ UNCHANGED <<server, bundle, marker, position, room, shown, pendingSend, resending, network, awaiting, used>>

\* The retry timer: checkReady, joinRoom, connectEvents.
Reconnect ==
  /\ conn = "waiting" /\ conn' = "requested"
  /\ UNCHANGED <<server, wire, bundle, marker, view, resending, network, awaiting, used, spent>>

(***************************************************************************)
(* The composer: submitMessage, resendPending and returnPendingToDraft.    *)
(***************************************************************************)
Request(c, kind) == [cid |-> c, kind |-> kind]
Send(r) == transit' = transit \cup {r} /\ awaiting' = awaiting \cup {r} /\ UNCHANGED replies

SubmitMessage(c) ==
  /\ connected /\ c \notin used /\ used' = used \cup {c}
  /\ room' = Append(room, Pending(c))
  /\ Send(Request(c, "submit"))
  /\ UNCHANGED <<server, conn, wire, bundle, marker, position, shown, connected, pendingSend, resending, spent>>

Discard(c) == room' = Kept(room, ToSet(room) \ {Pending(c)})

\* The acknowledgement leaves the optimistic message for the stream to replace.
Acknowledged(r) ==
  /\ r \in awaiting /\ [request |-> r, ok |-> TRUE] \in replies
  /\ awaiting' = awaiting \ {r} /\ replies' = replies \ {[request |-> r, ok |-> TRUE]}
  /\ IF r.kind = "resend" THEN pendingSend' = NoId /\ resending' = FALSE ELSE UNCHANGED <<pendingSend, resending>>
  /\ UNCHANGED <<server, conn, wire, bundle, marker, position, room, shown, connected, transit, used, spent>>

\* A refusal gives the text back; a refused resend stays pending.
Refused(r) ==
  /\ r \in awaiting /\ [request |-> r, ok |-> FALSE] \in replies
  /\ awaiting' = awaiting \ {r} /\ replies' = replies \ {[request |-> r, ok |-> FALSE]}
  /\ IF r.kind = "submit" THEN Discard(r.cid) /\ UNCHANGED resending
     ELSE resending' = FALSE /\ UNCHANGED room
  /\ UNCHANGED <<server, conn, wire, bundle, marker, position, shown, connected, pendingSend, transit, used, spent>>

\* Mutant: the event that beat the failure is not looked for.
Delivered_never(c) == FALSE
Delivered(c) == Has(room, c)

\* A timeout or a broken request: it may have been stored, or still be stored.
OutcomeUnknown(r) ==
  /\ r \in awaiting /\ awaiting' = awaiting \ {r}
  /\ IF r.kind = "submit"
     THEN /\ Discard(r.cid) /\ UNCHANGED resending
          /\ pendingSend' = IF Delivered(r.cid) THEN pendingSend ELSE r.cid
     ELSE resending' = FALSE /\ UNCHANGED <<room, pendingSend>>
  /\ UNCHANGED <<server, conn, wire, bundle, marker, position, shown, connected, network, used, spent>>

ResendPending ==
  /\ pendingSend # NoId /\ connected /\ ~resending
  /\ spent.resends < Resends /\ Spend("resends")
  /\ resending' = TRUE
  /\ Send(Request(pendingSend, "resend"))
  /\ UNCHANGED <<server, conn, wire, bundle, marker, view, used>>

ReturnPendingToDraft ==
  /\ pendingSend # NoId /\ ~resending
  /\ pendingSend' = NoId
  /\ UNCHANGED <<server, conn, wire, bundle, marker, position, room, shown, connected, resending, network, awaiting, used, spent>>

Serve == \E r \in transit : Accept(r) \/ Refuse(r)
Settle == \E r \in awaiting : Acknowledged(r) \/ Refused(r) \/ OutcomeUnknown(r)
User == (\E c \in ClientIds : SubmitMessage(c)) \/ ResendPending \/ ReturnPendingToDraft

StreamNext == Connect \/ Broadcast \/ AgentPosts \/ FieldsChange \/ Serve \/ Restart
              \/ Receive \/ Break \/ Lose \/ StreamError \/ Watchdog \/ Reconnect \/ Settle \/ User

\* Timers fire, written events arrive and every change is broadcast; nobody
\* promises that a request is served or that the user clicks again.
StreamSpec == StreamInit /\ [][StreamNext]_streamVars
              /\ WF_streamVars(Connect) /\ WF_streamVars(Broadcast) /\ WF_streamVars(Receive)
              /\ WF_streamVars(StreamError) /\ WF_streamVars(Watchdog /\ conn # "open")
              /\ WF_streamVars(Reconnect) /\ WF_streamVars(Settle)

-----------------------------------------------------------------------------
\* The view is what its position says: at the stream's last version the browser
\* shows the stored messages and the other fields exactly as they were published
\* with it, whatever was lost, cut off or rebuilt on the way there.
ViewIsPublished ==
  position = [stream |-> stream.id, version |-> stream.version] =>
    \A s \in stream.seen : Authoritative(room) = ToSet(s.messages) /\ shown = s.fields

\* A message is on the screen once: as the optimistic one or as the stored one,
\* whichever of the event, the snapshot and the answer came first.
ShownOnce ==
  \A i, j \in DOMAIN room : i # j => room[i] # room[j] /\ (room[i].cid = NoId \/ room[i].cid # room[j].cid)

\* No second sending of a message the user can already see as stored.
OfferIsUnseen == pendingSend # NoId => ~Has(room, pendingSend)

\* Whatever breaks, restarts or is sent meanwhile, the browser ends up showing
\* the room as it is, with nothing optimistic left over, unless it runs code of
\* another protocol than the server.
UpToDate ==
  /\ connected /\ Authoritative(room) = ToSet(PublicState.messages) /\ shown = fields
  /\ \A i \in DOMAIN room : room[i].id = 0 => Request(room[i].cid, "submit") \in awaiting
Converges == <>[](UpToDate \/ bundle # protocol)

\* A client that keeps receiving an incompatible snapshot stops reloading itself.
Reloads == conn \in {"open", "broken"} /\ conn' = "requested"
ReloadsEnd == <>[][~Reloads]_streamVars

=============================================================================
