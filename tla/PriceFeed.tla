----------------------------- MODULE PriceFeed -----------------------------
(***************************************************************************)
(* Live prices, from a trade's commit to a page: the ledger publishes after   *)
(* its commit, Redis delivers to the relays that listen, a relay passes what   *)
(* its version gate has not seen to the bounded queue of each watching socket, *)
(* and the page applies frames and its own reads of the ledger, whichever is   *)
(* newer.  Any step may fail, and nothing is ever replayed.                    *)
(***************************************************************************)
EXTENDS Hub, Integers, Sequences, SequencesExt

CONSTANTS
  Markets, Clients, Users, Relays, Sockets,
  UserOf,        \* the user a client's token names
  LastVersion,   \* bound: the counter of a market's last trade
  Jumps,         \* how far one commit may move a counter: its trade and its fills
  Follows,       \* the sets of markets each page shows, one after another
  QueueSize,     \* send_queue_size
  MaxInbox,      \* bound: messages of Redis a relay has not yet read
  MaxFaults,     \* bound: failures, drops, expiries and restarts
  SkipsInFlight, \* the browse page reads no market it is already reading
  NoSocket, NoRelay

ASSUME FeedAssumption ==
  /\ UserOf \in [Clients -> Users] /\ LastVersion \in [Markets -> Nat]
  /\ Jumps \subseteq Nat \ {0} /\ IsFiniteSet(Markets) /\ IsFiniteSet(Users)
  /\ Follows \in [Clients -> Seq((SUBSET Markets) \ {{}}) \ {<<>>}]
  /\ QueueSize \in Nat \ {0} /\ MaxInbox \in Nat \ {0} /\ MaxFaults \in Nat
  /\ SkipsInFlight \in BOOLEAN
  /\ NoSocket \notin Sockets /\ NoRelay \notin Relays

VARIABLES
  version,   \* each market's committed state_version
  outbox,    \* per committed request, what it has still to publish
  faults,    \* how many of them there were
  inbox,     \* per relay, the messages of its subscription
  listening, \* FrameBus._connected
  gate,      \* VersionGate._latest: 0 for None, as a published counter is positive
  hub,       \* each relay's Hub
  at,        \* the relay of a socket, while the relay serves it
  queue,     \* Connection._queue, and the frames on their way
  commands,  \* what the client has sent and the reader has not read
  done,      \* which of the socket's four tasks have finished, and how
  dropped,   \* per relay, whether it will never see a market's newest price
  socket,    \* the client's current socket
  phase,     \* "closed", "open", "refreshing" or "stopped"
  fresh,     \* whether the client's access token is still valid
  page,      \* which of Follows the client's page shows
  believed,  \* subscribedRef
  pending,   \* pendingRef
  acked,     \* ackedRef
  asked,     \* reads on their way to the ledger
  answers,   \* reads served and not yet applied
  unread,    \* markets whose last read failed
  shown      \* the page's version of each market, -1 before its first

ledger == <<version, outbox>>
relay == <<inbox, listening, gate, hub, dropped>>
sockets == <<at, queue, commands, done>>
client == <<socket, phase, fresh, page, believed, pending, acked, asked, answers, unread, shown>>
vars == <<ledger, relay, sockets, client, faults>>

Fault == faults < MaxFaults /\ faults' = faults + 1

NoFault == UNCHANGED faults

PriceEvent == [kind : {"price"}, market : Markets, version : Nat]

OrderEvent == [kind : {"order"}, market : Markets, version : Nat, user : Users]

ClientCommand == [action : {"subscribe", "unsubscribe"}, market : Markets]

Price(m, v) == [kind |-> "price", market |-> m, version |-> v]

Order(m, v, u) == [kind |-> "order", market |-> m, version |-> v, user |-> u]

SubscribedFrame(m) == [kind |-> "subscribed", market |-> m]

UnsubscribedFrame(m) == [kind |-> "unsubscribed", market |-> m]

ErrorFrame == [kind |-> "too_many_subscriptions"]

\* A page may open on any of its sets.
Turns ==
  {p \in [Clients -> UNION {DOMAIN Follows[c] : c \in Clients}] :
     \A c \in Clients : p[c] \in DOMAIN Follows[c]}

Wanted(c) == Follows[c][page[c]]

Open(k) == at[k] # NoRelay

Failed(k) == "slow" \in done[k]

-----------------------------------------------------------------------------
\* The ledger's side.

Init ==
  /\ version = [m \in Markets |-> 0] /\ outbox = {} /\ faults \in 0..MaxFaults
  /\ inbox = [r \in Relays |-> <<>>] /\ listening = [r \in Relays |-> TRUE]
  /\ gate = [r \in Relays |-> [m \in Markets |-> 0]] /\ hub = [r \in Relays |-> EmptyHub]
  /\ dropped = [r \in Relays |-> [m \in Markets |-> FALSE]]
  /\ at = [k \in Sockets |-> NoRelay] /\ queue = [k \in Sockets |-> <<>>]
  /\ commands = [k \in Sockets |-> <<>>] /\ done = [k \in Sockets |-> {}]
  /\ socket = [c \in Clients |-> NoSocket] /\ phase \in [Clients -> {"closed", "stopped"}]
  /\ fresh = [c \in Clients |-> TRUE] /\ page \in Turns
  /\ believed = [c \in Clients |-> {}] /\ pending = [c \in Clients |-> <<>>]
  /\ acked = [c \in Clients |-> {}]
  /\ asked = [c \in Clients |-> IF phase[c] = "closed" THEN Wanted(c) ELSE {}]
  /\ answers = [c \in Clients |-> {}] /\ unread = [c \in Clients |-> {}]
  /\ shown = [c \in Clients |-> [m \in Markets |-> -1]]

\* A trade commits, with the fills of its cascade: the frames are its final
\* price and one per fill, to be published in that order.
Trade(m) ==
  \E by \in Jumps, owners \in SUBSET Users :
    LET v == version[m] + by IN
    /\ v <= LastVersion[m] /\ Cardinality(owners) < by
    /\ version' = [version EXCEPT ![m] = v]
    /\ outbox' = outbox \cup
         {<<Price(m, v)>> \o SetToSeq({Order(m, v, u) : u \in owners})}
    /\ dropped' = [r \in Relays |-> [dropped[r] EXCEPT ![m] = FALSE]]
    /\ UNCHANGED <<inbox, listening, gate, hub, sockets, client>>

Lost(r, events) ==
  [m \in Markets |-> dropped[r][m] \/ Price(m, version[m]) \in events]

Without(frames) == (outbox \ {frames}) \cup (IF Len(frames) = 1 THEN {} ELSE {Tail(frames)})

\* The request's next frame reaches the relays that listen, and no other.
Send(frames) ==
  LET e == Head(frames)
      heard == {r \in Relays : listening[r]} IN
  /\ \A r \in heard : Len(inbox[r]) < MaxInbox
  /\ inbox' = [r \in Relays |-> IF r \in heard THEN Append(inbox[r], e) ELSE inbox[r]]
  /\ dropped' = [r \in Relays |-> IF r \in heard THEN dropped[r] ELSE Lost(r, {e})]
  /\ UNCHANGED <<version, listening, gate, hub, sockets, client>>

Publish(frames) == Send(frames) /\ outbox' = Without(frames)

\* The client library lost the answer and sends the frame again.
PublishAgain(frames) == Send(frames) /\ outbox' = outbox

\* A failed publish is logged and stops none of the rest; a request that dies
\* after its commit publishes nothing more.
PublishFails(frames) ==
  /\ \/ outbox' = Without(frames)
        /\ dropped' = [r \in Relays |-> Lost(r, {Head(frames)})]
     \/ outbox' = outbox \ {frames} /\ dropped' = [r \in Relays |-> Lost(r, Range(frames))]
  /\ UNCHANGED <<version, inbox, listening, gate, hub, sockets, client>>

-----------------------------------------------------------------------------
\* The relay's bus.

Connect(r) ==
  /\ ~listening[r]
  /\ listening' = [listening EXCEPT ![r] = TRUE]
  /\ UNCHANGED <<ledger, inbox, gate, hub, dropped, sockets, client>>

\* Redis goes away: what it had not delivered is gone, the sockets stay.
Disconnect(r) ==
  /\ listening[r]
  /\ listening' = [listening EXCEPT ![r] = FALSE]
  /\ inbox' = [inbox EXCEPT ![r] = <<>>]
  /\ dropped' = [dropped EXCEPT ![r] = Lost(r, Range(inbox[r]))]
  /\ UNCHANGED <<ledger, gate, hub, sockets, client>>

Accept(r, e) == e.version > gate[r][e.market]

Enqueue(frames, k, frame) ==
  IF Failed(k) \/ Len(frames[k]) >= QueueSize THEN frames[k] ELSE Append(frames[k], frame)

\* Mutation: one full queue ends the loop.
FanOutUntilFull(watchers, frame) ==
  LET full == \E k \in watchers : Len(queue[k]) >= QueueSize IN
  /\ queue' = [k \in Sockets |->
       IF k \in watchers /\ ~full THEN Enqueue(queue, k, frame) ELSE queue[k]]
  /\ done' = [k \in Sockets |->
       IF k \in watchers /\ Len(queue[k]) >= QueueSize THEN done[k] \cup {"slow"} ELSE done[k]]

\* The frame to each of the watchers: one that is full is failed, and the rest
\* are served all the same.
FanOut(watchers, frame) ==
  /\ queue' = [k \in Sockets |-> IF k \in watchers THEN Enqueue(queue, k, frame) ELSE queue[k]]
  /\ done' = [k \in Sockets |->
       IF k \in watchers /\ Len(queue[k]) >= QueueSize THEN done[k] \cup {"slow"} ELSE done[k]]

Dispatch(r, e) ==
  /\ e.kind = "price"
  /\ IF Accept(r, e)
     THEN /\ gate' = [gate EXCEPT ![r][e.market] = e.version]
          /\ FanOut(Watchers(hub[r], e.market), e)
     ELSE UNCHANGED <<gate, queue, done>>

DispatchOrder(r, e) ==
  /\ e.kind = "order"
  /\ FanOut(SocketsOf(hub[r], e.user), e)
  /\ UNCHANGED gate

Consume(r) ==
  /\ inbox[r] # <<>>
  /\ inbox' = [inbox EXCEPT ![r] = Tail(@)]
  /\ Dispatch(r, Head(inbox[r])) \/ DispatchOrder(r, Head(inbox[r]))
  /\ UNCHANGED <<ledger, listening, hub, dropped, at, commands, client>>

-----------------------------------------------------------------------------
\* The page: usePriceSocket, and the reads its two callers give it.

InFlight(c) == asked[c] \cup {a.market : a \in answers[c]}

\* Reads a page sends for these markets.
Asking(c, ms) == asked[c] \cup (IF SkipsInFlight THEN ms \ InFlight(c) ELSE ms)

Listed(ms) == SetToSeq(ms)

Sent(action, ms) == [i \in DOMAIN ms |-> [action |-> action, market |-> ms[i]]]

\* What the connection holds is brought to what the page wants; unsubscribes
\* go first, as they make the room.
Reconciled(held, wanted) ==
  Sent("unsubscribe", Listed(held \ wanted)) \o Sent("subscribe", Listed(wanted \ held))

\* Mutation: whatever arrives last is shown.
ApplyLast(c, e) == [shown EXCEPT ![c][e.market] = e.version]

Apply(c, e) ==
  IF e.version > shown[c][e.market] THEN [shown EXCEPT ![c][e.market] = e.version] ELSE shown

\* onopen: a new connection holds nothing of the last one's.
OnOpen(c, k) ==
  /\ socket' = [socket EXCEPT ![c] = k] /\ phase' = [phase EXCEPT ![c] = "open"]
  /\ believed' = [believed EXCEPT ![c] = Wanted(c)]
  /\ pending' = [pending EXCEPT ![c] = Listed(Wanted(c))]
  /\ acked' = [acked EXCEPT ![c] = {}]
  /\ commands' = [commands EXCEPT ![k] = Reconciled({}, Wanted(c))]
  /\ UNCHANGED <<fresh, page, asked, answers, unread, shown>>

\* onclose: the page keeps its prices, and reconnects; first it refreshes a
\* session that ran out.
OnClose(closed, code) ==
  /\ socket' = [c \in Clients |-> IF c \in closed THEN NoSocket ELSE socket[c]]
  /\ phase' = [c \in Clients |->
       IF c \notin closed THEN phase[c] ELSE IF code = "expired" THEN "refreshing" ELSE "closed"]
  /\ believed' = [c \in Clients |-> IF c \in closed THEN {} ELSE believed[c]]
  /\ pending' = [c \in Clients |-> IF c \in closed THEN <<>> ELSE pending[c]]
  /\ acked' = [c \in Clients |-> IF c \in closed THEN {} ELSE acked[c]]
  /\ UNCHANGED <<fresh, page, asked, answers, unread, shown>>

\* The subscribes still without an answer, once m's has come.
Unanswered(ms, m) ==
  LET left[i \in 0..Len(ms)] ==
        IF i = 0 THEN <<>> ELSE IF ms[i] = m THEN left[i - 1] ELSE Append(left[i - 1], ms[i])
  IN  left[Len(ms)]

\* Once every subscribe is answered, what was acked is read again.
ReportAcked(c, left, got) ==
  /\ pending' = [pending EXCEPT ![c] = left]
  /\ acked' = [acked EXCEPT ![c] = IF left = <<>> THEN {} ELSE got]
  /\ asked' = [asked EXCEPT ![c] = IF left = <<>> THEN Asking(c, got) ELSE @]

\* onmessage
OnMessage(c, f) ==
  /\ \/ /\ f.kind = "subscribed"
        /\ ReportAcked(c, Unanswered(pending[c], f.market), acked[c] \cup {f.market})
        /\ UNCHANGED <<believed, shown>>
     \/ /\ f.kind = "price"
        /\ shown' = Apply(c, f)
        /\ UNCHANGED <<believed, pending, acked, asked>>
     \/ /\ f.kind = "too_many_subscriptions"
        /\ IF pending[c] = <<>>
           THEN ReportAcked(c, <<>>, acked[c]) /\ UNCHANGED believed
           ELSE /\ believed' = [believed EXCEPT ![c] = @ \ {Head(pending[c])}]
                /\ ReportAcked(c, Tail(pending[c]), acked[c])
        /\ UNCHANGED shown
     \/ /\ f.kind \in {"unsubscribed", "order"}
        /\ UNCHANGED <<believed, pending, acked, asked, shown>>
  /\ UNCHANGED <<socket, phase, fresh, page, answers, unread>>

\* The page shows another set of markets; those never read are read.
Turn(c) ==
  /\ page[c] < Len(Follows[c])
  /\ page' = [page EXCEPT ![c] = @ + 1]
  /\ LET next == Follows[c][page[c] + 1]
         read == UNION {Follows[c][i] : i \in 1..page[c]} IN
     /\ asked' = [asked EXCEPT ![c] = Asking(c, next \ read)]
     /\ IF phase[c] = "open"
        THEN /\ commands' = [commands EXCEPT ![socket[c]] = @ \o Reconciled(believed[c], next)]
             /\ pending' = [pending EXCEPT ![c] = @ \o Listed(next \ believed[c])]
             /\ believed' = [believed EXCEPT ![c] = next]
        ELSE UNCHANGED <<commands, pending, believed>>
  /\ UNCHANGED <<ledger, relay, at, queue, done, socket, phase, fresh, acked, answers, unread, shown>>

\* The ledger's snapshot: one statement, so the price and its counter agree.
Snapshot(c, m) ==
  /\ m \in asked[c]
  /\ asked' = [asked EXCEPT ![c] = @ \ {m}]
  /\ answers' = [answers EXCEPT ![c] = @ \cup {Price(m, version[m])}]
  /\ unread' = [unread EXCEPT ![c] = @ \ {m}]
  /\ UNCHANGED <<ledger, relay, sockets, socket, phase, fresh, page, believed, pending, acked, shown>>

ReadFails(c, m) ==
  /\ m \in asked[c]
  /\ asked' = [asked EXCEPT ![c] = @ \ {m}]
  /\ unread' = [unread EXCEPT ![c] = @ \cup {m}]
  /\ UNCHANGED <<ledger, relay, sockets, socket, phase, fresh, page, believed, pending, acked, answers, shown>>

Answer(c, a) ==
  /\ a \in answers[c]
  /\ answers' = [answers EXCEPT ![c] = @ \ {a}]
  /\ shown' = Apply(c, a)
  /\ UNCHANGED <<ledger, relay, sockets, socket, phase, fresh, page, believed, pending, acked, asked, unread>>

\* A request through the API renews the cookie and brings a snapshot; without
\* a session it ends there.
Refresh(c) ==
  /\ phase[c] = "refreshing"
  /\ \/ /\ fresh' = [fresh EXCEPT ![c] = TRUE]
        /\ phase' = [phase EXCEPT ![c] = "closed"]
        /\ asked' = [asked EXCEPT ![c] = @ \cup {Listed(Wanted(c))[1]}]
     \/ phase' = [phase EXCEPT ![c] = "closed"] /\ UNCHANGED <<fresh, asked>>
     \/ phase' = [phase EXCEPT ![c] = "stopped"] /\ UNCHANGED <<fresh, asked>>
  /\ UNCHANGED <<ledger, relay, sockets, socket, page, believed, pending, acked, answers, unread, shown>>

-----------------------------------------------------------------------------
\* One socket, from the handshake to its close.

\* prices(): an expired token is told so and closed; a valid one is attached.
Handshake(c, k, r) ==
  /\ phase[c] = "closed" /\ at[k] = NoRelay /\ \A d \in Clients : socket[d] # k
  /\ IF fresh[c]
     THEN /\ at' = [at EXCEPT ![k] = r]
          /\ hub' = [hub EXCEPT ![r] = AttachUser(@, k, UserOf[c])]
          /\ OnOpen(c, k)
     ELSE OnClose({c}, "expired") /\ UNCHANGED <<at, hub, commands>>
  /\ UNCHANGED <<ledger, inbox, listening, gate, dropped, queue, done>>

\* _apply: the hub call and its acknowledgement, or the error frame.
ReadCommand(k) ==
  /\ Open(k) /\ commands[k] # <<>>
  /\ commands' = [commands EXCEPT ![k] = Tail(@)]
  /\ LET r == at[k]
         m == Head(commands[k]).market
         wants == Head(commands[k]).action = "subscribe"
         full == wants /\ TooManySubscriptions(hub[r], k, m) IN
     /\ hub' = [hub EXCEPT ![r] =
          IF full THEN @ ELSE IF wants THEN Subscribe(@, k, m) ELSE Unsubscribe(@, k, m)]
     /\ FanOut({k}, IF full THEN ErrorFrame
                    ELSE IF wants THEN SubscribedFrame(m) ELSE UnsubscribedFrame(m))
  /\ UNCHANGED <<ledger, inbox, listening, gate, dropped, at, client>>

\* The pump sends the next frame and the page receives it.
Pump(c, k) ==
  /\ Open(k) /\ socket[c] = k /\ queue[k] # <<>>
  /\ queue' = [queue EXCEPT ![k] = Tail(@)]
  /\ OnMessage(c, Head(queue[k]))
  /\ UNCHANGED <<ledger, relay, at, commands, done>>

\* The token runs out, under the socket that was opened with it.
Expire(c) ==
  /\ fresh[c]
  /\ fresh' = [fresh EXCEPT ![c] = FALSE]
  /\ done' = [k \in Sockets |-> IF socket[c] = k THEN done[k] \cup {"expired"} ELSE done[k]]
  /\ UNCHANGED <<ledger, relay, at, queue, commands, socket, phase, page, believed, pending, acked, asked, answers, unread, shown>>

\* The connection breaks; the relay may not know for as long as TCP takes.
Drop(c) ==
  /\ phase[c] = "open"
  /\ OnClose({c}, "gone")
  /\ UNCHANGED <<ledger, relay, sockets>>

Notice(k) ==
  /\ Open(k) /\ \A c \in Clients : socket[c] # k
  /\ \E how \in {"left", "internal"} : done' = [done EXCEPT ![k] = @ \cup {how}]
  /\ UNCHANGED <<ledger, relay, at, queue, commands, client>>

\* A domain reason wins, an unexpected failure beats a disconnect, and a
\* disconnect needs no close frame.
Ending(finished) ==
  IF finished \cap {"expired", "slow"} # {} THEN finished \cap {"expired", "slow"}
  ELSE IF "internal" \in finished THEN {"internal"} ELSE {"left"}

\* Forgotten first, closed after: every ending passes through the finally.
Finish(k) ==
  /\ Open(k) /\ done[k] # {}
  /\ hub' = [hub EXCEPT ![at[k]] = Forget(@, k)]
  /\ at' = [at EXCEPT ![k] = NoRelay] /\ done' = [done EXCEPT ![k] = {}]
  /\ queue' = [queue EXCEPT ![k] = <<>>] /\ commands' = [commands EXCEPT ![k] = <<>>]
  /\ \E code \in Ending(done[k]) : OnClose({c \in Clients : socket[c] = k}, code)
  /\ UNCHANGED <<ledger, inbox, listening, gate, dropped>>

\* The process is replaced: its sockets, its gate and its subscription go.
Restart(r) ==
  LET mine == {k \in Sockets : at[k] = r} IN
  /\ mine # {} \/ \E m \in Markets : gate[r][m] > 0
  /\ listening' = [listening EXCEPT ![r] = FALSE]
  /\ inbox' = [inbox EXCEPT ![r] = <<>>]
  /\ dropped' = [dropped EXCEPT ![r] = Lost(r, Range(inbox[r]))]
  /\ gate' = [gate EXCEPT ![r] = [m \in Markets |-> 0]]
  /\ hub' = [hub EXCEPT ![r] = EmptyHub]
  /\ at' = [k \in Sockets |-> IF k \in mine THEN NoRelay ELSE at[k]]
  /\ queue' = [k \in Sockets |-> IF k \in mine THEN <<>> ELSE queue[k]]
  /\ commands' = [k \in Sockets |-> IF k \in mine THEN <<>> ELSE commands[k]]
  /\ done' = [k \in Sockets |-> IF k \in mine THEN {} ELSE done[k]]
  /\ OnClose({c \in Clients : socket[c] \in mine}, "gone")
  /\ UNCHANGED ledger

Next ==
  \/ /\ NoFault
     /\ \/ \E m \in Markets : Trade(m)
        \/ \E frames \in outbox : Publish(frames)
        \/ \E r \in Relays : Connect(r) \/ Consume(r)
        \/ \E k \in Sockets : ReadCommand(k) \/ Notice(k) \/ Finish(k)
        \/ \E c \in Clients : Turn(c) \/ Refresh(c)
        \/ \E c \in Clients, k \in Sockets, r \in Relays : Handshake(c, k, r)
        \/ \E c \in Clients, k \in Sockets : Pump(c, k)
        \/ \E c \in Clients, m \in Markets : Snapshot(c, m)
        \/ \E c \in Clients : \E a \in answers[c] : Answer(c, a)
  \/ /\ Fault
     /\ \/ \E frames \in outbox : PublishFails(frames) \/ PublishAgain(frames)
        \/ \E r \in Relays : Disconnect(r) \/ Restart(r)
        \/ \E c \in Clients : Expire(c) \/ Drop(c)
        \/ \E c \in Clients, m \in Markets : ReadFails(c, m)

Spec == Init /\ [][Next]_vars

-----------------------------------------------------------------------------
TypeOK ==
  /\ version \in [Markets -> Nat] /\ outbox \subseteq Seq(PriceEvent \cup OrderEvent)
  /\ inbox \in [Relays -> Seq(PriceEvent \cup OrderEvent)]
  /\ listening \in [Relays -> BOOLEAN] /\ gate \in [Relays -> [Markets -> Nat]]
  /\ dropped \in [Relays -> [Markets -> BOOLEAN]] /\ faults \in 0..MaxFaults
  /\ at \in [Sockets -> Relays \cup {NoRelay}]
  /\ commands \in [Sockets -> Seq(ClientCommand)]
  /\ done \in [Sockets -> SUBSET {"expired", "slow", "left", "internal"}]
  /\ socket \in [Clients -> Sockets \cup {NoSocket}]
  /\ phase \in [Clients -> {"closed", "open", "refreshing", "stopped"}]
  /\ fresh \in [Clients -> BOOLEAN] /\ page \in Turns
  /\ believed \in [Clients -> SUBSET Markets] /\ acked \in [Clients -> SUBSET Markets]
  /\ pending \in [Clients -> Seq(Markets)]
  /\ asked \in [Clients -> SUBSET Markets] /\ answers \in [Clients -> SUBSET PriceEvent]
  /\ unread \in [Clients -> SUBSET Markets]
  /\ shown \in [Clients -> [Markets -> Nat \cup {-1}]]

\* A hub's indexes agree, hold no emptied entry and no more markets than the
\* ceiling for a socket; exactly the sockets the relay serves are attached, and
\* no frame of an order waits for anybody but its owner (subscriptions.py).
HubsAgree ==
  /\ TypeOK
  /\ \A r \in Relays : LET h == hub[r]  mine == {k \in Sockets : at[k] = r} IN
       /\ DOMAIN h.userOf = mine /\ DOMAIN h.bySubscriber \subseteq mine
       /\ \A m \in DOMAIN h.byMarket : h.byMarket[m] # {}
       /\ \A k \in DOMAIN h.bySubscriber :
            h.bySubscriber[k] # {} /\ Cardinality(h.bySubscriber[k]) <= Ceiling
       /\ \A u \in DOMAIN h.byUser : h.byUser[u] # {}
       /\ \A k \in Sockets, m \in Markets : k \in Watchers(h, m) <=> IsSubscribed(h, k, m)
       /\ \A k \in Sockets, u \in Users :
            k \in SocketsOf(h, u) <=> k \in DOMAIN h.userOf /\ h.userOf[k] = u
       /\ \A k \in mine : \A i \in DOMAIN queue[k] :
            queue[k][i].kind = "order" => queue[k][i].user = h.userOf[k]
  /\ \A k \in Sockets : ~Open(k) => queue[k] = <<>> /\ commands[k] = <<>> /\ done[k] = {}

\* A page never goes back to an older price of a market, across reconnects and
\* replicas, whatever arrives late or twice (usePriceSocket's apply; ADR 0010).
PricesNeverGoBack ==
  [][\A c \in Clients, m \in Markets : shown'[c][m] >= shown[c][m]]_vars

\* The page takes itself to be up to date with a market: its subscription is
\* acknowledged and the read that followed is answered.
Live(c, m) ==
  LET k == socket[c] IN
  /\ phase[c] = "open" /\ done[k] = {} /\ IsSubscribed(hub[at[k]], k, m)
  /\ m \in Wanted(c) /\ m \in believed[c] /\ m \notin acked[c] \cup unread[c] \cup asked[c]
  /\ \A i \in DOMAIN commands[k] : commands[k][i].market # m
  /\ SubscribedFrame(m) \notin Range(queue[k])

\* The newest price is on its way to the page, or was lost: to the relay while
\* it had no Redis, or in a publish that failed.
Coming(c, m) ==
  LET e == Price(m, version[m])
      k == socket[c] IN
  \/ e \in answers[c] \/ e \in Range(queue[k]) \/ e \in Range(inbox[at[k]])
  \/ \E frames \in outbox : e \in Range(frames)
  \/ dropped[at[k]][m]

\* A live page shows the newest price or will be handed it: nothing falls
\* between a read of the ledger and the frames that follow it, nor behind a
\* slow neighbour, a full queue or a stale gate (usePricesForMarkets.ts).
NothingFrozen ==
  \A c \in Clients, m \in Markets :
    Live(c, m) => shown[c][m] = version[m] \/ Coming(c, m)

=============================================================================
