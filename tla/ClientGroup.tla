---------------------------- MODULE ClientGroup ----------------------------
(***************************************************************************)
(* The client side of a connection group                                   *)
(* (src/src/transport/group/client_group.c) with its connector: a CONTROL  *)
(* connection made by connect(), DATA connections made one at a time for   *)
(* the offers that arrive on CONTROL, the transfers announced for them,    *)
(* the payload bytes in flight, and drain.                                 *)
(*                                                                         *)
(* All of it but connect() and wait_drained() runs on the owner reactor, a *)
(* turn at a time, and closing a connection calls its event handler in the *)
(* same turn: a handler is an operator on s = [g, n], the group and the    *)
(* connections, and on e, what the environment grants in this turn:        *)
(* whether CONTROL takes a message, a connection attempt can be started,   *)
(* and the connector can be unwatched.                                     *)
(***************************************************************************)
EXTENDS ProbeTable, GroupNet, Connector

CONSTANTS GroupDataCapacity,  \* data_capacity of the group
          TransferLimit,      \* transfer_limit; the table has twice as many entries
          SendLimit,          \* send_bytes_limit, in messages
          TransferHash(_)     \* tr_client_group_stream_hash

VARIABLE group  \* the group, its connect() call, and its drain waiter

Slots == 0 .. GroupDataCapacity - 1
NoSlot == GroupDataCapacity
FreeData == [state |-> "FREE", route |-> NoRoute, connection |-> NoFd]

GroupIdle == [pc |-> "idle", generation |-> 0]
NotConnecting == [pc |-> "idle", route |-> NoRoute, fd |-> NoFd]

tr_client_group_create(tls) ==
  [tls |-> tls, control |-> NoFd, control_route |-> NoRoute, control_connecting |-> FALSE,
   control_identity |-> FALSE, closing |-> FALSE, draining |-> FALSE, destroyed |-> FALSE,
   data |-> [i \in Slots |-> FreeData],
   transfers |-> EmptyTable(2 * TransferLimit), transfer_count |-> 0,
   send_bytes_inflight |-> 0, connector_slot |-> NoSlot, connector |-> Quiet,
   connect |-> NotConnecting,
   drain_generation |-> 0, drained_generation |-> 0,
   drain_wait_active |-> FALSE, drain_wait_closed |-> FALSE, waiter |-> GroupIdle,
   drain_refused |-> FALSE]  \* the last begin_drain() failed at the connector

GroupInit == group = tr_client_group_create(Plan.tls)

-----------------------------------------------------------------------------
(* Drain bookkeeping. *)

GroupBroadcast(g) == [g EXCEPT !.waiter.pc = IF @ = "asleep" THEN "awake" ELSE @]

tr_client_group_drain_complete_on_owner(g) ==
  /\ g.draining /\ ~g.control_connecting /\ g.transfer_count = 0
  /\ g.send_bytes_inflight = 0 /\ g.connector_slot = NoSlot
  /\ \A i \in Slots : g.data[i].state \notin {"QUEUED", "CONNECTING"}

tr_client_group_publish_drain_progress_on_owner(g) ==
  IF /\ tr_client_group_drain_complete_on_owner(g)
     /\ g.drain_wait_active /\ g.drained_generation # g.drain_generation
  THEN GroupBroadcast([g EXCEPT !.drained_generation = g.drain_generation])
  ELSE g

tr_client_group_publish_drain_start_on_owner(g) ==
  [g EXCEPT !.drain_generation = @ + 1, !.drained_generation = 0, !.drain_wait_active = TRUE]

tr_client_group_publish_connected_on_owner(g) ==
  GroupBroadcast([g EXCEPT !.drain_wait_active = FALSE])

Published(s) == [s EXCEPT !.g = tr_client_group_publish_drain_progress_on_owner(@)]

-----------------------------------------------------------------------------
(* Transfers: streams bound to a DATA connection of the group. *)

tr_client_group_transfer_find(g, stream) ==
  TableFind(g.transfers, TransferHash(stream) % (2 * TransferLimit), stream)

BuryTransfers(g, entries) ==
  tr_client_group_publish_drain_progress_on_owner(
    [g EXCEPT !.transfers = Bury(@, entries), !.transfer_count = @ - Cardinality(entries)])

tr_client_group_clear_transfers(g) ==
  tr_client_group_publish_drain_progress_on_owner(
    [g EXCEPT !.transfers = EmptyTable(2 * TransferLimit), !.transfer_count = 0])

tr_client_group_invalidate_data_transfers(g, slot, generation) ==
  BuryTransfers(g, {i \in Used(g.transfers) :
                      g.transfers[i].value = [slot |-> slot, generation |-> generation]})

\* The DATA connection of a stream; a transfer that points to nothing is buried.
tr_client_group_transfer_connection_on_owner(g, stream) ==
  LET find == tr_client_group_transfer_find(g, stream)
      value == g.transfers[CHOOSE i \in find.slot : TRUE].value
      data == g.data[value.slot]
  IN  IF ~find.found THEN [ret |-> "STALE", g |-> g, connection |-> NoFd]
      ELSE IF data.state # "ACTIVE" \/ data.route.member_generation # value.generation
      THEN [ret |-> "STALE", g |-> BuryTransfers(g, find.slot), connection |-> NoFd]
      ELSE [ret |-> "OK", g |-> g, connection |-> data.connection]

\* The active DATA connections (one or none) that READY names.
tr_client_group_ready_data_slot(g, route) ==
  {i \in Slots : g.data[i].state = "ACTIVE" /\ g.data[i].route = route}

tr_client_group_accept_transfer_ready_on_owner(g, m) ==
  LET find == tr_client_group_transfer_find(g, m.stream)
      slots == tr_client_group_ready_data_slot(g, m.route)
  IN  IF find.found \/ g.transfer_count >= TransferLimit \/ find.insert = {}
      THEN [ret |-> "STATE", g |-> g]
      ELSE IF slots = {} THEN [ret |-> "STALE", g |-> g]
      ELSE [ret |-> "OK",
            g |-> [g EXCEPT
                     !.transfers = Insert(@, CHOOSE i \in find.insert : TRUE, m.stream,
                                          [slot |-> CHOOSE i \in slots : TRUE,
                                           generation |-> m.route.member_generation]),
                     !.transfer_count = @ + 1]]

-----------------------------------------------------------------------------
(* Closing connections. *)

\* The reactor closes a connection: the payloads it still owned are released.
tr_client_group_send_buffer_release(g, count) ==
  IF count = 0 THEN g
  ELSE tr_client_group_publish_drain_progress_on_owner([g EXCEPT !.send_bytes_inflight = @ - count])

ClientRetire(s, c) ==
  [g |-> tr_client_group_send_buffer_release(s.g, Len(s.n[c].tx)), n |-> ClientClosed(s.n, c)]

\* The fd a connector gave up, if any, is closed.
CloseFd(n, fd) == IF fd = NoFd THEN n ELSE ClientClosed(n, fd)

\* What is left of a DATA connection when the group itself is closing.
ForgetData(s, i) ==
  LET c == s.g.data[i].connection
      retired == IF ClientOpen(s.n, c) THEN ClientRetire(s, c) ELSE s
  IN  [retired EXCEPT !.g =
         [(IF ClientOpen(s.n, c)
           THEN tr_client_group_invalidate_data_transfers(@, i, s.g.data[i].route.member_generation)
           ELSE @) EXCEPT !.data[i] = FreeData]]

\* The connector is the first barrier: nothing is given up before it is quiet.
tr_client_group_stop_data_on_owner(s, e) ==
  LET cancel == tr_connector_cancel_on_owner(s.g.connector, e.unwatch)
      quiet == [g |-> tr_client_group_clear_transfers(
                        [s.g EXCEPT !.connector = cancel.k, !.connector_slot = NoSlot]),
                n |-> CloseFd(s.n, cancel.fd)]
  IN  IF cancel.ret # "OK" THEN [ret |-> cancel.ret, s |-> [s EXCEPT !.g.connector = cancel.k]]
      ELSE [ret |-> "OK",
            s |-> Published(FoldSet(LAMBDA i, t : ForgetData(t, i), quiet, Slots))]

NoControl(g) == [g EXCEPT !.control = NoFd, !.control_route = NoRoute, !.control_identity = FALSE]

\* CONTROL is lost: so is everything it announced.
tr_client_group_control_event(s, e) ==
  LET stop == tr_client_group_stop_data_on_owner([s EXCEPT !.g.closing = TRUE], e)
  IN  IF stop.ret # "OK" THEN stop.s
      ELSE [stop.s EXCEPT !.g = [NoControl(@) EXCEPT !.control_connecting = FALSE,
                                                     !.closing = s.g.closing]]

AbortControl(s, e) ==
  IF ClientOpen(s.n, s.g.control)
  THEN tr_client_group_control_event(ClientRetire(s, s.g.control), e) ELSE s

\* Mutant: the server is never told.
SendCancelToNobody(s, route, e) ==
  [ret |-> IF ~ClientOpen(s.n, s.g.control) THEN "STATE" ELSE "OK", s |-> s]

tr_client_group_send_cancel_on_owner(s, route, e) ==
  IF ~ClientOpen(s.n, s.g.control) THEN [ret |-> "STATE", s |-> s]
  ELSE IF ~e.send THEN [ret |-> "AGAIN", s |-> s]
  ELSE [ret |-> "OK",
        s |-> [s EXCEPT !.n = ToServer(@, s.g.control, [type |-> "CANCEL", route |-> route])]]

\* Tell the server that an offer came to nothing; CONTROL ends if that fails.
CancelOr(s, route, e, Then(_)) ==
  LET cancel == tr_client_group_send_cancel_on_owner(s, route, e)
  IN  IF s.g.control = NoFd THEN Then(s)
      ELSE IF cancel.ret # "OK" THEN AbortControl(s, e) ELSE Then(cancel.s)

-----------------------------------------------------------------------------
(* Offers, one connection attempt at a time. *)

Queued(g) == {i \in Slots : g.data[i].state = "QUEUED"}

\* Offers whose attempt cannot even start are cancelled, one after the other,
\* until one cannot be cancelled and CONTROL ends.
GiveUpQueued(s, e) ==
  FoldSet(LAMBDA i, t :
            IF ~ClientOpen(t.n, t.g.control) THEN t
            ELSE CancelOr([t EXCEPT !.g.data[i] = FreeData], t.g.data[i].route, e, LAMBDA u : u),
          s, Queued(s.g))

tr_client_group_start_next_on_owner(s, e) ==
  LET g == s.g
      i == Min(Queued(g))
      c == NewConn(s.n)
  IN  IF \/ g.closing \/ g.draining \/ g.control = NoFd \/ g.connector_slot # NoSlot
         \/ Queued(g) = {}
      THEN s
      ELSE IF ~e.start \/ g.connector.active \/ FreeConns(s.n) = {} THEN GiveUpQueued(s, e)
      ELSE [g |-> [g EXCEPT !.connector_slot = i, !.data[i].state = "CONNECTING",
                            !.connector = tr_connector_start_on_owner(@, c)],
            n |-> [s.n EXCEPT ![c].kind = "DATA", ![c].client = "connecting"]]

tr_client_group_offer_duplicate(g, route) ==
  \E i \in Slots : /\ g.data[i].state # "FREE"
                   /\ g.data[i].route.member_index = route.member_index

tr_client_group_queue_offer_on_owner(s, route, e) ==
  LET free == {i \in Slots : s.g.data[i].state = "FREE"}
      data == [FreeData EXCEPT !.state = "QUEUED", !.route = route]
  IN  IF tr_client_group_offer_duplicate(s.g, route) THEN [ret |-> "STATE", s |-> s]
      ELSE IF free = {} THEN tr_client_group_send_cancel_on_owner(s, route, e)
      ELSE [ret |-> "OK",
            s |-> tr_client_group_start_next_on_owner([s EXCEPT !.g.data[Min(free)] = data], e)]

\* A DATA connection ended: cancel its offer, drop its transfers, go on.
tr_client_group_data_event(s, c, e) ==
  LET owner == {i \in Slots : /\ s.g.data[i].state \in {"ACTIVE", "CONNECTING"}
                              /\ s.g.data[i].connection = c}
      i == CHOOSE x \in owner : TRUE
      route == s.g.data[i].route
      Forget(t) == [t EXCEPT !.g = [tr_client_group_invalidate_data_transfers(
                                      @, i, route.member_generation) EXCEPT !.data[i] = FreeData]]
      Next(t) == IF t.g.closing THEN t ELSE tr_client_group_start_next_on_owner(t, e)
  IN  IF owner = {} THEN Next(s)
      ELSE IF s.g.closing \/ s.g.control = NoFd THEN Next(Forget(s))
      ELSE LET cancel == tr_client_group_send_cancel_on_owner(s, route, e)
           IN  IF cancel.ret # "OK" THEN AbortControl(Forget(s), e) ELSE Next(Forget(cancel.s))

\* The end of a connection attempt.  The slot may have been given up meanwhile.
tr_client_group_connector_complete(s, status, c, e) ==
  LET slot == s.g.connector_slot
      route == s.g.data[slot].route
      freed == [g |-> [s.g EXCEPT !.connector_slot = NoSlot, !.data[slot] = FreeData],
                n |-> ClientClosed(s.n, c)]
      adopted == [g |-> [s.g EXCEPT !.connector_slot = NoSlot, !.data[slot].connection = c,
                           !.data[slot].state = IF s.g.tls THEN "CONNECTING" ELSE "ACTIVE"],
                  n |-> [s.n EXCEPT ![c].client = IF s.g.tls THEN "handshake" ELSE "open"]]
  IN  IF slot = NoSlot THEN [s EXCEPT !.n = ClientClosed(@, c)]
      ELSE IF status # "OK"
      THEN CancelOr(freed, route, e, LAMBDA t : Published(tr_client_group_start_next_on_owner(t, e)))
      ELSE tr_client_group_start_next_on_owner(adopted, e)

-----------------------------------------------------------------------------
(* Frames of CONTROL, and drain. *)

tr_client_group_control_frame(s, m, e) ==
  LET g == s.g
      offer == IF g.draining THEN tr_client_group_send_cancel_on_owner(s, m.route, e)
               ELSE tr_client_group_queue_offer_on_owner(s, m.route, e)
      ready == tr_client_group_accept_transfer_ready_on_owner(g, m)
  IN  IF \/ m.route.pipeline_id # g.control_route.pipeline_id
         \/ m.route.epoch # g.control_route.epoch
      THEN AbortControl(s, e)
      ELSE IF m.type = "OFFER"
      THEN IF offer.ret = "OK" THEN offer.s ELSE AbortControl(offer.s, e)
      ELSE IF g.draining THEN s
      ELSE IF ready.ret = "OK" THEN [s EXCEPT !.g = ready.g] ELSE AbortControl(s, e)

\* One slot of the drain: a queued offer is cancelled, a TLS handshake closed
\* (whose event cancels its offer).  Once CONTROL is gone, so is the rest.
DrainSlot(s, i, e) ==
  LET data == s.g.data[i]
      Free(t) == [t EXCEPT !.g.data[i] = FreeData]
  IN  IF data.state = "QUEUED" THEN CancelOr(s, data.route, e, Free)
      ELSE IF data.state # "CONNECTING" \/ data.connection = NoFd THEN s
      ELSE IF ClientOpen(s.n, data.connection)
      THEN tr_client_group_data_event(ClientRetire(s, data.connection), data.connection, e)
      ELSE CancelOr(s, data.route, e, Free)

tr_client_group_begin_drain_on_owner(s, e) ==
  LET started == [s EXCEPT !.g =
                    IF @.draining THEN [@ EXCEPT !.drain_refused = FALSE]
                    ELSE tr_client_group_publish_drain_start_on_owner(
                           [@ EXCEPT !.draining = TRUE, !.drain_refused = FALSE])]
      slot == s.g.connector_slot
      cancel == tr_connector_cancel_on_owner(s.g.connector, e.unwatch)
      stopped == [g |-> [started.g EXCEPT !.connector = cancel.k, !.connector_slot = NoSlot,
                                          !.data[slot] = FreeData],
                  n |-> CloseFd(s.n, cancel.fd)]
      DrainSlots(t) == FoldSet(LAMBDA i, u : DrainSlot(u, i, e), t, Slots)
  IN  Published(
        IF slot = NoSlot THEN DrainSlots(started)
        ELSE IF cancel.ret # "OK"
        THEN [started EXCEPT !.g.connector = cancel.k, !.g.drain_refused = TRUE]
        ELSE CancelOr(stopped, s.g.data[slot].route, e, DrainSlots))
-----------------------------------------------------------------------------
(* The actions of the owner.  Client(s) is the end of a turn. *)

Mine == [g |-> group, n |-> net]
Client(s) == group' = s.g /\ net' = s.n
OnGroup(g) == group' = g /\ UNCHANGED net

Grants == {e \in [{"send", "start", "unwatch"} -> BOOLEAN] :
             \A f \in DOMAIN e : e[f] \/ f \in Plan.client_faults}

\* A connection is readable (only CONTROL has anything to read).
ClientRead(c) ==
  /\ net[c].client = "open" /\ net[c].s2c # <<>>
  /\ \E e \in Grants :
       Client(tr_client_group_control_frame([Mine EXCEPT !.n[c].s2c = Tail(@)], Head(net[c].s2c), e))

\* A connection ends, or its TLS handshake fails or times out.
ClientLose(s, c, e) ==
  LET retired == ClientRetire(s, c)
  IN  IF c = s.g.control THEN tr_client_group_control_event(retired, e)
      ELSE tr_client_group_data_event(retired, c, e)

ClientLost(c) ==
  /\ ClientOpen(net, c)
  /\ net[c].server = "closed" \/ net[c].client # "open" \/ "link" \in Plan.client_faults
  /\ \E e \in Grants : Client(ClientLose(Mine, c, e))

\* The TLS handshake ends well; DATA must present the identity of CONTROL.  An
\* identity that is refused fails the handshake, which is ClientLost.
tr_client_group_tls_authenticated(c) ==
  LET authenticated == [group EXCEPT !.control_identity = @ \/ c = group.control]
      valid == IF c = group.control THEN ~group.control_identity ELSE group.control_identity
  IN  /\ net[c].client = "handshake" /\ net[c].server = "open"
      /\ valid
      /\ Client([g |-> authenticated, n |-> [net EXCEPT ![c].client = "preface"]])

Preface(g, c) ==
  IF c = g.control THEN [type |-> "CONTROL", route |-> g.control_route]
  ELSE [type |-> "DATA_ROUTE",
        route |-> g.data[CHOOSE i \in Slots : g.data[i].connection = c].route]

\* The preface has gone out under TLS.
tr_client_group_tls_preface_sent(c) ==
  LET sent == [ToServer(net, c, Preface(group, c)) EXCEPT ![c].client = "open"]
  IN  /\ net[c].client = "preface"
      /\ Client([n |-> sent,
                 g |-> IF c = group.control
                       THEN tr_client_group_publish_connected_on_owner(
                              [group EXCEPT !.control_connecting = FALSE])
                       ELSE [group EXCEPT !.data = [i \in Slots |->
                               IF @[i].connection = c THEN [@[i] EXCEPT !.state = "ACTIVE"] ELSE @[i]]]])

\* The end of an attempt: complete_cb, or the fd of a cancelled attempt.
AfterConnector(s, end, e) ==
  LET t == [s EXCEPT !.g.connector = end.k]
  IN  IF end.calls THEN tr_client_group_connector_complete(t, end.status, end.fd, e)
      ELSE [t EXCEPT !.n = CloseFd(@, end.fd)]

\* tr_connector_event: the socket is connected, and without TLS the preface is
\* sent; that may be too late, and the attempt times out all the same.
ConnectorReady(reachable) ==
  LET k == group.connector
      c == k.fd
      up == [net EXCEPT ![c].server = "backlog"]
      sent == IF group.tls THEN up ELSE ToServer(up, c, [type |-> "DATA_ROUTE",
                                          route |-> group.data[group.connector_slot].route])
  IN  /\ k.active /\ k.action = "NONE" /\ net[c].server = "none" /\ reachable
      /\ \E e \in Grants, status \in {"OK", "TIMEOUT"} :
           Client(AfterConnector([g |-> group, n |-> sent],
                                 tr_connector_complete_on_owner(k, status, e.unwatch), e))

\* The attempt is refused or times out; or its latched end is tried again.
ConnectorEnds ==
  /\ group.connector.active
  /\ \E e \in Grants :
       Client(AfterConnector(Mine, tr_connector_timeout(group.connector, "TIMEOUT", e.unwatch), e))

-----------------------------------------------------------------------------
(* The application's calls. *)

\* connect(): the group is claimed on the owner, the socket is connected and
\* the preface sent on the calling thread, and the owner adopts it.
tr_client_group_prepare_connect_on_owner(route) ==
  /\ ~group.destroyed /\ group.connect.pc = "idle"
  /\ group.control = NoFd /\ ~group.control_connecting
  /\ OnGroup([group EXCEPT !.control_connecting = TRUE,
                           !.connect = [pc |-> "dialing", route |-> route, fd |-> NoFd]])

tr_client_group_connect_fd(reachable) ==
  LET c == NewConn(net)
      up == [net EXCEPT ![c].kind = "CONTROL", ![c].client = "connecting", ![c].server = "backlog"]
  IN  /\ group.connect.pc = "dialing" /\ reachable /\ FreeConns(net) # {}
      /\ Client([g |-> [group EXCEPT !.connect.pc = "dialed", !.connect.fd = c],
                 n |-> IF group.tls THEN up
                       ELSE ToServer(up, c, [type |-> "CONTROL", route |-> group.connect.route])])

tr_client_group_cancel_prepare_connect_on_owner ==
  /\ group.connect.pc \in {"dialing", "dialed"}
  /\ Client([g |-> [group EXCEPT !.control_connecting = FALSE, !.control_identity = FALSE,
                                 !.connect = NotConnecting],
             n |-> CloseFd(net, group.connect.fd)])

tr_client_group_adopt_control_on_owner ==
  LET c == group.connect.fd
      adopted == [group EXCEPT !.control = c, !.control_route = group.connect.route,
                               !.draining = FALSE, !.connect = NotConnecting]
  IN  /\ group.connect.pc = "dialed"
      /\ IF ~group.control_connecting \/ group.control # NoFd
         THEN Client([g |-> [group EXCEPT !.control_connecting = FALSE, !.connect = NotConnecting],
                      n |-> CloseFd(net, c)])
         ELSE IF group.tls
         THEN Client([g |-> adopted, n |-> [net EXCEPT ![c].client = "handshake"]])
         ELSE Client([g |-> tr_client_group_publish_connected_on_owner(
                              [adopted EXCEPT !.control_connecting = FALSE]),
                      n |-> [net EXCEPT ![c].client = "open"]])

\* Close CONTROL, if it is still open, as the group's own closing does.
CloseControl(s, e) ==
  LET closed == IF ClientOpen(s.n, s.g.control)
                THEN tr_client_group_control_event(ClientRetire(s, s.g.control), e) ELSE s
  IN  [closed EXCEPT !.g = NoControl(@)]

tr_client_group_close_on_owner ==
  /\ ~group.destroyed /\ group.control # NoFd
  /\ \E e \in Grants :
       LET stop == tr_client_group_stop_data_on_owner([Mine EXCEPT !.g.closing = TRUE], e)
       IN  Client(IF stop.ret # "OK" THEN stop.s
                  ELSE [CloseControl(stop.s, e) EXCEPT !.g.closing = FALSE])

tr_client_group_begin_drain ==
  /\ ~group.destroyed /\ group.control # NoFd
  /\ group.draining \/ group.drain_generation < Plan.group_drains
  /\ \E e \in Grants : Client(tr_client_group_begin_drain_on_owner(Mine, e))

tr_client_group_wait_drained ==
  /\ ~group.destroyed /\ group.waiter.pc = "idle"
  /\ ~group.drain_wait_closed /\ group.drain_wait_active
  /\ group.drained_generation # group.drain_generation
  /\ OnGroup([group EXCEPT !.waiter = [pc |-> "asleep", generation |-> group.drain_generation]])

GroupWaiterWakes ==
  /\ group.waiter.pc = "awake"
  /\ OnGroup([group EXCEPT !.waiter =
       IF \/ group.drained_generation = @.generation \/ group.drain_wait_closed
          \/ ~group.drain_wait_active \/ group.drain_generation # @.generation
       THEN GroupIdle ELSE [@ EXCEPT !.pc = "asleep"]])

GroupWaitTimesOut ==
  /\ group.waiter.pc = "asleep"
  /\ OnGroup([group EXCEPT !.waiter = GroupIdle])

tr_client_group_release_transfer_on_owner(stream) ==
  LET find == tr_client_group_transfer_find(group, stream)
  IN  find.found /\ OnGroup(BuryTransfers(group, find.slot))

\* A payload belongs to the connection until it is written; one the reactor
\* refuses is released at once.
tr_client_group_send_on_owner(stream) ==
  LET find == tr_client_group_transfer_connection_on_owner(group, stream)
      c == find.connection
  IN  /\ group.control # NoFd
      /\ \/ find.ret # "OK" /\ OnGroup(find.g)
         \/ /\ find.ret = "OK" /\ group.send_bytes_inflight < SendLimit
            /\ Len(net[c].tx) + Len(net[c].c2s) < Plan.queue
            /\ Client([g |-> [group EXCEPT !.send_bytes_inflight = @ + 1],
                       n |-> [net EXCEPT ![c].tx = Append(@, [type |-> "DATA", stream |-> stream])]])

\* The reactor has written a DATA frame and releases its payload.
ClientFlush(c) ==
  /\ net[c].client = "open" /\ net[c].tx # <<>>
  /\ Client([g |-> tr_client_group_send_buffer_release(group, 1),
             n |-> ToServer([net EXCEPT ![c].tx = Tail(@)], c, Head(net[c].tx))])

\* A waiter refuses the destruction, but is told to leave.
tr_client_group_destroy ==
  /\ ~group.destroyed /\ group.connect.pc = "idle"
  /\ LET g == [group EXCEPT !.drain_wait_closed = TRUE]
         detached == [g EXCEPT !.closing = TRUE, !.draining = TRUE, !.control_connecting = FALSE]
     IN  IF g.waiter.pc # "idle" THEN OnGroup(GroupBroadcast(g))
         ELSE \E e \in Grants :
                LET stop == tr_client_group_stop_data_on_owner([g |-> detached, n |-> net], e)
                    gone == CloseControl(stop.s, e)
                IN  Client(IF stop.ret # "OK" THEN stop.s
                           ELSE [gone EXCEPT !.g.destroyed = gone.g.send_bytes_inflight = 0])
=============================================================================
