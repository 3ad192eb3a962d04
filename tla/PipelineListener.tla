-------------------------- MODULE PipelineListener --------------------------
(***************************************************************************)
(* The server side of the connection groups: the registry of pipelines     *)
(* (src/src/group/pipeline_registry.c), the CONTROL operations             *)
(* (group/pipeline_control.c), the CONTROL and DATA handlers               *)
(* (transport/group/pipeline_control_transport.c, pipeline_ingress.c) and  *)
(* the listener that accepts, routes, drains and stops                     *)
(* (transport/group/pipeline_listener.c).                                  *)
(*                                                                         *)
(* All of it but wait_drained runs on the owner reactor, a turn at a time; *)
(* closing a connection calls its handlers in the same turn, so a handler  *)
(* is an operator on s = [l, n]: the listener and the connections.         *)
(***************************************************************************)
EXTENDS Pipeline, GroupNet

CONSTANT ConnectionCapacity  \* connection_capacity

VARIABLE listener  \* the listener, its sessions, and its drain waiter

ConnIndex == 0 .. ConnectionCapacity - 1
SessionIndex == 0 .. PipelineCapacity - 1

\* A route preface; owner_shard_id is the same everywhere and left out.
DataRoute(p, data) ==
  [pipeline_id |-> p.pipeline_id, epoch |-> p.epoch,
   member_index |-> data.index, member_generation |-> data.generation]
RouteData(route) == [index |-> route.member_index, generation |-> route.member_generation]

NoTrackedConn == [used |-> FALSE, generation |-> 0, role |-> "PENDING",
                  handle |-> NoConn, route |-> NoRoute]
NoSession == [used |-> FALSE, closing |-> FALSE, pipeline_id |-> 0, epoch |-> 0,
              tls_generation |-> 0, tracked |-> NoTracked, transport |-> NoConn,
              pipeline |-> tr_pipeline_create(0, 0)]

\* A thread in wait_drained: the generation it waits for, asleep on the
\* condition variable or awake, and what it returned.
Idle == [pc |-> "idle", generation |-> 0]

tr_pipeline_listener_create ==
  [registered |-> FALSE, draining |-> FALSE, destroyed |-> FALSE,
   connections |-> [i \in ConnIndex |-> NoTrackedConn],
   sessions |-> [i \in SessionIndex |-> NoSession],
   registry |-> EmptyTable(PipelineCapacity), registry_count |-> 0,
   connections_current |-> 0, pipelines_current |-> 0, tls_generation |-> 1,
   drain_generation |-> 0, drained_generation |-> 0,
   drain_wait_active |-> FALSE, drain_wait_closed |-> FALSE, waiter |-> Idle,
   asserted |-> TRUE]  \* whether every debug assertion met so far has held

ListenerInit == listener = tr_pipeline_listener_create

-----------------------------------------------------------------------------
(* The registry; an entry's value is the session that holds the pipeline. *)

tr_pipeline_registry_find(l, id) ==
  TableFind(l.registry, PipelineHash(id) % PipelineCapacity, id)

SessionOf(find, l) == l.registry[CHOOSE i \in find.slot : TRUE].value

\* Binding CONTROL and publishing the pipeline are one owner transaction: all
\* that can fail is checked before either.
tr_pipeline_registry_register_control(l, k, conn) ==
  LET p == l.sessions[k].pipeline
      find == tr_pipeline_registry_find(l, p.pipeline_id)
      set == tr_pipeline_set_control(p, conn)
  IN  IF find.found THEN [ret |-> "STATE", l |-> l]
      ELSE IF l.registry_count = PipelineCapacity \/ find.insert = {}
      THEN [ret |-> "AGAIN", l |-> l]
      ELSE IF set.ret # "OK" THEN [ret |-> set.ret, l |-> l]
      ELSE [ret |-> "OK",
            l |-> [l EXCEPT !.registry = Insert(@, CHOOSE i \in find.insert : TRUE, p.pipeline_id, k),
                            !.registry_count = @ + 1, !.sessions[k].pipeline = set.p]]

tr_pipeline_registry_close_control(l, k, expected) ==
  LET p == l.sessions[k].pipeline
      find == tr_pipeline_registry_find(l, p.pipeline_id)
      clear == tr_pipeline_clear_control(p, expected)
  IN  IF ~find.found \/ SessionOf(find, l) # k \/ p.control = NoConn
      THEN [ret |-> "STALE", l |-> l]
      ELSE IF p.data_count # 0 \/ p.affinity_count # 0 THEN [ret |-> "STATE", l |-> l]
      ELSE IF clear.ret # "OK" THEN [ret |-> clear.ret, l |-> l]
      ELSE [ret |-> "OK", l |-> [l EXCEPT !.registry = Bury(@, find.slot),
                                          !.registry_count = @ - 1,
                                          !.sessions[k].pipeline = clear.p]]

\* The sessions (one or none) whose registered pipeline has the route's identity.
RoutedSession(l, route) ==
  LET find == tr_pipeline_registry_find(l, route.pipeline_id)
  IN  IF find.found /\ l.sessions[SessionOf(find, l)].pipeline.epoch = route.epoch
      THEN {SessionOf(find, l)} ELSE {}

tr_pipeline_registry_resolve_data_route_on_owner(l, route) ==
  IF RoutedSession(l, route) = {} THEN "STALE"
  ELSE tr_pipeline_validate_data_reservation_on_owner(
         l.sessions[CHOOSE k \in RoutedSession(l, route) : TRUE].pipeline, RouteData(route))

\* Applies the pipeline operation Op to the routed pipeline.
OnRoutedPipeline(l, route, Op(_)) ==
  IF RoutedSession(l, route) = {} THEN [ret |-> "STALE", l |-> l]
  ELSE LET k == CHOOSE s \in RoutedSession(l, route) : TRUE
           r == Op(l.sessions[k].pipeline)
       IN  [ret |-> r.ret, l |-> [l EXCEPT !.sessions[k].pipeline = r.p]]

tr_pipeline_registry_attach_data_route(l, route, conn) ==
  IF tr_pipeline_registry_resolve_data_route_on_owner(l, route) # "OK"
  THEN [ret |-> tr_pipeline_registry_resolve_data_route_on_owner(l, route), l |-> l]
  ELSE OnRoutedPipeline(l, route, LAMBDA p : tr_pipeline_attach_data(p, RouteData(route), conn))

tr_pipeline_registry_cancel_data_route(l, route) ==
  OnRoutedPipeline(l, route, LAMBDA p : tr_pipeline_cancel_data_reservation(p, RouteData(route)))

\* Only the connection that is attached detaches itself.
tr_pipeline_registry_detach_data_route(l, route, expected) ==
  OnRoutedPipeline(l, route, LAMBDA p :
    IF /\ tr_pipeline_data_ref_valid(p, RouteData(route))
       /\ p.data_slots[route.member_index].connection = expected
    THEN tr_pipeline_remove_data(p, RouteData(route)) ELSE Result("STALE", p))

-----------------------------------------------------------------------------
(* Drain bookkeeping.  Only these fields are shared with waiting threads. *)

Broadcast(l) == [l EXCEPT !.waiter.pc = IF @ = "asleep" THEN "awake" ELSE @]

tr_pipeline_listener_drain_complete_on_owner(l) ==
  l.draining /\ l.connections_current = 0 /\ l.pipelines_current = 0

tr_pipeline_listener_publish_drain_progress_on_owner(l) ==
  IF /\ tr_pipeline_listener_drain_complete_on_owner(l)
     /\ l.drain_wait_active /\ l.drained_generation # l.drain_generation
  THEN Broadcast([l EXCEPT !.drained_generation = l.drain_generation])
  ELSE l

tr_pipeline_listener_publish_drain_start_on_owner(l) ==
  tr_pipeline_listener_publish_drain_progress_on_owner(
    [l EXCEPT !.drain_generation = @ + 1, !.drained_generation = 0,
              !.drain_wait_active = TRUE])

tr_pipeline_listener_publish_listening_on_owner(l) ==
  Broadcast([l EXCEPT !.drain_wait_active = FALSE])

-----------------------------------------------------------------------------
(* The table of accepted connections, and closing one of them. *)

tr_pipeline_listener_connection_exact(l, t) ==
  l.connections[t.index].used /\ l.connections[t.index].generation = t.generation

\* Mutant: the last connection leaves without publishing the drain.
ConnectionClearSilently(l, i) ==
  IF ~l.connections[i].used THEN l
  ELSE [l EXCEPT !.connections[i] = [NoTrackedConn EXCEPT !.generation = l.connections[i].generation],
                 !.connections_current = IF @ # 0 THEN @ - 1 ELSE 0]

tr_pipeline_listener_connection_clear(l, i) ==
  IF ~l.connections[i].used THEN l
  ELSE tr_pipeline_listener_publish_drain_progress_on_owner(
         [l EXCEPT !.connections[i] = [NoTrackedConn EXCEPT !.generation = l.connections[i].generation],
                   !.connections_current = IF @ # 0 THEN @ - 1 ELSE 0])

ClearExact(l, t) ==
  IF tr_pipeline_listener_connection_exact(l, t)
  THEN tr_pipeline_listener_connection_clear(l, t.index) ELSE l

\* The release of a preface that was not handed to a handler.
tr_pipeline_listener_preface_release(l, t) == ClearExact(l, t)

\* The close of an attached DATA connection: leave the pipeline (which may be
\* gone already), then the table of connections.
tr_pipeline_ingress_event(s, c) ==
  LET detach == tr_pipeline_registry_detach_data_route(s.l, s.n[c].member, c)
  IN  [l |-> tr_pipeline_listener_connection_clear(detach.l, s.n[c].tracked.index),
       n |-> ServerClosed(s.n, c)]

\* Fatal teardown of a pipeline: membership first, then CONTROL and the
\* registration in one commit, then the DATA sockets.
tr_pipeline_control_abort_on_owner(s, k) ==
  LET p == s.l.sessions[k].pipeline
      Ref(i) == [index |-> i, generation |-> p.data_slots[i].generation]
      bare == FoldSet(LAMBDA i, q : tr_pipeline_remove_data(q, Ref(i)).p, p, Attached(p))
      close == tr_pipeline_registry_close_control(
                 [s.l EXCEPT !.sessions[k].pipeline = bare], k, s.l.sessions[k].transport)
      freed == close.l.sessions[k].pipeline
  IN  IF close.ret # "OK" THEN [ret |-> close.ret, s |-> [s EXCEPT !.l = close.l]]
      ELSE [ret |-> "OK",
            s |-> FoldSet(LAMBDA i, t : IF ServerOpen(t.n, p.data_slots[i].connection)
                                        THEN tr_pipeline_ingress_event(t, p.data_slots[i].connection)
                                        ELSE t,
                          [s EXCEPT !.l = [close.l EXCEPT
                              !.asserted = @ /\ DestroyAsserts(freed),
                              !.sessions[k].pipeline = tr_pipeline_create(0, 0)]],
                          Attached(p))]

tr_pipeline_listener_control_closed(l, k, status) ==
  LET cleared == ClearExact(l, l.sessions[k].tracked)
  IN  IF status # "OK" THEN [cleared EXCEPT !.sessions[k].closing = TRUE]
      ELSE tr_pipeline_listener_publish_drain_progress_on_owner(
             [cleared EXCEPT !.sessions[k] = NoSession,
                             !.pipelines_current = IF @ # 0 THEN @ - 1 ELSE 0])

tr_pipeline_control_transport_abort_on_owner(s, k) ==
  LET abort == tr_pipeline_control_abort_on_owner(
                 [s EXCEPT !.l.sessions[k].closing = TRUE], k)
  IN  [abort.s EXCEPT !.l = tr_pipeline_listener_control_closed(@, k, abort.ret)]

SessionsOn(l, c) == {k \in SessionIndex : l.sessions[k].used /\ l.sessions[k].transport = c}

\* tr_connection_close_internal: the connection is retired, then the release
\* of a preface still being read, or the event handler, runs.
ServerClose(s, c) ==
  CASE ~ServerOpen(s.n, c) -> s
    [] s.n[c].handler = "preface" ->
         [l |-> tr_pipeline_listener_preface_release(s.l, s.n[c].tracked),
          n |-> ServerClosed(s.n, c)]
    [] s.n[c].handler = "data" -> tr_pipeline_ingress_event(s, c)
    [] s.n[c].handler = "control" ->
         LET closed == [s EXCEPT !.n = ServerClosed(s.n, c)]
         IN  IF SessionsOn(s.l, c) = {} THEN closed
             ELSE tr_pipeline_control_transport_abort_on_owner(
                    closed, CHOOSE k \in SessionsOn(s.l, c) : TRUE)

-----------------------------------------------------------------------------
(* Accepting a connection and routing its preface. *)

tr_pipeline_listener_connection_reserve(l, i, c) ==
  [l EXCEPT !.connections[i] = [NoTrackedConn EXCEPT !.used = TRUE, !.handle = c,
                                                     !.generation = l.connections[i].generation + 1],
            !.connections_current = @ + 1]

\* A connection there is no room for, or that the reactor refuses, is closed.
tr_pipeline_listener_adopt_fd(s, c, adopts) ==
  LET free == {i \in ConnIndex : ~s.l.connections[i].used}
      i == Min(free)
      l == tr_pipeline_listener_connection_reserve(s.l, i, c)
      tracked == [index |-> i, generation |-> l.connections[i].generation]
  IN  IF free = {} THEN [s EXCEPT !.n = ServerClosed(@, c)]
      ELSE IF ~adopts
      THEN [l |-> tr_pipeline_listener_preface_release(l, tracked), n |-> ServerClosed(s.n, c)]
      ELSE [l |-> l,
            n |-> [s.n EXCEPT ![c].server = "open", ![c].handler = "preface",
                              ![c].tracked = tracked, ![c].tls_generation = l.tls_generation]]

tr_pipeline_listener_session_find(l, id, epoch) ==
  {k \in SessionIndex : /\ l.sessions[k].used /\ ~l.sessions[k].closing
                        /\ l.sessions[k].pipeline_id = id /\ l.sessions[k].epoch = epoch}

tr_pipeline_listener_accept_control(s, c, route, authorized) ==
  LET l == s.l
      free == {k \in SessionIndex : ~l.sessions[k].used}
      k == Min(free)
      session == [NoSession EXCEPT !.used = TRUE, !.pipeline_id = route.pipeline_id,
                    !.epoch = route.epoch, !.tls_generation = s.n[c].tls_generation,
                    !.tracked = s.n[c].tracked, !.transport = c,
                    !.pipeline = tr_pipeline_create(route.pipeline_id, route.epoch)]
      register == tr_pipeline_registry_register_control([l EXCEPT !.sessions[k] = session], k, c)
      Refuse(ret) == [ret |-> ret, s |-> s]
  IN  IF l.draining THEN Refuse("CLOSED")
      ELSE IF ~authorized THEN Refuse("INVALID")
      ELSE IF free = {} THEN Refuse("AGAIN")
      ELSE IF register.ret # "OK" THEN Refuse(register.ret)
      ELSE [ret |-> "OK",
            s |-> [l |-> [register.l EXCEPT
                            !.connections[s.n[c].tracked.index].route = route,
                            !.connections[s.n[c].tracked.index].role = "CONTROL",
                            !.pipelines_current = @ + 1],
                   n |-> [s.n EXCEPT ![c].handler = "control"]]]

\* The exact reservation is checked before identity, and attached after it.
tr_pipeline_listener_accept_data(s, c, route, authorized) ==
  LET resolve == tr_pipeline_registry_resolve_data_route_on_owner(s.l, route)
      sessions == tr_pipeline_listener_session_find(s.l, route.pipeline_id, route.epoch)
      attach == tr_pipeline_registry_attach_data_route(s.l, route, c)
      Refuse(ret) == [ret |-> ret, s |-> s]
  IN  IF resolve # "OK" THEN Refuse(resolve)
      ELSE IF \/ sessions = {}
              \/ \E k \in sessions : s.l.sessions[k].tls_generation # s.n[c].tls_generation
      THEN Refuse("STALE")
      ELSE IF ~authorized THEN Refuse("INVALID")
      ELSE IF attach.ret # "OK" THEN Refuse(attach.ret)
      ELSE [ret |-> "OK",
            s |-> [l |-> [attach.l EXCEPT
                            !.connections[s.n[c].tracked.index].route = route,
                            !.connections[s.n[c].tracked.index].role = "DATA"],
                   n |-> [s.n EXCEPT ![c].handler = "data", ![c].member = route]]]

\* The last byte of a preface.  A DATA connection that is refused gives its
\* reservation back.  Once accepted, the connection belongs to its handler,
\* which also cleans up when the deadline has passed by now.
tr_pipeline_listener_preface_feed(s, c, m, authorized, expired) ==
  LET refused == IF m.type = "DATA_ROUTE"
                 THEN [s EXCEPT !.l = tr_pipeline_registry_cancel_data_route(@, m.route).l]
                 ELSE s
      Routed(accept) ==
        CASE accept.ret # "OK" -> ServerClose(refused, c)
          [] accept.ret = "OK" /\ expired = "after" -> ServerClose(accept.s, c)
          [] OTHER -> accept.s
  IN  IF expired = "before" THEN ServerClose(s, c)
      ELSE Routed(IF m.type = "CONTROL"
                  THEN tr_pipeline_listener_accept_control(s, c, m.route, authorized)
                  ELSE tr_pipeline_listener_accept_data(s, c, m.route, authorized))

-----------------------------------------------------------------------------
(* Frames of CONTROL and DATA connections. *)

\* The client may only cancel an offer, and one this pipeline still knows.
tr_pipeline_control_transport_frame(s, c, m) ==
  LET k == CHOOSE x \in SessionsOn(s.l, c) : TRUE
      cancel == tr_pipeline_cancel_data_offer(s.l.sessions[k].pipeline, RouteData(m.route))
  IN  IF s.l.sessions[k].closing THEN s
      ELSE IF \/ m.type # "CANCEL"
              \/ m.route.pipeline_id # s.l.sessions[k].pipeline_id
              \/ m.route.epoch # s.l.sessions[k].epoch
              \/ cancel.ret # "OK"
      THEN ServerClose(s, c)
      ELSE [s EXCEPT !.l.sessions[k].pipeline = cancel.p]

\* DATA is taken only for a stream whose affinity names this very member.
tr_pipeline_ingress_frame(s, c, m) ==
  LET route == s.n[c].member
      k == CHOOSE x \in RoutedSession(s.l, route) : TRUE
      find == tr_pipeline_stream_data(s.l.sessions[k].pipeline, m.stream)
      looked == [s EXCEPT !.l.sessions[k].pipeline = find.p]
  IN  IF find.ret # "OK" \/ find.data # RouteData(route) \/ find.connection # c
      THEN ServerClose(looked, c) ELSE looked

-----------------------------------------------------------------------------
(* The actions.  Server(s) is the end of a turn of the owner reactor. *)

Here == [l |-> listener, n |-> net]
Server(s) == listener' = s.l /\ net' = s.n
OnListener(l) == listener' = l /\ UNCHANGED net

Refusable == IF Plan.server_fails THEN BOOLEAN ELSE {TRUE}

\* tr_pipeline_listener_listen_ipv4, once the socket listens.
tr_pipeline_listener_publish_listen ==
  /\ ~listener.destroyed /\ ~listener.registered /\ ~listener.drain_wait_closed
  /\ OnListener(tr_pipeline_listener_publish_listening_on_owner(
       [listener EXCEPT !.registered = TRUE, !.draining = FALSE]))

\* The listening socket is readable: all waiting connections are accepted.
tr_pipeline_listener_on_ready ==
  /\ listener.registered
  /\ \E c \in Conns : net[c].server = "backlog"
  /\ \E adopts \in Refusable :
       Server(FoldSet(LAMBDA c, s : tr_pipeline_listener_adopt_fd(s, c, adopts), Here,
                      {c \in Conns : net[c].server = "backlog"}))

\* A connection is readable; the handshake deadline may expire before the
\* preface is read, or between the two looks at it.
ServerRead(c) ==
  /\ net[c].server = "open" /\ net[c].c2s # <<>>
  /\ LET m == Head(net[c].c2s)
         s == [Here EXCEPT !.n[c].c2s = Tail(@)]
     IN  \/ /\ net[c].handler = "preface"
            /\ \E authorized \in Refusable, expired \in {"no", "before", "after"} :
                 Server(tr_pipeline_listener_preface_feed(s, c, m, authorized, expired))
         \/ /\ net[c].handler = "control"
            /\ Server(tr_pipeline_control_transport_frame(s, c, m))
         \/ /\ net[c].handler = "data"
            /\ Server(tr_pipeline_ingress_frame(s, c, m))

\* The server sees the end of the stream, or an error.
ServerLost(c) ==
  /\ net[c].server = "open"
  /\ net[c].client = "closed" \/ Plan.server_fails
  /\ Server(ServerClose(Here, c))

\* The handshake timer finds some connections past their deadline.
tr_pipeline_listener_handshake_timer_main ==
  LET pending == {i \in ConnIndex : /\ listener.connections[i].used
                                    /\ listener.connections[i].role = "PENDING"}
  IN  \E late \in SUBSET pending \ {{}} :
        Server(FoldSet(LAMBDA i, s :
                 LET t == ServerClose(s, s.l.connections[i].handle)
                 IN  [t EXCEPT !.l = tr_pipeline_listener_connection_clear(@, i)],
                 Here, late))

\* Admission closes, and with it the listening socket and its backlog.
DrainAdmission(s) ==
  LET l == [s.l EXCEPT !.registered = FALSE, !.draining = TRUE]
  IN  [l |-> IF s.l.draining
             THEN tr_pipeline_listener_publish_drain_progress_on_owner(l)
             ELSE tr_pipeline_listener_publish_drain_start_on_owner(l),
       n |-> FoldSet(LAMBDA c, n : IF n[c].server = "backlog" THEN ServerClosed(n, c) ELSE n,
                     s.n, Conns)]

MayDrain ==
  ~listener.destroyed /\ (listener.draining \/ listener.drain_generation < Plan.drains)

tr_pipeline_listener_begin_drain ==
  MayDrain /\ Server(DrainAdmission(Here))

\* Drain, close every connection, and tear down what a failed teardown left.
tr_pipeline_listener_stop_on_owner ==
  /\ MayDrain
  /\ LET closed == FoldSet(LAMBDA i, s : IF s.l.connections[i].used
                                         THEN ServerClose(s, s.l.connections[i].handle) ELSE s,
                           DrainAdmission(Here), ConnIndex)
     IN  Server(FoldSet(LAMBDA k, s : IF s.l.sessions[k].used
                                      THEN tr_pipeline_control_transport_abort_on_owner(s, k) ELSE s,
                        closed, SessionIndex))

\* A waiter refuses the destruction, but is told to leave.
tr_pipeline_listener_destroy ==
  /\ ~listener.destroyed /\ ~listener.registered
  /\ listener.connections_current = 0 /\ listener.pipelines_current = 0
  /\ LET l == [listener EXCEPT !.drain_wait_closed = TRUE]
     IN  OnListener(IF l.waiter.pc # "idle" THEN Broadcast(l)
                    ELSE [l EXCEPT !.destroyed = TRUE, !.asserted = @ /\ l.registry_count = 0])

tr_pipeline_listener_wait_drained ==
  /\ ~listener.destroyed /\ listener.waiter.pc = "idle"
  /\ ~listener.drain_wait_closed /\ listener.drain_wait_active
  /\ listener.drained_generation # listener.drain_generation
  /\ OnListener([listener EXCEPT
       !.waiter = [pc |-> "asleep", generation |-> listener.drain_generation]])

\* The waiter was woken: it returns, or waits on.
ListenerWaiterWakes ==
  /\ listener.waiter.pc = "awake"
  /\ OnListener([listener EXCEPT !.waiter =
       IF \/ listener.drained_generation = @.generation \/ listener.drain_wait_closed
          \/ ~listener.drain_wait_active \/ listener.drain_generation # @.generation
       THEN Idle ELSE [@ EXCEPT !.pc = "asleep"]])

ListenerWaitTimesOut ==
  /\ listener.waiter.pc = "asleep"
  /\ OnListener([listener EXCEPT !.waiter = Idle])

Sessions == {k \in SessionIndex : /\ listener.sessions[k].used /\ ~listener.sessions[k].closing
                                  /\ Len(net[listener.sessions[k].transport].s2c) < Plan.queue}

\* An offer: reserve a slot and send its route; a refused send takes it back.
tr_pipeline_listener_send_offer_on_owner(k) ==
  LET p == listener.sessions[k].pipeline
      reserve == tr_pipeline_reserve_data(p)
      c == listener.sessions[k].transport
  IN  /\ ~listener.draining
      /\ reserve.ret = "OK" /\ reserve.data.generation <= Plan.generations
      /\ \E sent \in Refusable :
           IF sent
           THEN Server([l |-> [listener EXCEPT !.sessions[k].pipeline = reserve.p],
                        n |-> ToClient(net, c, [type |-> "OFFER", route |-> DataRoute(p, reserve.data)])])
           ELSE OnListener([listener EXCEPT !.sessions[k].pipeline =
                              tr_pipeline_cancel_data_offer(reserve.p, reserve.data).p])

\* A transfer: bind the stream to a DATA connection and announce it.
tr_pipeline_listener_send_ready_on_owner(k, stream) ==
  LET p == listener.sessions[k].pipeline
      ready == tr_pipeline_prepare_transfer(p, stream)
      c == listener.sessions[k].transport
  IN  /\ ~listener.draining /\ ready.ret = "OK"
      /\ \E sent \in Refusable :
           IF sent
           THEN Server([l |-> [listener EXCEPT !.sessions[k].pipeline = ready.p],
                        n |-> ToClient(net, c, [type |-> "READY", stream |-> stream,
                                                route |-> DataRoute(p, ready.data)])])
           ELSE OnListener([listener EXCEPT !.sessions[k].pipeline =
                              tr_pipeline_unbind_stream(ready.p, stream).p])

tr_pipeline_listener_release_transfer_on_owner(k, stream) ==
  LET unbind == tr_pipeline_unbind_stream(listener.sessions[k].pipeline, stream)
  IN  /\ unbind.ret = "OK"
      /\ OnListener([listener EXCEPT !.sessions[k].pipeline = unbind.p])

tr_pipeline_listener_set_tls_profile_on_owner ==
  /\ ~listener.destroyed /\ ~listener.draining
  /\ listener.tls_generation < Plan.tls_generations
  /\ OnListener([listener EXCEPT !.tls_generation = @ + 1])
=============================================================================
