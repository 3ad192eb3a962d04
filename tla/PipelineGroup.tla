--------------------------- MODULE PipelineGroup ---------------------------
(***************************************************************************)
(* A client group and the listener it connects to, over a network that     *)
(* loses connections: the two owners, the connector, the threads in        *)
(* connect() and wait_drained(), and the connections between them.         *)
(***************************************************************************)
EXTENDS PipelineListener, ClientGroup

CONSTANTS PipelineIds,  \* the group ids the client connects with
          Epochs,       \* the epochs it connects with
          Streams       \* the streams the server announces

vars == <<listener, group, net, plan>>

Init == plan \in DOMAIN Plans /\ ListenerInit /\ GroupInit /\ NetInit

Reachable == listener.registered

ControlRoute(id, epoch) == [NoRoute EXCEPT !.pipeline_id = id, !.epoch = epoch]

ListenerStep ==
  /\ \/ tr_pipeline_listener_publish_listen
     \/ tr_pipeline_listener_on_ready
     \/ \E c \in Conns : ServerRead(c) \/ ServerLost(c)
     \/ tr_pipeline_listener_handshake_timer_main
     \/ tr_pipeline_listener_begin_drain
     \/ tr_pipeline_listener_stop_on_owner
     \/ tr_pipeline_listener_destroy
     \/ tr_pipeline_listener_wait_drained \/ ListenerWaiterWakes \/ ListenerWaitTimesOut
     \/ \E k \in Sessions : tr_pipeline_listener_send_offer_on_owner(k)
     \/ \E k \in Sessions, stream \in Streams :
          \/ tr_pipeline_listener_send_ready_on_owner(k, stream)
          \/ tr_pipeline_listener_release_transfer_on_owner(k, stream)
     \/ group.tls /\ tr_pipeline_listener_set_tls_profile_on_owner
  /\ UNCHANGED group

GroupStep ==
  /\ \/ \E c \in Conns : ClientRead(c) \/ ClientLost(c) \/ ClientFlush(c)
     \/ \E c \in Conns : tr_client_group_tls_authenticated(c) \/ tr_client_group_tls_preface_sent(c)
     \/ ConnectorReady(Reachable) \/ ConnectorEnds
     \/ \E id \in PipelineIds, epoch \in Epochs :
          tr_client_group_prepare_connect_on_owner(ControlRoute(id, epoch))
     \/ tr_client_group_connect_fd(Reachable)
     \/ tr_client_group_cancel_prepare_connect_on_owner
     \/ tr_client_group_adopt_control_on_owner
     \/ tr_client_group_close_on_owner
     \/ tr_client_group_begin_drain
     \/ tr_client_group_wait_drained \/ GroupWaiterWakes \/ GroupWaitTimesOut
     \/ \E stream \in Streams : \/ tr_client_group_release_transfer_on_owner(stream)
                                \/ tr_client_group_send_on_owner(stream)
     \/ tr_client_group_destroy
  /\ UNCHANGED listener

Next == (ListenerStep \/ GroupStep) /\ UNCHANGED plan

Spec == Init /\ [][Next]_vars

(* What the two reactors do without the application.  Each line is weak       *)
(* fairness of the handler it names, said without ENABLED: what the handler   *)
(* would end does not last.  Nothing is assumed of sends, refusals, lost      *)
(* links or the application's calls.                                          *)
ServerReadable(c) == net[c].server = "open" /\ net[c].c2s # <<>>
ClientReadable(c) == net[c].client = "open" /\ net[c].s2c # <<>>

Fairness ==
  \A c \in Conns :
    /\ []<>~(listener.registered /\ net[c].server = "backlog")           \* on_ready
    /\ <>[]ServerReadable(c) => []<><<Len(net'[c].c2s) < Len(net[c].c2s)>>_vars
    /\ <>[]ClientReadable(c) => []<><<Len(net'[c].s2c) < Len(net[c].s2c)>>_vars
    /\ []<>~(net[c].server = "open" /\ net[c].client = "closed")         \* ServerLost
    /\ []<>~(ClientOpen(net, c) /\ net[c].server = "closed")             \* ClientLost
    /\ []<>~(net[c].server = "open" /\ net[c].handler = "preface")       \* handshake_timer_main
    /\ []<>~(net[c].client \in {"handshake", "preface"})                 \* the TLS deadline
    /\ []<>~(group.connector.active /\ group.connector.fd = c)           \* ConnectorEnds
    /\ []<>~(group.connect.pc = "dialed" /\ group.connect.fd = c)         \* connect()

FairSpec == Spec /\ Fairness

-----------------------------------------------------------------------------
(* The tables of the server agree, whatever closes when: a connection is       *)
(* tracked exactly once while it is open and not afterwards, every DATA        *)
(* connection is the attached member its route names and every attached member *)
(* such a connection, every session is registered under its CONTROL            *)
(* connection, and the counters that drain and destroy rely on count them; the *)
(* debug assertions of tr_pipeline_destroy and tr_pipeline_registry_destroy    *)
(* hold however the teardown is reached.                                       *)
ServerTables ==
  LET l == listener
      tracked == {i \in ConnIndex : l.connections[i].used}
      used == {k \in SessionIndex : l.sessions[k].used}
      open == {c \in Conns : net[c].server = "open"}
      members == {<<k, i>> \in used \X DataIndex : i \in Attached(l.sessions[k].pipeline)}
  IN  /\ l.asserted
      /\ l.connections_current = Cardinality(tracked) /\ l.pipelines_current = Cardinality(used)
      /\ l.registry_count = Cardinality(used)
      /\ Content(l.registry) = {<<l.sessions[k].pipeline_id, k>> : k \in used}
      /\ {l.connections[i].handle : i \in tracked} = open /\ Cardinality(tracked) = Cardinality(open)
      /\ \A c \in open : tr_pipeline_listener_connection_exact(l, net[c].tracked)
      /\ \A k \in used : /\ l.sessions[k].pipeline.control = l.sessions[k].transport
                         /\ net[l.sessions[k].transport].handler = "control"
      /\ {[connection |-> l.sessions[m[1]].pipeline.data_slots[m[2]].connection,
           route |-> DataRoute(l.sessions[m[1]].pipeline,
                        [index |-> m[2],
                         generation |-> l.sessions[m[1]].pipeline.data_slots[m[2]].generation])]
            : m \in members}
         = {[connection |-> c, route |-> net[c].member] : c \in {d \in open : net[d].handler = "data"}}
      /\ \A k \in used : LET p == l.sessions[k].pipeline
                         IN  /\ p.data_count = Cardinality(Attached(p))
                             /\ p.data_reserved_count = Cardinality(
                                  {i \in DataIndex : p.data_slots[i].state = "RESERVED"})

(* No stream outlives its DATA connection, on either side: an affinity of the *)
(* server names an attached member of that generation, a transfer of the      *)
(* client an active DATA connection of that generation, and both are counted  *)
(* (pipeline.c:570, client_group.c:787).                                      *)
StreamsFollowMembers ==
  /\ \A k \in SessionIndex :
       LET p == listener.sessions[k].pipeline
       IN  /\ \A i \in Used(p.affinities) : tr_pipeline_data_ref_valid(p, p.affinities[i].value)
           /\ p.affinity_count = Cardinality(Used(p.affinities))
  /\ \A i \in Used(group.transfers) :
       LET t == group.transfers[i].value
       IN  /\ group.data[t.slot].state = "ACTIVE"
           /\ group.data[t.slot].route.member_generation = t.generation
  /\ group.transfer_count = Cardinality(Used(group.transfers))

(* Every socket of the client has one owner that will close it: connect(),    *)
(* the connector, CONTROL or a DATA slot.  The exception is CONTROL whose end  *)
(* could not be completed, which a later close or destroy finishes.           *)
EverySocketOwned ==
  LET g == group
      owners == {<<"connect", 0, g.connect.fd>>, <<"connector", 0, g.connector.fd>>,
                 <<"control", 0, g.control>>} \cup {<<"data", i, g.data[i].connection>> : i \in Slots}
      InUse(c) == net[c].client \notin {"none", "closed"}
  IN  /\ \A c \in Conns : InUse(c) => Cardinality({o \in owners : o[3] = c}) = 1
      /\ \A o \in owners : o[3] = NoFd \/ InUse(o[3]) \/ (o[1] = "control" /\ g.closing)
      /\ g.connector.active => /\ g.connector_slot # NoSlot
                               /\ g.data[g.connector_slot].state = "CONNECTING"
                               /\ g.data[g.connector_slot].connection = NoFd
      /\ g.send_bytes_inflight = FoldSet(LAMBDA c, n : n + Len(net[c].tx), 0, Conns)

(* Whoever has reported its drain stays drained, and who is drained has       *)
(* reported it: no waiter sleeps on a drain that is over                      *)
(* (pipeline_listener.c:102, client_group.c:221).  Of the client this holds   *)
(* without TLS; there a connect() that follows the drain does not undo it     *)
(* before the new connection is published, and a drain that begin_drain()     *)
(* refused is not over before it is called again.                             *)
DrainExact ==
  LET settled == [group EXCEPT !.control_connecting = FALSE]
      drained == group.drained_generation = group.drain_generation
  IN  /\ (listener.draining /\ listener.drain_wait_active) =>
           (tr_pipeline_listener_drain_complete_on_owner(listener)
              <=> listener.drained_generation = listener.drain_generation)
      /\ (~group.tls /\ group.draining /\ group.drain_wait_active) =>
           /\ drained => tr_client_group_drain_complete_on_owner(settled)
           /\ tr_client_group_drain_complete_on_owner(group) => drained \/ group.drain_refused

(* wait_drained() of a client group returns when there is no transfer, no     *)
(* payload in a DATA queue and no DATA connection being made: its waiter does *)
(* not sleep on after that (include/tr/transport.h:205).                      *)
WaiterNotForgotten ==
  (group.waiter.pc = "asleep" /\ group.drain_generation = group.waiter.generation) =>
    ~tr_client_group_drain_complete_on_owner(group)

(* The tables of both sides are exact: what is counted, registered, attached   *)
(* or bound to a stream is what is really open, after every order in which     *)
(* connections, CONTROL and DATA end; and a stop of the listener, whose        *)
(* handlers close one connection from another's end, empties them.             *)
TablesExact ==
  [][/\ ServerTables' /\ StreamsFollowMembers'
     /\ tr_pipeline_listener_stop_on_owner =>
          /\ listener'.connections_current = 0 /\ listener'.pipelines_current = 0
          /\ \A c \in Conns : net'[c].server # "open"]_vars

(* An offer is answered: its slot does not stay reserved, whether the client  *)
(* connects, refuses, fails, drains, closes or is too late; or else a close,   *)
(* destroy or drain of the client failed and is to be called again.           *)
OfferAnswered ==
  \A k \in SessionIndex, i \in DataIndex :
    []<>(listener.sessions[k].pipeline.data_slots[i].state = "RESERVED"
           => group.closing \/ group.drain_refused)
=============================================================================
