------------------------------- MODULE Server -------------------------------
(***************************************************************************)
(* The RPC server facade (src/src/server.c) over its runtime shards        *)
(* (src/src/runtime/runtime.c): creation with rollback, listen, start with *)
(* rollback, adoption of peers, their handshake lease and retirement, the  *)
(* drain and the destruction that may be tried again.                      *)
(*                                                                         *)
(* One control thread runs the lifecycle calls; every shard has an owner   *)
(* thread, whose callbacks are one step each, and worker threads.  Between *)
(* two owner calls of a lifecycle operation all of them go on.  Channels,  *)
(* record endpoints, executors and reactors have modules of their own and  *)
(* appear here by what the server sees of them.                            *)
(***************************************************************************)
EXTENDS Naturals, Sequences, FiniteSets, FiniteSetsExt

CONSTANTS MaxShards,          \* bound: config.shard_count
          MaxPeers,           \* config.max_peers
          HandshakeTimeout,   \* handshake_timeout_ms, in ticks
          MaxAccepts,         \* bound: connections accepted, over the shards
          MaxDrains,          \* bound: calls of tr_server_drain
          CompletionLimit,    \* record.endpoint.completion_limit
          MaxFaults           \* bound: calls that fail for lack of resources

ASSUME ServerAssumption ==
  /\ MaxShards \in Nat \ {0} /\ MaxPeers \in Nat /\ MaxPeers >= MaxShards
  /\ {HandshakeTimeout, MaxAccepts, MaxDrains, MaxFaults - 1} \subseteq Nat
  /\ HandshakeTimeout > 0 /\ CompletionLimit \in Nat \ {0}

VARIABLES
  shard_count,
  shard,     \* struct tr_server_shard and tr_runtime_shard, its peers included
  server,    \* struct tr_server and where the control thread is
  accepts, faults

serverVars == <<shard_count, shard, server, accepts, faults>>

Shards == 1 .. MaxShards
Slots == 1 .. MaxPeers
Ids == 1 .. shard_count

\* Deadlines are kept as the time that is left, and a timer that is not armed
\* as more than any.
Disarmed == HandshakeTimeout + 1

\* struct tr_server_peer after memset.  conn is the state of its connection;
\* an endpoint is idle, has work queued or running, or a completion to deliver;
\* streams counts the streams of the channel.
NoPeer == [used |-> FALSE, ready |-> FALSE, closing |-> FALSE, deadline |-> 0,
           conn |-> "none", channel |-> "none", rpc |-> "none", streams |-> 0]

NoShard ==
  [reactor |-> "none", listen |-> FALSE, listening |-> FALSE, events |-> FALSE,
   signal |-> FALSE, lease_timer |-> FALSE, lease |-> Disarmed, cleanup |-> FALSE,
   cleanup_timer |-> FALSE, tasks |-> "none", workers |-> FALSE,
   producers |-> FALSE, pool |-> FALSE, storage |-> FALSE, observing |-> FALSE,
   drained |-> FALSE, count |-> 0, bytes |-> 0, peers |-> [i \in Slots |-> NoPeer]]

NoServer ==
  [pc |-> "none", id |-> 0, why |-> "none", result |-> "OK", final |-> "OK",
   published |-> FALSE, started |-> FALSE, attempted |-> FALSE,
   methods |-> FALSE, cond |-> FALSE, runtime |-> FALSE, graceful |-> FALSE,
   bytes |-> 0, drains |-> 0]

ServerInit ==
  /\ shard_count \in Shards
  /\ shard = [s \in Shards |-> NoShard] /\ server = NoServer
  /\ accepts = 0 /\ faults = 0

\* tr_server_budget_share of max_peers.
PeerCapacity(s) ==
  MaxPeers \div shard_count + (IF s - 1 < MaxPeers % shard_count THEN 1 ELSE 0)

PeerSlots(s) == 1 .. PeerCapacity(s)
Of(s) == s \in Ids

\* One fault less while the server is in service, and still one when it starts
\* or ends.
Fault == /\ faults < IF server.started THEN MaxFaults - 1 ELSE MaxFaults
         /\ faults' = faults + 1
NoFault == UNCHANGED faults

\* Every charge on the budget of a shard is charged to the server's as well.
ShardIs(s, x) ==
  /\ shard' = [shard EXCEPT ![s] = x]
  /\ server' = [server EXCEPT !.bytes = (@ + x.bytes) - shard[s].bytes]

Owner(s) == Of(s) /\ shard[s].reactor = "running"

Returns(v, result) == [v EXCEPT !.pc = "idle", !.id = 0, !.why = "none",
                                !.result = result]

-----------------------------------------------------------------------------
(* Peers on their owner                                                    *)

tr_server_peer_disconnected(p) == p.used /\ p.conn = "down"

\* Peers whose HELLO is still awaited.
Pending(x) == {i \in Slots : x.peers[i].used /\ ~x.peers[i].ready
                              /\ ~tr_server_peer_disconnected(x.peers[i])}

Earliest(D) == Min(D \cup {Disarmed})

\* Mutant: the timer is armed for the newest peer.
ArmForNewest(x, deadline) ==
  [x EXCEPT !.lease_timer = TRUE, !.lease = deadline]

tr_server_arm_handshake_on_owner(x, deadline) ==
  [x EXCEPT !.lease_timer = TRUE,
            !.lease = Min({deadline} \cup {x.peers[i].deadline : i \in Pending(x)})]

\* Published with a connection that is closed already; a later turn of the
\* owner detaches it.
tr_server_adopt_peer_rollback(x, i, rpc) ==
  [x EXCEPT !.peers[i] = [NoPeer EXCEPT !.used = TRUE, !.closing = TRUE,
                            !.conn = "down", !.channel = "open", !.rpc = rpc],
            !.count = @ + 1, !.signal = TRUE,
            !.bytes = @ + (IF rpc = "none" THEN 1 ELSE 2)]

\* Accept a connection and adopt it: a free slot, the lease, the connection,
\* the channel, the endpoint, and only then HELLO.
tr_server_adopt_peer(s) ==
  LET x == shard[s]
      deadline == HandshakeTimeout
      free == {i \in PeerSlots(s) : ~x.peers[i].used}
      armed == tr_server_arm_handshake_on_owner(x, deadline)
      i == Min(free)
  IN  /\ Owner(s) /\ x.listening /\ accepts < MaxAccepts \div shard_count
      /\ x.count < PeerCapacity(s) /\ free # {}
      /\ accepts' = accepts + 1
      /\ \/ Fault /\ \E t \in {x.lease_timer, TRUE} : ShardIs(s, [x EXCEPT !.lease_timer = t])
         \/ Fault /\ ShardIs(s, armed)
         \/ Fault /\ \E rpc \in {"none", "idle"} :
                       ShardIs(s, tr_server_adopt_peer_rollback(armed, i, rpc))
         \/ NoFault /\ ShardIs(s,
              [armed EXCEPT !.peers[i] = [NoPeer EXCEPT !.used = TRUE, !.conn = "up",
                                !.deadline = deadline, !.channel = "open", !.rpc = "idle"],
                            !.count = @ + 1, !.bytes = @ + 2, !.signal = TRUE])
      /\ UNCHANGED shard_count

Down(p) == [p EXCEPT !.conn = "down", !.streams = 0, !.deadline = 0]

Drop(x, i) == [x EXCEPT !.peers[i] = Down(@), !.signal = TRUE]

\* CONTROL_UP: a HELLO that comes after the lease ends the connection.
tr_server_on_channel_lifecycle(s, i) ==
  LET p == shard[s].peers[i]
  IN  /\ Owner(s) /\ p.used /\ p.conn = "up" /\ ~p.ready
      /\ IF p.deadline = 0
           THEN ShardIs(s, Drop(shard[s], i))
           ELSE ShardIs(s, [shard[s] EXCEPT !.peers[i].ready = TRUE,
                                              !.peers[i].deadline = 0])
      /\ UNCHANGED <<shard_count, accepts, faults>>

tr_server_handshake_timer_main(s) ==
  LET x == shard[s]
      late == {i \in Pending(x) : x.peers[i].deadline = 0}
  IN  /\ Owner(s) /\ x.lease = 0
      /\ ShardIs(s, [x EXCEPT
           !.peers = [i \in Slots |-> IF i \in late THEN Down(@[i]) ELSE @[i]],
           !.signal = @ \/ late # {},
           !.lease = Earliest({x.peers[i].deadline : i \in Pending(x) \ late})])
      /\ UNCHANGED <<shard_count, accepts, faults>>

\* Mutant: only peers whose adoption was rolled back are detached.
DetachedClosing(p, stuck) ==
  IF ~p.used \/ ~p.closing THEN p
  ELSE IF p.rpc = "busy" THEN Down(p)
  ELSE IF stuck THEN [Down(p) EXCEPT !.rpc = "none"]
  ELSE NoPeer

\* One peer of tr_server_record_detach_peers_on_owner: the endpoint closes
\* when its work is over, then the channel detaches (or not yet), and only
\* then is the slot cleared.
Detached(p, stuck) ==
  IF ~p.used \/ ~(p.closing \/ tr_server_peer_disconnected(p)) THEN p
  ELSE IF p.rpc = "busy" THEN Down(p)
  ELSE IF stuck THEN [Down(p) EXCEPT !.rpc = "none"]
  ELSE NoPeer

Charge(p) == (IF p.channel = "none" THEN 0 ELSE 1) + (IF p.rpc = "none" THEN 0 ELSE 1)
Charges(peers) == MapThenSumSet(LAMBDA i : Charge(peers[i]), Slots)

\* Replace the peers, with the counters that go with them.
WithPeers(x, peers) ==
  [x EXCEPT !.peers = peers,
            !.count = @ - Cardinality({i \in Slots : x.peers[i].used /\ ~peers[i].used}),
            !.bytes = (@ + Charges(peers)) - Charges(x.peers)]

tr_server_record_detach_peers_on_owner(x, stuck) ==
  IF ~x.cleanup THEN x
  ELSE WithPeers(x, [i \in Slots |-> Detached(x.peers[i], i \in stuck)])

\* Some channel may be unable to detach in this turn.
Detaching(s, x) ==
  \/ NoFault /\ ShardIs(s, tr_server_record_detach_peers_on_owner(x, {}))
  \/ Fault /\ \E i \in PeerSlots(s) :
                /\ x.peers[i].used
                /\ ShardIs(s, tr_server_record_detach_peers_on_owner(x, {i}))

tr_server_on_peer_lifecycle_event(s) ==
  /\ Owner(s) /\ shard[s].events /\ shard[s].signal
  /\ Detaching(s, [shard[s] EXCEPT !.signal = FALSE])
  /\ UNCHANGED <<shard_count, accepts>>

tr_server_record_cleanup_tick(s) ==
  /\ Owner(s) /\ shard[s].cleanup_timer /\ shard[s].cleanup
  /\ Detaching(s, shard[s])
  /\ UNCHANGED <<shard_count, accepts>>

\* tr_server_record_progress: told by an endpoint that changed, the shard
\* publishes whether all its endpoints are quiet.
Quiet(p) == p.used /\ p.rpc # "none" => p.rpc = "idle"

tr_server_record_progress(x) ==
  IF x.observing THEN [x EXCEPT !.drained = \A i \in Slots : Quiet(x.peers[i])] ELSE x

\* The rest of a peer's life, as the server sees it: a call comes in, a worker
\* ends it (and signals the eventfd), its endpoint delivers the completion, its
\* stream ends or is reset, the peers have exchanged GOAWAY, or the connection
\* is lost.
CallBegins(s, i) ==
  LET p == shard[s].peers[i]
  IN  /\ Owner(s) /\ p.ready /\ p.conn = "up" /\ p.channel = "open"
      /\ p.rpc = "idle" /\ p.streams = 0 /\ shard[s].tasks = "open"
      /\ ShardIs(s, tr_server_record_progress(
                      [shard[s] EXCEPT !.peers[i].rpc = "busy", !.peers[i].streams = 1]))
      /\ UNCHANGED <<shard_count, accepts, faults>>

WorkEnds(s, i) ==
  /\ Of(s) /\ shard[s].workers /\ shard[s].peers[i].rpc = "busy"
  /\ ShardIs(s, [shard[s] EXCEPT !.peers[i].rpc = "done", !.signal = TRUE])
  /\ UNCHANGED <<shard_count, accepts, faults>>

EndpointPump(s, i) ==
  /\ Owner(s) /\ shard[s].peers[i].rpc = "done"
  /\ ShardIs(s, tr_server_record_progress([shard[s] EXCEPT !.peers[i].rpc = "idle"]))
  /\ UNCHANGED <<shard_count, accepts, faults>>

StreamEnds(s, i) ==
  /\ Owner(s) /\ shard[s].peers[i].streams = 1
  /\ ShardIs(s, [shard[s] EXCEPT !.peers[i].streams = 0])
  /\ UNCHANGED <<shard_count, accepts, faults>>

GoawayExchanged(s, i) ==
  LET p == shard[s].peers[i]
  IN  /\ Owner(s) /\ p.ready /\ p.conn = "up" /\ p.channel = "draining" /\ p.streams = 0
      /\ ShardIs(s, [shard[s] EXCEPT !.peers[i].channel = "answered"])
      /\ UNCHANGED <<shard_count, accepts, faults>>

ConnectionLost(s, i) ==
  /\ Owner(s) /\ shard[s].peers[i].conn = "up"
  /\ ShardIs(s, Drop(shard[s], i))
  /\ UNCHANGED <<shard_count, accepts, faults>>

\* The event loop of a shard fails for good.
OwnerExits(s) ==
  /\ Owner(s) /\ Fault
  /\ ShardIs(s, [shard[s] EXCEPT !.reactor = "failed"])
  /\ UNCHANGED <<shard_count, accepts>>

WorkersExit(s) ==
  /\ Of(s) /\ shard[s].workers /\ shard[s].tasks = "stopping"
  /\ \A i \in Slots : shard[s].peers[i].rpc # "busy"
  /\ ShardIs(s, [shard[s] EXCEPT !.workers = FALSE])
  /\ UNCHANGED <<shard_count, accepts, faults>>

\* Time passes for the leases; what is left of an expired one stays 0.
Sooner(t) == IF t \in 1 .. HandshakeTimeout THEN t - 1 ELSE t

Tick ==
  /\ \E s \in Shards : /\ shard[s].reactor = "running"
                       /\ shard[s].lease # Disarmed \/ Pending(shard[s]) # {}
  /\ shard' = [s \in Shards |->
                 [shard[s] EXCEPT !.lease = Sooner(@),
                    !.peers = [i \in Slots |-> [@[i] EXCEPT !.deadline = Sooner(@)]]]]
  /\ UNCHANGED <<shard_count, server, accepts, faults>>

-----------------------------------------------------------------------------
(* The control thread                                                      *)

At(pc) == server.pc = pc
Here == server.id
Step(changed) == server' = changed /\ UNCHANGED <<shard_count, accepts>>

\* One step of a loop over the shards: from pc on shard id to pc on the next
\* one, or to the first step of what follows.
Onward(v, pc) ==
  IF v.id < shard_count THEN [v EXCEPT !.id = @ + 1] ELSE [v EXCEPT !.pc = pc, !.id = 1]

\* The shard changes and the control thread goes on.
Both(s, x, v) ==
  /\ shard' = [shard EXCEPT ![s] = x]
  /\ server' = [v EXCEPT !.bytes = (@ + x.bytes) - shard[s].bytes]
  /\ UNCHANGED <<shard_count, accepts>>

All(f) ==
  /\ shard' = f
  /\ UNCHANGED <<shard_count, accepts>>

TotalBytes(f) == MapThenSumSet(LAMBDA s : f[s].bytes, Shards)

\* tr_runtime_create for every shard of the server: peer storage, eventfd and
\* reactor, or nothing when one of them fails.
tr_runtime_create ==
  [s \in Shards |-> IF Of(s) THEN [NoShard EXCEPT !.reactor = "idle", !.storage = TRUE,
                                                  !.bytes = 2] ELSE NoShard]

\* What tr_server_create_internal has made when it has reached the n-th pool
\* and, last of all, the method table.
Made(n, methods) ==
  [s \in Shards |->
     LET x == tr_runtime_create[s]
         pool == s <= n
     IN  [x EXCEPT !.pool = pool,
                   !.bytes = @ + (IF pool THEN 1 ELSE 0)
                               + (IF methods /\ s = 1 THEN 1 ELSE 0)]]

Destroying(v) == [v EXCEPT !.pc = "stop", !.why = "destroy", !.id = shard_count,
                           !.final = "OK", !.result = "OK", !.published = FALSE]

\* The server is published when all of it is there; otherwise
\* tr_server_destroy takes down what was made.
tr_server_create_internal ==
  LET new == [server EXCEPT !.cond = TRUE, !.runtime = TRUE]
  IN  /\ At("none")
      /\ \/ /\ Fault
            /\ \E n \in 0 .. shard_count, methods \in BOOLEAN :
                 /\ methods => n = shard_count
                 /\ All(Made(n, methods))
                 /\ server' = [Destroying(new) EXCEPT !.methods = methods,
                                  !.bytes = TotalBytes(Made(n, methods))]
         \/ /\ Fault /\ All(shard)
            /\ \E cond \in BOOLEAN :
                 server' = [Destroying(new) EXCEPT !.cond = cond, !.runtime = FALSE]
         \/ /\ NoFault /\ All(Made(shard_count, TRUE))
            /\ server' = [new EXCEPT !.pc = "idle", !.published = TRUE, !.methods = TRUE,
                                     !.bytes = TotalBytes(Made(shard_count, TRUE))]

\* Every shard listens on the port, or none.
tr_server_listen ==
  /\ At("idle") /\ server.published /\ ~server.started
  /\ \A i \in Ids : ~shard[i].listen
  /\ \/ /\ NoFault
        /\ All([s \in Shards |-> [shard[s] EXCEPT !.listen = Of(s)]])
        /\ server' = [server EXCEPT !.result = "OK"]
     \/ Fault /\ All(shard) /\ server' = [server EXCEPT !.result = "ERR"]

\* tr_runtime_start: every reactor runs, or those started are stopped again.
tr_server_start ==
  LET v == [server EXCEPT !.attempted = TRUE]
  IN  /\ At("idle") /\ server.published /\ ~server.attempted /\ ~server.started
      /\ \A i \in Ids : shard[i].listen
      /\ \/ /\ NoFault
            /\ All([s \in Shards |-> IF Of(s) THEN [shard[s] EXCEPT !.reactor = "running"]
                                     ELSE shard[s]])
            /\ server' = [v EXCEPT !.pc = "start_record", !.id = 1]
         \/ /\ Fault /\ All(shard)
            /\ server' = Returns([v EXCEPT !.published = FALSE], "ERR")

RollBack(v) == [Destroying(v) EXCEPT !.why = "start"]

\* The domain of the producers, the executor and its workers, the timer; a
\* failure leaves what is there to the rollback.
tr_server_record_start_on_owner(x, reached) ==
  [x EXCEPT !.producers = reached >= 1, !.tasks = CASE reached = 0 -> "none"
              [] reached = 1 -> "none" [] reached = 2 -> "new"
              [] reached = 3 -> "stopping" [] OTHER -> "open",
            !.workers = reached >= 3, !.cleanup_timer = reached >= 5,
            !.cleanup = reached = 6,
            !.bytes = @ + Min({reached, 2})]

StartRecord ==
  LET x == shard[Here]
  IN  /\ At("start_record")
      /\ \/ /\ x.reactor # "running" /\ NoFault
            /\ Both(Here, x, RollBack(server))
         \/ /\ x.reactor = "running" /\ NoFault
            /\ Both(Here, tr_server_record_start_on_owner(x, 6),
                    Onward(server, "start_events"))
         \/ /\ x.reactor = "running" /\ Fault
            /\ \E reached \in 0 .. 5 :
                 Both(Here, tr_server_record_start_on_owner(x, reached), RollBack(server))

\* Peer events, then listener events, of one shard after the other: the first
\* shards accept while the last ones are still being opened.
StartEvents ==
  LET x == shard[Here]
  IN  /\ At("start_events")
      /\ \/ /\ (x.reactor # "running" /\ NoFault) \/ Fault
            /\ Both(Here, x, RollBack(server))
         \/ /\ x.reactor = "running" /\ NoFault
            /\ Both(Here, [x EXCEPT !.events = TRUE], [server EXCEPT !.pc = "start_listener"])

StartListener ==
  LET x == shard[Here]
      next == Onward([server EXCEPT !.pc = "start_events"], "idle")
  IN  /\ At("start_listener")
      /\ \/ /\ (x.reactor # "running" /\ NoFault) \/ Fault
            /\ Both(Here, x, RollBack(server))
         \/ /\ x.reactor = "running" /\ NoFault
            /\ Both(Here, [x EXCEPT !.listening = TRUE],
                    IF next.pc = "idle" THEN Returns([next EXCEPT !.started = TRUE], "OK")
                    ELSE next)

-----------------------------------------------------------------------------
(* Drain                                                                   *)

\* (The application drains a server it has not begun to destroy.)
tr_server_drain ==
  /\ At("idle") /\ server.started /\ server.published /\ server.drains < MaxDrains
  /\ NoFault
  /\ Step([server EXCEPT !.pc = "accept", !.why = "drain", !.id = 1, !.final = "OK", !.result = "OK",
                         !.drains = @ + 1])
  /\ UNCHANGED shard

\* A call on the owner of this shard, or on this thread when the owner has been
\* joined: x, and on to v.  The operation returns when the owner is gone and
\* not joined, and for a fault.
OwnerCall(x, v) ==
  \/ /\ shard[Here].reactor \in {"running", "idle"} /\ NoFault /\ Both(Here, x, v)
  \/ /\ shard[Here].reactor = "failed" /\ NoFault
     /\ Both(Here, shard[Here], Returns(server, "CLOSED"))
  \/ Fault /\ Both(Here, shard[Here], Returns(server, "ERR"))

Skip(v) == NoFault /\ Both(Here, shard[Here], v)

\* tr_server_stop_accepting, one listener at a time, for drain and for destroy.
tr_server_stop_accepting ==
  LET x == [shard[Here] EXCEPT !.listening = FALSE, !.listen = FALSE]
      next == Onward(server, IF server.why = "destroy" THEN "lease" ELSE "pause")
  IN  /\ At("accept")
      /\ IF shard[Here].listening THEN OwnerCall(x, next)
         ELSE NoFault /\ Both(Here, x, next)

\* tr_server_disable_peer_events: pause the cleanup, unregister its timer and
\* the events, in three calls.
PauseCleanup ==
  LET x == shard[Here]
      next == [server EXCEPT !.pc = "cleanup_timer"]
  IN  /\ At("pause")
      /\ IF x.cleanup \/ x.cleanup_timer
           THEN OwnerCall([x EXCEPT !.cleanup = FALSE], next) ELSE Skip(next)

UnregisterCleanup ==
  LET x == shard[Here]
      next == [server EXCEPT !.pc = "events"]
  IN  /\ At("cleanup_timer")
      /\ IF x.cleanup_timer
           THEN OwnerCall([x EXCEPT !.cleanup_timer = FALSE], next) ELSE Skip(next)

UnregisterEvents ==
  LET x == shard[Here]
      next == IF server.why = "destroy"
                THEN Onward([server EXCEPT !.pc = "lease"], "reap")
                ELSE Onward([server EXCEPT !.pc = "pause"], "drain_begin")
  IN  /\ At("events")
      /\ IF x.events THEN OwnerCall([x EXCEPT !.events = FALSE], next) ELSE Skip(next)

\* tr_channel_begin_drain of every peer of a shard; an error is remembered and
\* the others go on.  (The calls of one shard are taken as one step.)
DrainBegin ==
  LET x == shard[Here]
      next == Onward(server, "drain_watch")
      failed == [next EXCEPT !.final = "ERR"]
      begun(bad) == [x EXCEPT !.peers = [i \in Slots |->
                       IF @[i].used /\ @[i].channel = "open" /\ i \notin bad
                         THEN [@[i] EXCEPT !.channel = "draining"] ELSE @[i]]]
      used == {i \in Slots : x.peers[i].used}
  IN  /\ At("drain_begin")
      /\ \/ x.reactor = "running" /\ NoFault /\ Both(Here, begun({}), next)
         \/ /\ x.reactor = "running" /\ Fault
            /\ \E i \in used : Both(Here, begun({i}), failed)
         \/ /\ x.reactor # "running" /\ NoFault
            /\ Both(Here, x, IF used = {} THEN next ELSE failed)

tr_server_record_watch_drain_on_owner ==
  /\ At("drain_watch")
  /\ OwnerCall(tr_server_record_progress([shard[Here] EXCEPT !.observing = TRUE]),
               Onward(server, "drain_wait"))

\* Mutant: only the channels are waited for.
WaitWithoutEndpoints ==
  /\ At("drain_wait") /\ NoFault /\ UNCHANGED shard
  /\ Step([server EXCEPT !.pc = "drain_channels", !.id = 1])

\* The wait for the endpoints ends when every shard has published it, or with
\* its deadline.
tr_server_record_wait_drained ==
  /\ At("drain_wait") /\ NoFault /\ UNCHANGED shard
  /\ \/ /\ \A i \in Ids : shard[i].drained
        /\ Step([server EXCEPT !.pc = "drain_channels", !.id = 1])
     \/ /\ \E i \in Ids : ~shard[i].drained
        /\ Step(Returns(server, "AGAIN"))

ChannelDrained(p) ==
  p.streams = 0 /\ (p.channel = "answered" \/ (p.channel = "draining" /\ p.conn = "down"))

\* Then the channels of every peer, shard by shard, until the deadline.
DrainChannels ==
  LET x == shard[Here]
      waiting == {i \in Slots : x.peers[i].used /\ ~ChannelDrained(x.peers[i])}
      ended(v) == IF v.id < shard_count THEN [v EXCEPT !.id = @ + 1]
                  ELSE Returns([v EXCEPT !.graceful = @ \/ v.final = "OK"], v.final)
  IN  /\ At("drain_channels") /\ NoFault /\ UNCHANGED shard
      /\ \/ waiting = {} /\ Step(ended(server))
         \/ /\ waiting # {}
            /\ Step(ended([server EXCEPT !.final = IF @ = "OK" THEN "AGAIN" ELSE @]))
         \/ /\ \E i \in Slots : x.peers[i].used
            /\ Step(Returns(server, "TIMEOUT"))

-----------------------------------------------------------------------------
(* Destroy, and the rollback of start                                      *)

tr_server_destroy ==
  /\ At("idle") /\ NoFault /\ UNCHANGED shard
  /\ Step(Destroying(server))

\* tr_runtime_stop: the owners end one after the other, from the last shard on.
\* One that cannot be joined does not keep the others from being stopped.
tr_runtime_stop ==
  LET x == shard[Here]
      next(v) == IF v.id > 1 THEN [v EXCEPT !.id = @ - 1]
                 ELSE IF v.final # "OK" THEN Returns(v, v.final)
                 ELSE [v EXCEPT !.pc = IF v.why = "start" THEN "unbind" ELSE "accept",
                                !.started = FALSE]
  IN  /\ At("stop")
      /\ \/ /\ NoFault
            /\ Both(Here, [x EXCEPT !.reactor = IF @ = "none" THEN @ ELSE "idle"],
                    next(server))
         \/ /\ x.reactor \in {"running", "failed"} /\ Fault
            /\ Both(Here, [x EXCEPT !.reactor = "failed"],
                    next([server EXCEPT !.final = "ERR"]))

\* The rollback of start unregisters listener and events of every shard, and
\* goes on when one of these fails.
Unbind ==
  LET x == shard[Here]
      next == Onward(server, "reap")
      listener == [x EXCEPT !.listening = FALSE]
      paused == [listener EXCEPT !.cleanup = FALSE, !.cleanup_timer = FALSE]
  IN  /\ At("unbind")
      /\ \/ NoFault /\ Both(Here, [paused EXCEPT !.events = FALSE], next)
         \/ x.listening /\ Fault /\ Both(Here, [paused EXCEPT !.listening = TRUE,
                                                              !.events = FALSE], next)
         \/ x.events /\ Fault /\ Both(Here, paused, next)

\* The timer of the handshakes goes before the events of its shard.
UnregisterLease ==
  /\ At("lease")
  /\ \/ /\ NoFault
        /\ Both(Here, [shard[Here] EXCEPT !.lease_timer = FALSE, !.lease = Disarmed],
                [server EXCEPT !.pc = "pause"])
     \/ /\ shard[Here].lease_timer /\ Fault
        /\ Both(Here, shard[Here], Returns(server, "ERR"))

\* tr_server_record_reap_shard: every endpoint enters the cleanup, and is freed
\* when nothing of it is outstanding; the executor is stopped, and joined when
\* its workers are gone; completions are delivered, up to the limit; then the
\* remaining endpoints are freed, and the executor after them.  ret is AGAIN or
\* an error when it has to be called again.
FreeIdle(x) ==
  WithPeers(x, [i \in Slots |-> IF x.peers[i].rpc = "idle"
                                  THEN [x.peers[i] EXCEPT !.rpc = "none"] ELSE x.peers[i]])

Completions(x) == {i \in Slots : x.peers[i].rpc = "done"}

Deliver(x, D) ==
  [x EXCEPT !.peers = [i \in Slots |-> IF i \in D THEN [@[i] EXCEPT !.rpc = "idle"] ELSE @[i]]]

FreeTasks(x, fails) ==
  IF fails THEN [x |-> x, ret |-> "ERR"]
  ELSE [x |-> [x EXCEPT !.tasks = "none", !.bytes = @ - 1], ret |-> "OK"]

tr_server_record_reap_shard(x, fails) ==
  LET first == FreeIdle(x)
      first_completions == {i \in Completions(x) :
                              Cardinality({j \in Completions(x) : j <= i}) <= CompletionLimit}
      delivered == Deliver([first EXCEPT !.tasks = "joined"], first_completions)
  IN  IF x.tasks = "retiring" THEN FreeTasks(x, fails)
      ELSE IF x.tasks = "none" THEN [x |-> first, ret |-> "OK"]
      ELSE IF x.workers THEN [x |-> [first EXCEPT !.tasks = "stopping"], ret |-> "AGAIN"]
      ELSE IF Completions(delivered) # {} THEN [x |-> delivered, ret |-> "AGAIN"]
      ELSE FreeTasks([FreeIdle(delivered) EXCEPT !.tasks = "retiring"], fails)

\* tr_server_record_reap_all; the rollback of start ends here with an error.
Reap ==
  LET reaped(bad) == [s \in Shards |->
                        IF Of(s) THEN tr_server_record_reap_shard(shard[s], s \in bad)
                        ELSE [x |-> shard[s], ret |-> "OK"]]
      after(bad) == [s \in Shards |-> reaped(bad)[s].x]
      worst(bad) == LET R == {reaped(bad)[s].ret : s \in Shards}
                    IN  IF "ERR" \in R THEN "ERR" ELSE IF "AGAIN" \in R THEN "AGAIN" ELSE "OK"
      goes(bad) == [IF server.why = "start"
                      THEN Returns(server, IF worst(bad) = "OK" THEN "ERR" ELSE worst(bad))
                    ELSE IF worst(bad) = "OK" THEN [server EXCEPT !.pc = "destroy_peers", !.id = 1]
                    ELSE Returns(server, worst(bad)) EXCEPT !.bytes = TotalBytes(after(bad))]
  IN  /\ At("reap")
      /\ \/ NoFault /\ All(after({})) /\ server' = goes({})
         \/ \E s \in Ids : /\ shard[s].tasks # "none" /\ ~shard[s].workers
                           /\ Fault /\ All(after({s})) /\ server' = goes({s})

\* tr_server_destroy_peer for every peer of a shard, until a channel cannot be
\* destroyed; an endpoint that is still there is an error.
DestroyPeers ==
  LET x == shard[Here]
      cleared(n) == [i \in Slots |-> IF i < n THEN NoPeer ELSE x.peers[i]]
      without(n) == [WithPeers(x, cleared(n)) EXCEPT !.count = x.count]
      rpc == {i \in Slots : x.peers[i].rpc # "none"}
  IN  /\ At("destroy_peers")
      /\ \/ /\ NoFault
            /\ Both(Here, without(Min(rpc \cup {MaxPeers + 1})),
                    IF rpc = {} THEN Onward(server, "release") ELSE Returns(server, "STATE"))
         \/ \E i \in Slots : /\ x.peers[i].channel # "none" /\ Fault
                             /\ \A j \in rpc : i < j
                             /\ Both(Here, without(i), Returns(server, "ERR"))

\* Producer domains, reassembly pools and the method table give their charge
\* back before the runtime, which owns the budgets, goes.
Released(s) ==
  LET x == shard[s]
      methods == IF server.methods /\ 1 = s THEN 1 ELSE 0
  IN  [x EXCEPT !.producers = FALSE, !.pool = FALSE,
                !.bytes = @ - (methods + (IF x.producers THEN 1 ELSE 0)
                                       + (IF x.pool THEN 1 ELSE 0))]

Release ==
  LET after == [s \in Shards |-> IF Of(s) THEN Released(s) ELSE shard[s]]
      v == [server EXCEPT !.methods = FALSE, !.bytes = TotalBytes(after)]
  IN  /\ At("release") /\ All(after)
      /\ \/ NoFault /\ server' = [v EXCEPT !.cond = FALSE, !.pc = "destroy_runtime"]
         \/ server.cond /\ Fault /\ server' = Returns(v, "ERR")

\* tr_runtime_shard_release of every shard; a shard that is still charged keeps
\* the runtime alive.
tr_runtime_shard_release(x) ==
  [x EXCEPT !.reactor = "none", !.storage = FALSE, !.listen = FALSE, !.signal = FALSE,
            !.bytes = @ - ((IF x.reactor = "none" THEN 0 ELSE 1)
                            + (IF x.storage THEN 1 ELSE 0))]

tr_runtime_destroy ==
  LET after == [s \in Shards |-> IF Of(s) THEN tr_runtime_shard_release(shard[s])
                                 ELSE shard[s]]
      v == [server EXCEPT !.bytes = TotalBytes(after)]
  IN  /\ At("destroy_runtime") /\ NoFault /\ All(after)
      /\ server' = IF v.bytes = 0
                     THEN [v EXCEPT !.pc = "freed", !.id = 0, !.why = "none", !.runtime = FALSE]
                     ELSE Returns(v, "STATE")

-----------------------------------------------------------------------------
Peers ==
  \E s \in Shards :
    \/ tr_server_adopt_peer(s)
    \/ tr_server_handshake_timer_main(s)
    \/ tr_server_on_peer_lifecycle_event(s)
    \/ tr_server_record_cleanup_tick(s)
    \/ OwnerExits(s)
    \/ WorkersExit(s)
    \/ \E i \in Slots :
         \/ tr_server_on_channel_lifecycle(s, i)
         \/ CallBegins(s, i)
         \/ WorkEnds(s, i)
         \/ EndpointPump(s, i)
         \/ StreamEnds(s, i)
         \/ GoawayExchanged(s, i)
         \/ ConnectionLost(s, i)

Control ==
  \/ tr_server_create_internal
  \/ tr_server_listen
  \/ tr_server_start
  \/ StartRecord
  \/ StartEvents
  \/ StartListener
  \/ tr_server_drain
  \/ tr_server_stop_accepting
  \/ PauseCleanup
  \/ UnregisterCleanup
  \/ UnregisterEvents
  \/ DrainBegin
  \/ tr_server_record_watch_drain_on_owner
  \/ tr_server_record_wait_drained
  \/ DrainChannels
  \/ tr_server_destroy
  \/ tr_runtime_stop
  \/ Unbind
  \/ UnregisterLease
  \/ Reap
  \/ DestroyPeers
  \/ Release
  \/ tr_runtime_destroy

ServerEnded == At("freed") /\ UNCHANGED serverVars

ServerNext == Peers \/ Control \/ Tick \/ ServerEnded

\* Timers and events of a running owner are served, methods return, and the
\* control thread finishes what it has begun; an application that has begun to
\* destroy the server, or whose start failed, goes on calling tr_server_destroy.
ServerFairness ==
  /\ WF_serverVars((At("idle") => ~server.published) /\ Control)
  /\ \A s \in Shards :
       /\ WF_serverVars(tr_server_handshake_timer_main(s))
       /\ WF_serverVars(tr_server_record_cleanup_tick(s))
       /\ WF_serverVars(WorkersExit(s))
       /\ \A i \in Slots : /\ WF_serverVars(WorkEnds(s, i))
                            /\ WF_serverVars(EndpointPump(s, i))

ServerSpec == ServerInit /\ [][ServerNext]_serverVars /\ ServerFairness

-----------------------------------------------------------------------------
(* Properties                                                              *)

ServerTypeOK ==
  /\ shard_count \in Shards /\ accepts \in 0 .. MaxAccepts /\ faults \in 0 .. MaxFaults
  /\ \A s \in Shards : /\ shard[s].count \in 0 .. MaxPeers
                        /\ shard[s].lease \in 0 .. Disarmed
                        /\ DOMAIN shard[s].peers = Slots

\* What the live objects of a shard have charged to its budget.
ChargedBy(s) ==
  LET x == shard[s]
      one(b) == IF b THEN 1 ELSE 0
  IN  one(x.reactor # "none") + one(x.storage) + one(x.pool) + one(x.producers)
        + one(x.tasks # "none") + one(s = 1 /\ server.methods) + Charges(x.peers)

\* The shards are consistent whatever has failed half-way and been tried again:
\* peer_count counts the slots in use, and a free slot holds nothing of its last
\* peer; a peer that has not said HELLO is watched by a timer armed for its
\* lease or earlier; an endpoint has the executor and the producers it was made
\* with, and work has workers; nothing is registered with a reactor that is
\* gone; the budgets hold what the live objects charged, so that destroy never
\* ends on a charge or an endpoint that is left, and leaves nothing.
ServerSound ==
  /\ ServerTypeOK
  /\ \A s \in Shards :
       LET x == shard[s]
       IN  /\ Owner(s) => x.count = Cardinality({i \in Slots : x.peers[i].used})
           /\ \A i \in Slots : ~x.peers[i].used => x.peers[i] = NoPeer
           /\ Owner(s) => \A i \in Pending(x) : x.lease_timer /\ x.lease <= x.peers[i].deadline
           /\ \A i \in Slots :
                /\ x.peers[i].rpc # "none" => x.producers /\ x.tasks \notin {"none", "new"}
                /\ x.peers[i].rpc = "busy" => x.workers
           /\ x.workers => x.tasks # "none"
           /\ x.listening \/ x.events \/ x.lease_timer \/ x.cleanup_timer => x.reactor # "none"
           /\ x.bytes = ChargedBy(s)
  /\ server.bytes = TotalBytes(shard)
  /\ server.result # "STATE"
  /\ At("freed") => server.bytes = 0 /\ \A s \in Shards : ~shard[s].workers

\* From the moment the events of all shards are off, a drain looks at a peer
\* table that does not change under it; and a drain that returned OK has waited
\* for everything: no call, stream or completion of any peer is left or comes
\* back, also when a RESET had ended the stream of a method still running.
DrainHonest ==
  [][/\ server.pc \in {"drain_begin", "drain_watch", "drain_wait", "drain_channels"} =>
          \A s \in Shards, i \in Slots :
             /\ shard'[s].peers[i].used = shard[s].peers[i].used
             /\ shard'[s].peers[i].rpc = "none" <=> shard[s].peers[i].rpc = "none"
     /\ server'.graceful =>
          \A s \in Shards, i \in Slots :
             shard'[s].peers[i].rpc \in {"none", "idle"} /\ shard'[s].peers[i].streams = 0
    ]_serverVars

\* While the server runs, a peer whose connection is gone frees its slot and a
\* peer that says no HELLO is dropped; a server being destroyed is freed, with
\* workers that take their time and steps that fail along the way.
ServerSettles ==
  /\ \A s \in Shards, i \in Slots :
       /\ []<>~(/\ Owner(s) /\ shard[s].cleanup_timer /\ shard[s].cleanup
                /\ tr_server_peer_disconnected(shard[s].peers[i]))
       /\ []<>~(Owner(s) /\ i \in Pending(shard[s]) /\ shard[s].peers[i].deadline = 0)
  /\ []<>(server.pc \in {"none", "freed"} \/ server.published)

=============================================================================
