---------------------------- MODULE LinkChannel ----------------------------
(***************************************************************************)
(* What a channel does about its connections                               *)
(* (src/src/transport/channel/channel.c): the HELLO handshake, keepalive   *)
(* probes, the way down of a lane, automatic reconnect with one timer and  *)
(* one connector, replacement of a connection, and the GOAWAY that ends    *)
(* them.  Streams are the subject of module Channel; here there are none,  *)
(* so a GOAWAY always carries boundary 0 and no stream delays a drain.     *)
(*                                                                         *)
(* An operator is what one callback does on the owner reactor: it maps     *)
(* s = [ch, net, bad], the channel, the connections and what fails in this *)
(* turn, to the state after it.  Both protocol versions of a               *)
(* configuration must be the only one there is, so versions are left out.  *)
(***************************************************************************)
EXTENDS Connector, FiniteSets, Sequences, FiniteSetsExt

CONSTANTS Conns,      \* connections; each is one TCP connection with two ends
          PingIds,    \* keepalive_next_ping_id wraps after PingIds
          AttemptCap  \* a reconnect attempt counter saturates here

Lanes == {"CONTROL", "BULK"}
Ends == {"CLIENT", "SERVER"}
Peer(end) == IF end = "CLIENT" THEN "SERVER" ELSE "CLIENT"
Both(value) == [l \in Lanes |-> value]

NoCaps == [frame |-> 0, message |-> 0, features |-> {}]
NoProbe == [id |-> 0, due |-> FALSE]
NoDrain == [local |-> FALSE, peer |-> FALSE, goaway |-> FALSE]
AllDrained == [local |-> TRUE, peer |-> TRUE, goaway |-> TRUE]
NoHello == [connection |-> NoFd, frame |-> [type |-> "NONE"]]

\* One end of a connection: its socket, whether the channel's handler is
\* installed, the frames on their way to it, a CLOSE or ABORT command that is
\* queued for it ("no" without one), and two facts of its statistics: nothing
\* was received for a keepalive interval; something was received after the
\* latest PING.
FreeEnd == [socket |-> "free", handler |-> FALSE, inbox |-> <<>>, doomed |-> "no",
            silent |-> FALSE, heard |-> TRUE]
OpenEnd == [FreeEnd EXCEPT !.socket = "open"]

tr_channel_create_common(role, split, limits, connection) ==
  [role |-> role, split |-> split, limits |-> limits, life |-> "new",
   connection |-> connection, alive |-> Both(TRUE), ready |-> Both(FALSE), caps |-> Both(NoCaps),
   handshake_started |-> FALSE, pending_hello |-> Both(NoHello),
   local_draining |-> FALSE, peer_draining |-> Both(FALSE), drain |-> Both(NoDrain),
   keepalive_enabled |-> FALSE, keepalive_timer |-> "none", keepalive_due |-> FALSE,
   retry_scheduled |-> FALSE, probe |-> Both(NoProbe), next_ping_id |-> 0,
   reconnect_enabled |-> FALSE, reconnect_lane |-> "CONTROL", reconnecting |-> Both(FALSE),
   attempt |-> Both(0), reconnect_timer |-> "none", has_connector |-> FALSE,
   connector |-> Quiet, reconnect_failed |-> FALSE,
   state_wait_closed |-> FALSE, waiter |-> "idle", protocol_errors |-> {}]

-----------------------------------------------------------------------------
(* Which connection carries which lane. *)

tr_channel_connection_lane_mask_locked(x, c) == {l \in Lanes : x.connection[l] = c}

\* The entry of drain, probe and pending_hello a connection uses.
tr_channel_keepalive_index_for_connection(x, c) ==
  IF x.connection["CONTROL"] = c THEN "CONTROL" ELSE "BULK"

tr_channel_connection_alive_locked(x, c) ==
  \E l \in tr_channel_connection_lane_mask_locked(x, c) : x.alive[l]

tr_channel_connection_ready_locked(x, c) ==
  LET mask == tr_channel_connection_lane_mask_locked(x, c)
  IN  mask # {} /\ \A l \in mask : x.ready[l]

tr_channel_lane_alive(x, lane) == x.alive[lane] /\ x.ready[lane]

tr_channel_get_lane_state(x, lane) ==
  CASE tr_channel_lane_alive(x, lane) -> "UP"
    [] x.alive[lane] /\ ~x.ready[lane] -> "HANDSHAKING"
    [] ~x.alive[lane] /\ x.reconnecting[lane] -> "RECONNECTING"
    [] OTHER -> "DOWN"

tr_channel_connection_idle_locked(x, c) ==
  /\ tr_channel_connection_lane_mask_locked(x, c) # {}
  /\ LET d == x.drain[tr_channel_keepalive_index_for_connection(x, c)] IN d.local /\ d.peer

\* Lanes on one connection are looked at once, as CONTROL.
PhysicalLanes(x) == IF x.connection["BULK"] = x.connection["CONTROL"] THEN {"CONTROL"} ELSE Lanes

AliveLanes(x) ==
  {l \in PhysicalLanes(x) : tr_channel_connection_alive_locked(x, x.connection[l])}

tr_channel_drained_locked(x) ==
  x.local_draining /\ \A l \in AliveLanes(x) : x.drain[l] = AllDrained

tr_channel_keepalive_needed_locked(x) ==
  /\ x.keepalive_enabled
  /\ \E l \in PhysicalLanes(x) :
       IF l \in AliveLanes(x) THEN ~tr_channel_connection_idle_locked(x, x.connection[l])
       ELSE ~x.local_draining /\ ~x.drain[l].local

Broadcast(x) == [x EXCEPT !.waiter = IF @ = "asleep" THEN "awake" ELSE @]

-----------------------------------------------------------------------------
(* Sending, and closing with its callback. *)

SocketOpen(s, c) == s.net[c][s.ch.role].socket = "open"

\* A frame is lost when the other end is gone or the connection leads nowhere.
Post(s, c, frame) ==
  IF s.net[c][Peer(s.ch.role)].socket = "open" /\ ~s.net[c].dark
  THEN [s EXCEPT !.net[c][Peer(s.ch.role)].inbox = Append(@, frame)]
  ELSE s

\* The GOAWAY of a lane goes out once its handshake is complete; it has a place
\* of its own in the reactor, so it is never refused.
tr_channel_drain_progress_on_owner(s) ==
  LET x == s.ch
      due == {l \in AliveLanes(x) :
                /\ x.drain[l].local /\ ~x.drain[l].goaway
                /\ tr_channel_connection_ready_locked(x, x.connection[l])}
      sent == [s EXCEPT !.ch.drain = [l \in Lanes |-> IF l \in due THEN [@[l] EXCEPT !.goaway = TRUE] ELSE @[l]]]
      told == FoldSet(LAMBDA l, t : Post(t, x.connection[l], [type |-> "GOAWAY"]), sent, due)
  IN  IF tr_channel_drained_locked(told.ch) THEN [told EXCEPT !.ch = Broadcast(@)] ELSE told

-----------------------------------------------------------------------------
(* Automatic reconnect: one attempt at a time, owned by the timer and then by *)
(* the connector.                                                             *)

\* The lane the next attempt is for; after a failed one the other lane's turn.
tr_channel_reconnect_pick_locked(x) ==
  LET wants(l) == ~x.alive[l] /\ ~x.peer_draining[l]
      next == IF x.reconnect_lane = "CONTROL" THEN "BULK" ELSE "CONTROL"
  IN  IF ~x.reconnect_enabled \/ x.local_draining \/ (\E l \in Lanes : x.reconnecting[l]) THEN "NONE"
      ELSE IF ~x.split
           THEN IF (\E l \in Lanes : ~x.alive[l]) /\ (\A l \in Lanes : ~x.peer_draining[l])
                THEN "CONTROL" ELSE "NONE"
      ELSE IF x.attempt[x.reconnect_lane] # 0 /\ wants(next) THEN next
      ELSE IF wants("CONTROL") THEN "CONTROL"
      ELSE IF wants("BULK") THEN "BULK" ELSE "NONE"

\* The lanes an attempt for a lane is for.
Attempted(x, lane) == IF x.split THEN {lane} ELSE Lanes

tr_channel_lane_still_down_locked(x, lane) == \E l \in Attempted(x, lane) : ~x.alive[l]

tr_channel_reconnect_attempt_active_locked(x, lane) ==
  \A l \in Attempted(x, lane) : x.reconnecting[l]

Valid(x) ==
  /\ x.reconnect_enabled
  /\ tr_channel_reconnect_attempt_active_locked(x, x.reconnect_lane)
  /\ tr_channel_lane_still_down_locked(x, x.reconnect_lane)

WithLanes(f, lanes, value) == [l \in DOMAIN f |-> IF l \in lanes THEN value ELSE f[l]]

tr_channel_reconnect_clear_attempt_locked(x, lane) ==
  [x EXCEPT !.reconnecting = WithLanes(@, Attempted(x, lane), FALSE)]

\* Mutant: a failed attempt stays the current one.
FinishKeepsAttempt(x, lane, success) ==
  IF success THEN tr_channel_reconnect_clear_attempt_locked(x, lane) ELSE x

\* A lane that came up meanwhile does not count the failure.
tr_channel_reconnect_finish_attempt(x, lane, success) ==
  LET next == IF x.attempt[lane] = AttemptCap THEN AttemptCap ELSE x.attempt[lane] + 1
      cleared == tr_channel_reconnect_clear_attempt_locked(x, lane)
  IN  IF success THEN [cleared EXCEPT !.attempt = WithLanes(@, Attempted(x, lane), 0)]
      ELSE IF tr_channel_lane_still_down_locked(x, lane)
           THEN [cleared EXCEPT !.attempt = WithLanes(@, Attempted(x, lane), next)]
      ELSE cleared

\* Without a timer nothing would drive the attempt: reconnect is given up.
tr_channel_reconnect_schedule_on_owner(s) ==
  LET lane == tr_channel_reconnect_pick_locked(s.ch)
      begun == [s.ch EXCEPT !.reconnecting = WithLanes(@, Attempted(s.ch, lane), TRUE),
                            !.reconnect_lane = lane]
  IN  IF lane = "NONE" THEN s
      ELSE IF "arm" \in s.bad
           THEN [s EXCEPT !.ch = [tr_channel_reconnect_finish_attempt(begun, lane, FALSE)
                                    EXCEPT !.reconnect_enabled = FALSE, !.reconnect_failed = TRUE]]
      ELSE [s EXCEPT !.ch = [begun EXCEPT !.reconnect_timer = "armed"]]

-----------------------------------------------------------------------------
(* The end of a connection. *)

\* Mutant: the probe's deadline is cleared, the probe itself is not.
ResetKeepsProbe(x, lane) == [x EXCEPT !.probe[lane].due = FALSE]

tr_channel_keepalive_reset_locked(x, lane) == [x EXCEPT !.probe[lane] = NoProbe]

\* Only the current connection of a lane takes it down.
tr_channel_on_connection_event(s, c) ==
  LET x == s.ch
      down == {l \in Lanes : x.connection[l] = c /\ x.alive[l]}
      unprobed == FoldSet(LAMBDA l, y : tr_channel_keepalive_reset_locked(y, l), x, down)
      lost == [unprobed EXCEPT !.alive = WithLanes(@, down, FALSE), !.ready = WithLanes(@, down, FALSE),
                               !.caps = WithLanes(@, down, NoCaps),
                               !.reconnecting = WithLanes(@, down, FALSE),
                               !.pending_hello = [l \in Lanes |-> IF @[l].connection = c THEN NoHello ELSE @[l]]]
  IN  IF down = {} THEN s
      ELSE tr_channel_reconnect_schedule_on_owner(
             tr_channel_drain_progress_on_owner([s EXCEPT !.ch = Broadcast(lost)]))

\* The reactor closes the socket and calls the handler in the same turn.
Close(s, c) ==
  LET shut == [s EXCEPT !.net[c][s.ch.role] = [FreeEnd EXCEPT !.socket = "closed"]]
  IN  IF ~SocketOpen(s, c) THEN s
      ELSE IF s.net[c][s.ch.role].handler THEN tr_channel_on_connection_event(shut, c)
      ELSE shut

tr_channel_protocol_error(s, c, why) == Close([s EXCEPT !.ch.protocol_errors = @ \cup {why}], c)

-----------------------------------------------------------------------------
(* The handshake.  Either end sends a HELLO with what it can receive; a lane is *)
(* up at an end once it has answered the peer's HELLO or got the answer to its  *)
(* own.                                                                         *)

Smaller(m, n) == IF m < n THEN m ELSE n

tr_channel_local_capabilities(x, c) ==
  [lanes |-> tr_channel_connection_lane_mask_locked(x, c), frame |-> x.limits.frame,
   message |-> x.limits.message, features |-> x.limits.features]

Hello(type, caps) == [type |-> type, lanes |-> caps.lanes, frame |-> caps.frame,
                      message |-> caps.message, features |-> caps.features]

\* [ret, s] of a HELLO on a connection.
tr_channel_send_hello(s, c) ==
  LET local == tr_channel_local_capabilities(s.ch, c)
      Fails(ret) == [ret |-> ret, s |-> s]
  IN  IF local.lanes = {} THEN Fails("STATE")
      ELSE IF "hello" \in s.bad THEN Fails("AGAIN")
      ELSE IF ~SocketOpen(s, c) THEN Fails("STALE")
      ELSE [ret |-> "OK", s |-> Post(s, c, Hello("HELLO", local))]

\* A connection the channel knows to be down is no failure of the handshake.
tr_channel_normalize_create_hello_error(s, c, ret) ==
  IF ret = "STALE" /\ ~tr_channel_connection_alive_locked(s.ch, c) THEN "OK" ELSE ret

\* Mutant: nobody is told that the lane is up.
SetCapsSilently(x, lanes, caps) ==
  LET up == {l \in lanes : ~x.ready[l]}
  IN  [x EXCEPT !.ready = WithLanes(@, up, TRUE), !.caps = WithLanes(@, up, caps)]

tr_channel_set_caps_locked(x, lanes, caps) ==
  LET up == {l \in lanes : ~x.ready[l]}
  IN  IF up = {} THEN x
      ELSE Broadcast([x EXCEPT !.ready = WithLanes(@, up, TRUE), !.caps = WithLanes(@, up, caps)])

tr_channel_handle_hello(s, c, frame) ==
  LET x == s.ch
      local == tr_channel_local_capabilities(x, c)
      agreed == [frame |-> Smaller(frame.frame, local.frame), message |-> frame.message,
                 features |-> frame.features \cap local.features]
      ack == Hello("HELLO_ACK", [local EXCEPT !.features = agreed.features])
  IN  IF local.lanes = {} THEN tr_channel_protocol_error(s, c, "STATE")
      ELSE IF frame.lanes # local.lanes \/ ~(x.limits.required \subseteq agreed.features)
           THEN tr_channel_protocol_error(s, c, "UNSUPPORTED")
      ELSE IF x.drain[tr_channel_keepalive_index_for_connection(x, c)].goaway
           THEN tr_channel_protocol_error(s, c, "AFTER_GOAWAY")
      ELSE IF "ack" \in s.bad THEN tr_channel_protocol_error(s, c, "AGAIN")
      ELSE tr_channel_drain_progress_on_owner(
             [Post(s, c, ack) EXCEPT !.ch = tr_channel_set_caps_locked(@, local.lanes, agreed)])

tr_channel_handle_hello_ack(s, c, frame) ==
  LET x == s.ch
      local == tr_channel_local_capabilities(x, c)
      agreed == [frame |-> Smaller(frame.frame, local.frame), message |-> frame.message,
                 features |-> frame.features]
  IN  IF local.lanes = {} THEN tr_channel_protocol_error(s, c, "STATE")
      ELSE IF \/ frame.lanes # local.lanes
              \/ ~(frame.features \subseteq local.features)
              \/ ~(x.limits.required \subseteq frame.features)
           THEN tr_channel_protocol_error(s, c, "UNSUPPORTED")
      ELSE tr_channel_drain_progress_on_owner(
             [s EXCEPT !.ch = tr_channel_set_caps_locked(@, local.lanes, agreed)])

\* Mutant: it is answered at once.
EarlyHelloAnswered(s, c, frame) == tr_channel_handle_hello(s, c, frame)

\* A HELLO that comes before start() is kept, without an answer.
tr_channel_defer_hello_before_start(s, c, frame) ==
  LET x == s.ch
  IN  IF tr_channel_connection_lane_mask_locked(x, c) = {}
      THEN tr_channel_protocol_error(s, c, "STATE")
      ELSE [s EXCEPT !.ch.pending_hello[tr_channel_keepalive_index_for_connection(x, c)] =
                       [connection |-> c, frame |-> frame]]

\* The replay of a kept HELLO by start(), on the owner.
tr_channel_process_pending_hello_on_owner(s, hello) ==
  IF tr_channel_connection_alive_locked(s.ch, hello.connection)
  THEN tr_channel_handle_hello(s, hello.connection, hello.frame) ELSE s

\* The maintenance timer is taken for the drain.
Retrying(x) == [x EXCEPT !.keepalive_timer = "armed", !.retry_scheduled = TRUE]

tr_channel_handle_goaway(s, c) ==
  LET x == s.ch
      i == tr_channel_keepalive_index_for_connection(x, c)
      told == [Retrying(x) EXCEPT !.drain[i] = [@ EXCEPT !.local = TRUE, !.peer = TRUE],
                        !.peer_draining = WithLanes(@, tr_channel_connection_lane_mask_locked(x, c), TRUE)]
  IN  tr_channel_drain_progress_on_owner([s EXCEPT !.ch = IF x.drain[i].peer THEN x ELSE told])

-----------------------------------------------------------------------------
(* Keepalive. *)

\* An idle connection, that is one drained in both directions, is not answered.
HandlePing(s, c, frame) ==
  IF tr_channel_connection_idle_locked(s.ch, c) THEN s
  ELSE IF "pong" \in s.bad THEN [s EXCEPT !.net[c].unanswered = TRUE]
  ELSE Post(s, c, [type |-> "PONG", id |-> frame.id])

HandlePong(s, c, frame) ==
  LET i == tr_channel_keepalive_index_for_connection(s.ch, c)
  IN  IF s.ch.probe[i].id = frame.id THEN [s EXCEPT !.ch = tr_channel_keepalive_reset_locked(@, i)]
      ELSE s

\* One look at a lane: the end of a probe that has been out for the timeout, or
\* the next probe.  The ABORT is a command, which a full ring refuses; nothing
\* then remembers it but the next probe.
tr_channel_keepalive_check_lane(s, lane) ==
  LET x == s.ch
      c == x.connection[lane]
      probe == x.probe[lane]
      stats == s.net[c][x.role]
      over == [s EXCEPT !.ch = tr_channel_keepalive_reset_locked(@, lane)]
      id == (x.next_ping_id % PingIds) + 1
      asked == [s EXCEPT !.ch.probe[lane] = [id |-> id, due |-> FALSE], !.ch.next_ping_id = id,
                         !.net[c][x.role].heard = FALSE]
  IN  IF \/ ~x.keepalive_enabled \/ tr_channel_connection_idle_locked(x, c)
         \/ lane \notin PhysicalLanes(x) \/ ~tr_channel_lane_alive(x, lane)
         \/ ~SocketOpen(s, c)
      THEN s
      ELSE IF probe.id # 0
           THEN IF ~probe.due THEN s
                ELSE IF stats.heard \/ "full" \in s.bad THEN over
                ELSE [over EXCEPT !.net[c][x.role].doomed = "abort"]
      ELSE IF ~stats.silent THEN s
      ELSE IF "ping" \in s.bad THEN [s EXCEPT !.ch.next_ping_id = id]
      ELSE Post(asked, c, [type |-> "PING", id |-> id])

\* The maintenance timer; with no stream it serves keepalive and drain.
tr_channel_keepalive_timer_main(s) ==
  LET needed == tr_channel_keepalive_needed_locked(s.ch)
      checked == IF needed
                 THEN tr_channel_keepalive_check_lane(tr_channel_keepalive_check_lane(s, "CONTROL"), "BULK")
                 ELSE s
      after == tr_channel_drain_progress_on_owner(checked)
      retry == \E l \in AliveLanes(after.ch) : after.ch.drain[l].local /\ after.ch.drain[l] # AllDrained
  IN  [after EXCEPT !.ch.keepalive_timer = IF tr_channel_keepalive_needed_locked(after.ch) \/ retry
                                           THEN "armed" ELSE "idle",
                    !.ch.keepalive_due = FALSE, !.ch.retry_scheduled = retry]

-----------------------------------------------------------------------------
(* Frames. *)

\* Until its handshake is complete a connection may carry nothing else.
tr_channel_on_frame(s, c, frame) ==
  LET x == s.ch
      handled ==
        CASE frame.type = "HELLO" -> tr_channel_handle_hello(s, c, frame)
          [] frame.type = "HELLO_ACK" -> tr_channel_handle_hello_ack(s, c, frame)
          [] frame.type = "GOAWAY" -> tr_channel_handle_goaway(s, c)
          [] frame.type = "PING" -> HandlePing(s, c, frame)
          [] frame.type = "PONG" -> HandlePong(s, c, frame)
  IN  IF frame.type = "HELLO" /\ ~x.handshake_started THEN tr_channel_defer_hello_before_start(s, c, frame)
      ELSE IF frame.type \notin {"HELLO", "HELLO_ACK"} /\ ~tr_channel_connection_ready_locked(x, c)
           THEN tr_channel_protocol_error(s, c, "STATE")
      ELSE tr_channel_drain_progress_on_owner(handled)

\* The reactor reads the next frame; without a handler it is thrown away.
Receive(s, c) ==
  LET end == s.net[c][s.ch.role]
      read == [s EXCEPT !.net[c][s.ch.role] =
                 [end EXCEPT !.inbox = Tail(@), !.silent = FALSE, !.heard = TRUE]]
  IN  IF end.handler THEN tr_channel_on_frame(read, c, Head(end.inbox)) ELSE read

-----------------------------------------------------------------------------
(* Replacement of a connection, by the application or by reconnect. *)

\* [ret, s] of tr_channel_replace_connection_on_owner.
tr_channel_replace_connection_on_owner(s, lane, c) ==
  LET x == s.ch
      lanes == Attempted(x, lane)
      Fails(ret) == [ret |-> ret, s |-> s]
      attached == [x EXCEPT !.connection = WithLanes(@, lanes, c), !.drain = WithLanes(@, lanes, NoDrain),
                            !.alive = WithLanes(@, lanes, TRUE), !.ready = WithLanes(@, lanes, FALSE),
                            !.caps = WithLanes(@, lanes, NoCaps),
                            !.reconnecting = WithLanes(@, lanes, FALSE),
                            !.attempt = WithLanes(@, lanes, 0)]
  IN  IF ~SocketOpen(s, c) THEN Fails("CLOSED")
      ELSE IF x.local_draining \/ x.peer_draining[lane] THEN Fails("CLOSED")
      ELSE IF \E l \in lanes : x.alive[l] THEN Fails("STATE")
      ELSE [ret |-> "OK", s |-> [s EXCEPT !.ch = attached, !.net[c][x.role].handler = TRUE]]

\* The close after a refused HELLO is a command too.
tr_channel_replace_connection(s, lane, c) ==
  LET r == tr_channel_replace_connection_on_owner(s, lane, c)
      h == tr_channel_send_hello(r.s, c)
  IN  IF r.ret # "OK" THEN r
      ELSE IF h.ret # "OK" THEN [ret |-> h.ret, s |-> [r.s EXCEPT !.net[c][s.ch.role].doomed = "close"]]
      ELSE h

\* The connector's callback.  An attempt that is no longer wanted gives its
\* socket back.
tr_channel_reconnect_connector_complete(s, status, fd) ==
  LET x == s.ch
      lane == x.reconnect_lane
      drop == [s EXCEPT !.net[fd][x.role] = [FreeEnd EXCEPT !.socket = "closed"]]
      adopted == [s EXCEPT !.net[fd][x.role] = OpenEnd]
      r == tr_channel_replace_connection(adopted, lane, fd)
      used == status = "OK" /\ "adopt" \notin s.bad
      tried == IF ~used THEN drop ELSE IF r.ret = "OK" THEN r.s ELSE Close(r.s, fd)
  IN  tr_channel_reconnect_schedule_on_owner(
        IF ~Valid(x) THEN [drop EXCEPT !.ch = tr_channel_reconnect_clear_attempt_locked(@, lane)]
        ELSE [tried EXCEPT !.ch = tr_channel_reconnect_finish_attempt(@, lane, used /\ r.ret = "OK")])

\* The timer is due: the connector starts on socket fd, or cannot.
tr_channel_reconnect_timer_main(s, fd) ==
  LET x == s.ch
      lane == x.reconnect_lane
      cleared == [s EXCEPT !.ch = tr_channel_reconnect_clear_attempt_locked(@, lane)]
      failed == [s EXCEPT !.ch = tr_channel_reconnect_finish_attempt(@, lane, FALSE)]
  IN  IF ~Valid(x) THEN tr_channel_reconnect_schedule_on_owner(cleared)
      ELSE IF x.connector.active \/ "connect" \in s.bad THEN tr_channel_reconnect_schedule_on_owner(failed)
      ELSE [s EXCEPT !.ch.connector = tr_connector_start_on_owner(@, fd),
                     !.net[fd] = [@ EXCEPT !["CLIENT"] = [FreeEnd EXCEPT !.socket = "connecting"],
                                           !.lane = lane]]

\* [ret, s]: scheduling is shut first, then each event source is taken down; one
\* that cannot be stays published and the call can be made again.
tr_channel_disable_client_reconnect_on_owner(s) ==
  LET x == [s.ch EXCEPT !.reconnect_enabled = FALSE]
      untimed == [x EXCEPT !.reconnect_timer = "none"]
      gone == tr_connector_cancel_on_owner(x.connector, "unwatch" \notin s.bad)
      quiet == [untimed EXCEPT !.connector = gone.k, !.has_connector = FALSE,
                               !.reconnecting = Both(FALSE)]
      shut == IF gone.fd = NoFd THEN s
              ELSE [s EXCEPT !.net[gone.fd][x.role] = [FreeEnd EXCEPT !.socket = "closed"]]
  IN  IF x.reconnect_timer # "none" /\ "untime" \in s.bad THEN [ret |-> "SYS", s |-> [s EXCEPT !.ch = x]]
      ELSE IF x.has_connector /\ gone.ret # "OK"
           THEN [ret |-> gone.ret, s |-> [s EXCEPT !.ch = [untimed EXCEPT !.connector = gone.k]]]
      ELSE [ret |-> "OK", s |-> [shut EXCEPT !.ch = quiet]]

\* Mutant: what a failed call left behind is overlooked.
PresentWhenEnabled(x) == x.reconnect_enabled

tr_channel_client_reconnect_present(x) ==
  \/ x.reconnect_enabled \/ x.has_connector \/ x.reconnect_timer # "none"
  \/ \E l \in Lanes : x.reconnecting[l]

tr_channel_enable_client_reconnect_on_owner(s) ==
  LET x == s.ch
      enabled == [x EXCEPT !.has_connector = TRUE, !.connector = Quiet, !.reconnect_timer = "idle",
                           !.reconnect_enabled = TRUE, !.attempt = Both(0),
                           !.reconnecting = Both(FALSE), !.reconnect_lane = "CONTROL"]
      scheduled == tr_channel_reconnect_schedule_on_owner([s EXCEPT !.ch = enabled])
  IN  IF x.local_draining \/ x.reconnect_enabled \/ x.has_connector \/ x.reconnect_timer # "none" THEN s
      ELSE IF scheduled.ch.reconnect_enabled THEN scheduled
      ELSE tr_channel_disable_client_reconnect_on_owner(scheduled).s

-----------------------------------------------------------------------------
(* Drain, and the detachment of a server channel. *)

\* [ret, s]: the lanes drain even when reconnect could not be shut.
tr_channel_begin_drain_on_owner(s) ==
  LET x == s.ch
      begun == [Retrying(x) EXCEPT !.local_draining = TRUE,
                                   !.drain = [l \in Lanes |-> [@[l] EXCEPT !.local = TRUE]]]
      off == tr_channel_disable_client_reconnect_on_owner([s EXCEPT !.ch = begun])
      Returns(ret) == [ret |-> ret, s |-> s]
  IN  IF x.state_wait_closed THEN Returns("CLOSED")
      ELSE IF tr_channel_drained_locked(x) THEN Returns("OK")
      ELSE IF "arm" \in s.bad THEN Returns("SYS")
      ELSE [ret |-> off.ret, s |-> tr_channel_drain_progress_on_owner(off.s)]

Unhandled(s) ==
  [s EXCEPT !.net = [c \in Conns |->
     IF tr_channel_connection_lane_mask_locked(s.ch, c) = {} THEN @[c]
     ELSE [@[c] EXCEPT ![s.ch.role].handler = FALSE]]]

\* Waiters first; then the handlers; then the timer, which may stay.
tr_channel_detach_on_owner(s) ==
  LET x == [s.ch EXCEPT !.state_wait_closed = TRUE]
      quiet == [x EXCEPT !.local_draining = TRUE, !.keepalive_enabled = FALSE, !.probe = Both(NoProbe)]
  IN  IF x.waiter \in {"asleep", "awake"} THEN [s EXCEPT !.ch = Broadcast(x)]
      ELSE IF "untime" \in s.bad THEN Unhandled([s EXCEPT !.ch = quiet])
      ELSE Unhandled([s EXCEPT !.ch = [quiet EXCEPT !.keepalive_timer = "none", !.life = "freed"]])

-----------------------------------------------------------------------------
(* Construction, which is one turn of the owner. *)

Initial(s) == {s.ch.connection[l] : l \in Lanes}

Handled(s, on) ==
  [s EXCEPT !.net = [c \in Conns |-> IF c \in Initial(s) THEN [@[c] EXCEPT ![s.ch.role].handler = on]
                                     ELSE @[c]]]

\* First the handlers, so that the close calls nobody.
tr_channel_rollback(s) ==
  LET off == Handled(s, FALSE)
      shut == FoldSet(LAMBDA c, t : Close(t, c), off, Initial(s))
  IN  [shut EXCEPT !.ch.life = "failed"]

\* [ret, s] of the HELLO of one connection as start() takes it.
StartHello(s, lane) ==
  LET h == tr_channel_send_hello(s, s.ch.connection[lane])
  IN  [ret |-> tr_channel_normalize_create_hello_error(h.s, s.ch.connection[lane], h.ret), s |-> h.s]

\* start() without a HELLO to replay, on the owner.
StartedAtOnce(s) ==
  LET started == [s EXCEPT !.ch.handshake_started = TRUE]
      control == StartHello(started, "CONTROL")
  IN  IF control.ret = "OK" /\ s.ch.split THEN StartHello(control.s, "BULK") ELSE control

tr_channel_create_publish_on_owner(s, deferred) ==
  LET handled == Handled(s, TRUE)
      begun == IF deferred THEN [ret |-> "OK", s |-> handled] ELSE StartedAtOnce(handled)
  IN  IF \E c \in Initial(s) : ~SocketOpen(s, c) THEN [s EXCEPT !.ch.life = "failed"]
      ELSE IF begun.ret # "OK" \/ "timer" \in s.bad THEN tr_channel_rollback(begun.s)
      ELSE [begun.s EXCEPT !.ch.life = "live", !.ch.keepalive_timer = "idle"]

-----------------------------------------------------------------------------
(* Calls of the application. *)

tr_channel_enable_keepalive(s) ==
  IF s.ch.keepalive_enabled \/ s.ch.keepalive_timer = "none" THEN s
  ELSE IF "arm" \in s.bad THEN [s EXCEPT !.ch.probe = Both(NoProbe)]
  ELSE [s EXCEPT !.ch.keepalive_enabled = TRUE, !.ch.probe = Both(NoProbe),
                 !.ch.keepalive_timer = "armed", !.ch.keepalive_due = TRUE]

\* The timer stays armed for a retry.
tr_channel_disarm_keepalive_on_owner(x) ==
  LET closing == [x EXCEPT !.local_draining = @ \/ x.state_wait_closed]
  IN  IF x.keepalive_timer = "none" \/ x.retry_scheduled THEN closing
      ELSE [closing EXCEPT !.keepalive_timer = "idle", !.keepalive_due = FALSE]

tr_channel_disable_keepalive(x) == [x EXCEPT !.keepalive_enabled = FALSE, !.probe = Both(NoProbe)]

Waiting(x) == x.waiter \in {"asleep", "awake"}

tr_channel_close_wait_admission(x) == Broadcast([x EXCEPT !.state_wait_closed = TRUE])

\* A waiter looks at the state, under the lock.
Watched(x, reached) ==
  [x EXCEPT !.waiter = IF reached \/ x.state_wait_closed THEN "done" ELSE "asleep"]

tr_channel_wait_ready_deadline(x, lane) == Watched(x, x.ready[lane])
tr_channel_wait_drained_deadline(x) == Watched(x, tr_channel_drained_locked(x))
=============================================================================
