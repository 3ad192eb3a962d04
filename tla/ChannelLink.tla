---------------------------- MODULE ChannelLink ----------------------------
(***************************************************************************)
(* The two ends of a channel over connections that break, go dark or       *)
(* cannot be made: the two owner reactors, the client's reconnect timer    *)
(* and connector, and at each end an application that creates, starts,     *)
(* waits for, drains and destroys its channel (channel.c; module           *)
(* LinkChannel).  The server's application attaches what its listener      *)
(* accepted, which is external.                                            *)
(***************************************************************************)
EXTENDS LinkChannel

CONSTANT Plans  \* what a behaviour is about; one is chosen at the start

VARIABLES ch,     \* the channel of each end
          net,    \* the connections
          app,    \* where the threads of each application are
          budget, \* what may still go wrong
          plan    \* the index of the chosen plan; it never changes

vars == <<ch, net, app, budget, plan>>

P == Plans[plan]

First == [l \in Lanes |-> IF P.split /\ l = "BULK" THEN 2 ELSE 1]

\* A connection that has never been used, and one the applications share before
\* their channels exist.
NoConn == [CLIENT |-> FreeEnd, SERVER |-> FreeEnd, lane |-> "CONTROL", dark |-> FALSE,
           unanswered |-> FALSE]
Joined(lane) == [NoConn EXCEPT !.CLIENT = OpenEnd, !.SERVER = OpenEnd, !.lane = lane]

Init ==
  /\ plan \in DOMAIN Plans
  /\ ch = [e \in Ends |-> tr_channel_create_common(e, P.split, P.limits[e], First)]
  /\ net = [c \in Conns |-> IF c = First["CONTROL"] THEN Joined("CONTROL")
                            ELSE IF c = First["BULK"] THEN Joined("BULK") ELSE NoConn]
  /\ app = [e \in Ends |-> [start |-> IF e \in P.late THEN "idle" ELSE "done",
                            replay |-> Both(NoHello), attach |-> NoFd, drain |-> FALSE,
                            destroy |-> "idle"]]
  /\ budget = [losses |-> P.losses, faults |-> P.faults]

\* An operator of LinkChannel works on this; bad is the set of what fails.
On(e, bad) == [ch |-> ch[e], net |-> net, bad |-> bad]

Chance(failures) ==
  {{}} \cup (IF budget.faults > 0 THEN {{f} : f \in failures \cap P.failures} ELSE {})

Becomes(e, bad, s) ==
  /\ ch' = [ch EXCEPT ![e] = s.ch] /\ net' = s.net
  /\ budget' = IF bad = {} THEN budget ELSE [budget EXCEPT !.faults = @ - 1]

Live(e) == ch[e].life = "live"
Open(e, c) == net[c][e].socket = "open"
Ready(e) == Live(e) /\ app[e].start = "done" /\ app[e].attach = NoFd /\ app[e].destroy = "idle"

\* What may fail when a connection ends or an attempt does.
Ending == {"arm"}

-----------------------------------------------------------------------------
(* The owner reactors. *)

Readable(e, c) == Open(e, c) /\ net[c][e].inbox # <<>>

Deliver(e, c) ==
  /\ Readable(e, c)
  /\ \E bad \in Chance({"ack", "pong"} \cup Ending) : Becomes(e, bad, Receive(On(e, bad), c))
  /\ UNCHANGED <<app, plan>>

\* The other end is closed, or a CLOSE or ABORT command is executed.
Ended(e, c) == Open(e, c) /\ \/ net[c][e].doomed # "no"
                             \/ net[c][Peer(e)].socket = "closed" /\ ~net[c].dark

SocketDown(e, c) ==
  /\ Ended(e, c)
  /\ \E bad \in Chance(Ending) : Becomes(e, bad, Close(On(e, bad), c))
  /\ UNCHANGED <<app, plan>>

\* The network breaks a connection; this end is the first to know.
Lose(e, c) ==
  /\ Open(e, c) /\ ch[e].life # "new" /\ budget.losses > 0 /\ ~net[c].dark
  /\ LET s == Close(On(e, {}), c) IN ch' = [ch EXCEPT ![e] = s.ch] /\ net' = s.net
  /\ budget' = [budget EXCEPT !.losses = @ - 1]
  /\ UNCHANGED <<app, plan>>

\* A connection in use carries nothing any more, and no end is told.
GoDark(c) ==
  /\ P.dark /\ budget.losses > 0 /\ ~net[c].dark
  /\ \A e \in Ends : Open(e, c) /\ ch[e].keepalive_enabled /\ tr_channel_connection_ready_locked(ch[e], c)
  /\ net' = [net EXCEPT ![c] = [@ EXCEPT !.dark = TRUE, !.CLIENT.inbox = <<>>, !.SERVER.inbox = <<>>]]
  /\ budget' = [budget EXCEPT !.losses = @ - 1]
  /\ UNCHANGED <<ch, app, plan>>

KeepaliveTimer(e) ==
  /\ ch[e].keepalive_timer = "armed" /\ ch[e].keepalive_due
  /\ \E bad \in Chance({"ping", "full"}) : Becomes(e, bad, tr_channel_keepalive_timer_main(On(e, bad)))
  /\ UNCHANGED <<app, plan>>

\* A keepalive interval and timeout pass.  What is on its way has arrived by
\* then: delivery is faster than the timeout.
Quick == \A e \in Ends : /\ \A c \in Conns : ~Readable(e, c) /\ ~Ended(e, c)
                         /\ ~ch[e].keepalive_due

TimePasses ==
  /\ Quick /\ \E e \in Ends : ch[e].keepalive_timer = "armed"
  /\ ch' = [e \in Ends |->
              [ch[e] EXCEPT !.keepalive_due = ch[e].keepalive_timer = "armed",
                            !.probe = [l \in Lanes |-> [@[l] EXCEPT !.due = @ \/ ch[e].probe[l].id # 0]]]]
  /\ net' = [c \in Conns |->
               LET Aged(end) == [end EXCEPT !.silent = @ \/ end.socket = "open"]
               IN  [net[c] EXCEPT !.CLIENT = Aged(@), !.SERVER = Aged(@)]]
  /\ UNCHANGED <<app, budget, plan>>

Spare == {c \in Conns : net[c] = NoConn}

ReconnectTimer ==
  /\ ch["CLIENT"].reconnect_timer = "armed" /\ Spare # {}
  /\ \E bad \in Chance({"connect"} \cup Ending) :
       LET s == On("CLIENT", bad)
       IN  Becomes("CLIENT", bad,
             tr_channel_reconnect_timer_main([s EXCEPT !.ch.reconnect_timer = "idle"],
                                             CHOOSE c \in Spare : TRUE))
  /\ UNCHANGED <<app, plan>>

\* The listener takes a connection.
Accept(c) ==
  /\ net[c].CLIENT.socket = "connecting" /\ net[c].SERVER.socket = "free" /\ Live("SERVER")
  /\ net' = [net EXCEPT ![c].SERVER = OpenEnd]
  /\ UNCHANGED <<ch, app, budget, plan>>

\* The connector's event or timeout.  It fails by itself when nobody listens.
ConnectorEnds(status) ==
  LET k == ch["CLIENT"].connector
  IN  /\ k.active
      /\ status = "OK" => net[k.fd].SERVER.socket # "free"
      /\ \E bad \in Chance({"unwatch", "refuse", "adopt", "hello"} \cup Ending) :
           LET end == tr_connector_timeout(k, status, "unwatch" \notin bad)
               s == On("CLIENT", bad)
               ended == [s EXCEPT !.ch.connector = end.k]
           IN  /\ (status = "TIMEOUT" /\ k.action = "NONE" /\ Live("SERVER")) => bad = {"refuse"}
               /\ Becomes("CLIENT", bad,
                    IF end.calls THEN tr_channel_reconnect_connector_complete(ended, end.status, end.fd)
                    ELSE IF end.fd = NoFd THEN ended
                    ELSE [ended EXCEPT !.net[end.fd].CLIENT = [FreeEnd EXCEPT !.socket = "closed"]])
  /\ UNCHANGED <<app, plan>>

\* A connection nobody refers to any more may be used again.
Recycled(c) ==
  /\ net[c] # NoConn
  /\ \A e \in Ends : net[c][e].socket \in {"free", "closed"} /\ app[e].attach # c
  /\ net[c].CLIENT.socket = "closed" \/ net[c].SERVER.socket = "closed"
  /\ \A e \in Ends, l \in Lanes : ch[e].connection[l] # c /\ app[e].replay[l].connection # c

Recycle(c) ==
  /\ Recycled(c)
  /\ net' = [net EXCEPT ![c] = NoConn]
  /\ UNCHANGED <<ch, app, budget, plan>>

-----------------------------------------------------------------------------
(* The applications. *)

Create(e) ==
  /\ ch[e].life = "new"
  /\ \E bad \in Chance({"hello", "timer"}) :
       Becomes(e, bad, tr_channel_create_publish_on_owner(On(e, bad), e \in P.late))
  /\ UNCHANGED <<app, plan>>

\* start() on a thread of the application: under the lock it opens the handshake
\* and takes what has come; then the replays, one call of the owner each; then
\* its own HELLOs.
StartBegins(e) ==
  /\ Live(e) /\ app[e].start = "idle"
  /\ app' = [app EXCEPT ![e].start = "replay", ![e].replay = ch[e].pending_hello]
  /\ ch' = [ch EXCEPT ![e] = [@ EXCEPT !.handshake_started = TRUE, !.pending_hello = Both(NoHello)]]
  /\ UNCHANGED <<net, budget, plan>>

StartReplays(e) ==
  LET left == {l \in Lanes : app[e].replay[l] # NoHello}
      lane == IF "CONTROL" \in left THEN "CONTROL" ELSE "BULK"
  IN  /\ app[e].start = "replay"
      /\ IF left = {}
         THEN app' = [app EXCEPT ![e].start = "CONTROL"] /\ UNCHANGED <<ch, net, budget>>
         ELSE /\ app' = [app EXCEPT ![e].replay[lane] = NoHello]
              /\ \E bad \in Chance({"ack"} \cup Ending) :
                   Becomes(e, bad, tr_channel_process_pending_hello_on_owner(On(e, bad), app[e].replay[lane]))
      /\ UNCHANGED plan

StartSends(e) ==
  LET lane == app[e].start
      next == IF lane = "CONTROL" /\ ch[e].split THEN "BULK" ELSE "done"
  IN  /\ lane \in Lanes
      /\ \E bad \in Chance({"hello"}) :
           LET h == StartHello(On(e, bad), lane)
           IN  /\ Becomes(e, bad, h.s)
               /\ app' = [app EXCEPT ![e].start = IF h.ret = "OK" THEN next ELSE "failed"]
      /\ UNCHANGED plan

MayKeepAlive(e) ==
  Ready(e) /\ e \in P.keepalive /\ ~ch[e].keepalive_enabled /\ ~ch[e].state_wait_closed

EnableKeepalive(e) ==
  /\ MayKeepAlive(e)
  /\ Becomes(e, {}, tr_channel_enable_keepalive(On(e, {})))
  /\ UNCHANGED <<app, plan>>

MayEnable ==
  /\ Ready("CLIENT") /\ P.reconnect
  /\ ~ch["CLIENT"].local_draining /\ ~tr_channel_client_reconnect_present(ch["CLIENT"])
  /\ ~ch["CLIENT"].reconnect_failed

EnableReconnect ==
  /\ MayEnable
  /\ \E bad \in Chance(Ending) :
       Becomes("CLIENT", bad, tr_channel_enable_client_reconnect_on_owner(On("CLIENT", bad)))
  /\ UNCHANGED <<app, plan>>

\* The client's application connects by itself (README.md:609).
MayConnect ==
  /\ Ready("CLIENT") /\ P.manual /\ ~P.split /\ Live("SERVER") /\ Spare # {}
  /\ ~ch["CLIENT"].alive["CONTROL"] /\ ~ch["CLIENT"].local_draining /\ ~ch["CLIENT"].peer_draining["CONTROL"]
  /\ \A c \in Conns : Open("CLIENT", c) => c \in {ch["CLIENT"].connection[l] : l \in Lanes}

Connect ==
  /\ MayConnect
  /\ net' = [net EXCEPT ![CHOOSE c \in Spare : TRUE] = Joined("CONTROL")]
  /\ UNCHANGED <<ch, app, budget, plan>>

\* A connection without a lane is for the lane its port says, once that is down.
Unattached(e, c) ==
  Open(e, c) /\ tr_channel_connection_lane_mask_locked(ch[e], c) = {} /\ net[c][e].doomed = "no"

MayAttach(e, c) == Ready(e) /\ Unattached(e, c) /\ ~ch[e].alive[net[c].lane]

Attach(e, c) ==
  /\ MayAttach(e, c)
  /\ LET r == tr_channel_replace_connection_on_owner(On(e, {}), net[c].lane, c)
     IN  /\ Becomes(e, {}, IF r.ret = "OK" THEN r.s ELSE Close(r.s, c))
         /\ app' = IF r.ret = "OK" THEN [app EXCEPT ![e].attach = c] ELSE app
  /\ UNCHANGED plan

AttachHello(e) ==
  LET c == app[e].attach
  IN  /\ c # NoFd
      /\ app' = [app EXCEPT ![e].attach = NoFd]
      /\ \E bad \in Chance({"hello"}) :
           LET h == tr_channel_send_hello(On(e, bad), c)
           IN  Becomes(e, bad, IF h.ret \in {"OK", "STALE"} THEN h.s
                               ELSE [h.s EXCEPT !.net[c][e].doomed = "close"])
      /\ UNCHANGED plan

\* Without a channel the application closes what it has; so does the client's
\* when reconnect was faster.
MayClose(e, c) ==
  \/ ch[e].life \in {"freed", "failed"} /\ Open(e, c)
  \/ Ready(e) /\ Unattached(e, c) /\ (ch[e].local_draining \/ (e = "CLIENT" /\ ch[e].alive["CONTROL"]))

AppCloses(e, c) ==
  /\ MayClose(e, c)
  /\ Becomes(e, {}, Close(On(e, {}), c))
  /\ UNCHANGED <<app, plan>>

Watch(e) == IF P.wait[e] = "ready" THEN tr_channel_wait_ready_deadline(ch[e], "CONTROL")
            ELSE tr_channel_wait_drained_deadline(ch[e])

MayWait(e) ==
  /\ Live(e) /\ ch[e].waiter = "idle" /\ app[e].destroy = "idle"
  /\ \/ P.wait[e] = "ready"
     \/ P.wait[e] = "drained" /\ ch[e].local_draining

Wait(e) ==
  /\ MayWait(e) \/ ch[e].waiter = "awake"
  /\ ch' = [ch EXCEPT ![e] = Watch(e)]
  /\ UNCHANGED <<net, app, budget, plan>>

\* Only wait_drained is given a time here.
WaitTimesOut(e) ==
  /\ ch[e].waiter = "asleep" /\ P.wait[e] = "drained"
  /\ ch' = [ch EXCEPT ![e].waiter = "done"]
  /\ UNCHANGED <<net, app, budget, plan>>

\* begin_drain() is called until it succeeds.
MayDrain(e) == e \in P.drain /\ Ready(e) /\ ~app[e].drain

BeginDrain(e) ==
  /\ MayDrain(e)
  /\ \E bad \in Chance({"arm", "untime", "unwatch"}) :
       LET r == tr_channel_begin_drain_on_owner(On(e, bad))
       IN  Becomes(e, bad, r.s) /\ app' = [app EXCEPT ![e].drain = r.ret \in {"OK", "CLOSED"}]
  /\ UNCHANGED plan

\* tr_channel_destroy, for a client: one step per call it makes; an error ends
\* the call, and the application makes it again.
MayDestroy(e) ==
  /\ e \in P.destroy /\ Live(e) /\ app[e].attach = NoFd /\ app[e].start \in {"done", "failed"}
  /\ e \in P.drain => app[e].drain

At(e, pc) == MayDestroy(e) /\ e = "CLIENT" /\ app[e].destroy = pc
Goes(e, pc) == app' = [app EXCEPT ![e].destroy = pc]

DestroyAdmission(e) ==
  /\ At(e, "idle")
  /\ ch' = [ch EXCEPT ![e] = tr_channel_close_wait_admission(@)]
  /\ Goes(e, IF Waiting(ch[e]) THEN "idle" ELSE "keepalive")
  /\ UNCHANGED <<net, budget, plan>>

DestroyKeepalive(e) ==
  \/ /\ At(e, "keepalive") /\ Goes(e, "disarm")
     /\ ch' = [ch EXCEPT ![e] = tr_channel_disable_keepalive(@)]
     /\ UNCHANGED <<net, budget, plan>>
  \/ /\ At(e, "disarm") /\ Goes(e, "reconnect")
     /\ ch' = [ch EXCEPT ![e] = tr_channel_disarm_keepalive_on_owner(@)]
     /\ UNCHANGED <<net, budget, plan>>

DestroyReconnect(e) ==
  /\ At(e, "reconnect")
  /\ IF tr_channel_client_reconnect_present(ch[e])
     THEN \E bad \in Chance({"untime", "unwatch"}) :
            LET r == tr_channel_disable_client_reconnect_on_owner(On(e, bad))
            IN  Becomes(e, bad, r.s) /\ Goes(e, IF r.ret = "OK" THEN "handlers" ELSE "idle")
     ELSE Goes(e, "handlers") /\ UNCHANGED <<ch, net, budget>>
  /\ UNCHANGED plan

DestroyHandlers(e) ==
  /\ At(e, "handlers") /\ Goes(e, "timer")
  /\ Becomes(e, {}, Unhandled(On(e, {})))
  /\ UNCHANGED plan

DestroyTimer(e) ==
  /\ At(e, "timer")
  /\ \E bad \in Chance({"untime"}) :
       /\ Becomes(e, bad, IF bad = {} THEN [On(e, bad) EXCEPT !.ch = [@ EXCEPT !.keepalive_timer = "none",
                                                    !.keepalive_due = FALSE, !.life = "freed"]]
                          ELSE On(e, bad))
       /\ Goes(e, "idle")
  /\ UNCHANGED plan

\* A server's channel is detached and then freed.
Detach(e) ==
  /\ MayDestroy(e) /\ e = "SERVER"
  /\ \E bad \in Chance({"untime"}) : Becomes(e, bad, tr_channel_detach_on_owner(On(e, bad)))
  /\ UNCHANGED <<app, plan>>

-----------------------------------------------------------------------------
Next ==
  \/ \E e \in Ends :
       \/ \E c \in Conns : \/ Deliver(e, c) \/ SocketDown(e, c) \/ Lose(e, c)
                           \/ Attach(e, c) \/ AppCloses(e, c)
       \/ KeepaliveTimer(e) \/ Create(e)
       \/ StartBegins(e) \/ StartReplays(e) \/ StartSends(e)
       \/ EnableKeepalive(e) \/ AttachHello(e) \/ Wait(e) \/ WaitTimesOut(e) \/ BeginDrain(e)
       \/ DestroyAdmission(e) \/ DestroyKeepalive(e) \/ DestroyReconnect(e)
       \/ DestroyHandlers(e) \/ DestroyTimer(e) \/ Detach(e)
  \/ \E c \in Conns : GoDark(c) \/ Accept(c) \/ Recycle(c)
  \/ \E status \in {"OK", "TIMEOUT"} : ConnectorEnds(status)
  \/ TimePasses \/ ReconnectTimer \/ EnableReconnect \/ Connect

Spec == Init /\ [][Next]_vars

(* What the reactors, the kernel and the applications go on doing.  Each line *)
(* is weak fairness of the action it names, said without ENABLED: what the    *)
(* action would end does not last.  Nothing is assumed of losses, failures,   *)
(* timeouts of a wait or a second call of destroy that a waiter refuses.      *)
Fairness ==
  /\ \A e \in Ends :
       /\ \A c \in Conns : /\ []<>~Readable(e, c)
                           /\ []<>~Ended(e, c)
                           /\ []<>~MayAttach(e, c)
                           /\ []<>~MayClose(e, c)
       /\ []<>~(ch[e].keepalive_timer = "armed" /\ ch[e].keepalive_due)
       /\ []<>(ch[e].life # "new")
       /\ []<>~(Live(e) /\ app[e].start = "idle")
       /\ []<>(app[e].start # "replay")
       /\ []<>(app[e].start \notin Lanes)
       /\ []<>~MayKeepAlive(e)
       /\ []<>(app[e].attach = NoFd)
       /\ []<>~MayWait(e)
       /\ []<>(ch[e].waiter # "awake")
       /\ []<>~MayDrain(e)
       /\ []<>~(/\ MayDestroy(e) /\ app[e].destroy = "idle"
                /\ ~(Waiting(ch[e]) /\ ch[e].state_wait_closed))
       /\ []<>(app[e].destroy = "idle")
  /\ \A c \in Conns : /\ []<>~(net[c].CLIENT.socket = "connecting" /\ net[c].SERVER.socket = "free" /\ Live("SERVER"))
                      /\ []<>~Recycled(c)
  /\ []<>~ch["CLIENT"].connector.active
  /\ []<>~(Quick /\ \E e \in Ends : ch[e].keepalive_timer = "armed")
  /\ []<>~(ch["CLIENT"].reconnect_timer = "armed" /\ Spare # {})
  /\ []<>~MayEnable
  /\ []<>~MayConnect

FairSpec == Spec /\ Fairness

-----------------------------------------------------------------------------
Compatible ==
  \A e \in Ends : P.limits[e].required \subseteq P.limits["CLIENT"].features \cap P.limits["SERVER"].features

(* A lane is up at an end only after the other end was started, whatever came  *)
(* before that; both ends of an up lane agree on the features and on the frame *)
(* size, and each knows the message size of the other.  No legal peer ever     *)
(* gets a protocol error: one is due to features that do not fit, to a full    *)
(* queue, or to a HELLO that meets a drain (channel.c:1777, :1956, :2694).     *)
HandshakeSound ==
  \A e \in Ends :
    LET x == ch[e]
        y == ch[Peer(e)]
    IN  /\ x.protocol_errors \subseteq (IF Compatible THEN {} ELSE {"UNSUPPORTED"})
                                  \cup (IF "ack" \in P.failures THEN {"AGAIN"} ELSE {})
                                  \cup (IF P.drain = {} THEN {} ELSE {"AFTER_GOAWAY"})
        /\ \A l \in Lanes :
             /\ x.ready[l] => x.handshake_started /\ y.handshake_started
             /\ (x.ready[l] /\ y.ready[l] /\ x.connection[l] = y.connection[l]) =>
                  /\ x.caps[l].features = y.caps[l].features
                  /\ x.caps[l].frame = y.caps[l].frame
                  /\ x.caps[l].message = y.limits.message

(* While reconnect is enabled and a lane is down that nobody is draining,      *)
(* there is one attempt, for one lane or for the shared pair, and either its   *)
(* timer is armed or its connector is active.  Every socket of the client is   *)
(* the connector's or the current one of a lane, unless its application        *)
(* connected it; none is left open by an attempt that came too late            *)
(* (channel.c:2891, :3038, :3087).                                             *)
ReconnectDriven ==
  LET x == ch["CLIENT"]
      wanted == {l \in Lanes : ~x.alive[l] /\ \A m \in Attempted(x, l) : ~x.peer_draining[m]}
      attempt == {l \in Lanes : x.reconnecting[l]}
  IN  /\ (x.reconnect_enabled /\ ~x.local_draining /\ wanted # {}) =>
           /\ attempt = Attempted(x, x.reconnect_lane)
           /\ x.reconnect_timer = "armed" \/ x.connector.active
      /\ \A c \in Conns :
           /\ net[c].CLIENT.socket = "connecting" <=> (x.connector.active /\ x.connector.fd = c)
           /\ (Open("CLIENT", c) /\ x.life = "live" /\ ~P.manual) =>
                tr_channel_connection_alive_locked(x, c)

(* When a channel is freed nothing refers to it: no handler of a connection,   *)
(* no timer, no connector and no waiting thread, whatever failed on the way    *)
(* and however often destroy had to be called (channel.c:3717, :3860, :4324).  *)
TornDown ==
  \A e \in Ends :
    ch[e].life = "freed" =>
      /\ \A c \in Conns : ~net[c][e].handler
      /\ ch[e].keepalive_timer = "none" /\ ch[e].reconnect_timer = "none" /\ ~ch[e].has_connector
      /\ ~Waiting(ch[e])

(* Keepalive gives up only a connection that carries nothing or whose peer     *)
(* could not answer, never one that has just been replaced: a probe is         *)
(* outstanding only on a lane that is up (channel.c:358, :2694, :4030).        *)
KeepaliveHonest ==
  \A e \in Ends :
    /\ \A c \in Conns : net[c][e].doomed = "abort" => net[c].dark \/ net[c].unanswered
    /\ \A l \in Lanes : ch[e].probe[l].id # 0 => tr_channel_lane_alive(ch[e], l)

Wanted ==
  /\ Compatible /\ ~ch["CLIENT"].reconnect_failed
  /\ \A e \in Ends : /\ Live(e) /\ app[e].start # "failed" /\ ~ch[e].state_wait_closed
                     /\ ~ch[e].local_draining /\ \A l \in Lanes : ~ch[e].peer_draining[l]
Up == \A e \in Ends, l \in Lanes :
        /\ tr_channel_get_lane_state(ch[e], l) = "UP"
        /\ ch[e].connection[l] = ch[Peer(e)].connection[l]

(* The link comes up and, after every loss, up again, unless an end drains, is *)
(* destroyed, or was told that start or reconnect failed; who waits for it     *)
(* gets it.  A drain ends, and so does destroy, with whatever waits there.     *)
LinkSettles ==
  /\ []<>(Wanted => Up)
  /\ \A e \in Ends :
       /\ []<>((Wanted /\ P.wait[e] = "ready") => ch[e].waiter = "done")
       /\ []<>~(Live(e) /\ app[e].drain /\ app[Peer(e)].start # "failed"
                /\ ~tr_channel_drained_locked(ch[e]))
       /\ []<>~MayDestroy(e)
=============================================================================
