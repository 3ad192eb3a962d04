--------------------------- MODULE MCChannelLink ---------------------------
EXTENDS ChannelLink

Limits(frame, message, features, required) ==
  [frame |-> frame, message |-> message, features |-> features, required |-> required]

\* Two ends whose limits fit, and two whose do not.
Fit == [CLIENT |-> Limits(2, 3, {"reset", "x"}, {"reset"}), SERVER |-> Limits(1, 4, {"reset"}, {})]
Misfit == [CLIENT |-> Limits(2, 3, {"reset"}, {"reset"}), SERVER |-> Limits(1, 4, {}, {})]

Waits(client, server) == [CLIENT |-> client, SERVER |-> server]

\* split: each lane has a connection of its own.  late: the ends that are created
\* deferred and started afterwards.  losses, faults: how often a connection breaks
\* and how often one of failures happens.  manual: the client's application also
\* connects by itself.  dark: a loss may be silent.  keepalive, drain, destroy:
\* the ends that do it.  wait: what a thread of an end waits for.
Base == [split |-> FALSE, late |-> {}, limits |-> Fit, losses |-> 1, faults |-> 0, failures |-> {},
         reconnect |-> TRUE, manual |-> FALSE, dark |-> FALSE, keepalive |-> {}, drain |-> {},
         destroy |-> {}, wait |-> Waits("none", "none")]

LateServer == [Base EXCEPT !.late = {"SERVER"}, !.wait = Waits("ready", "none"), !.faults = 1,
                           !.failures = {"hello", "ack", "adopt", "connect", "arm", "refuse",
                                         "unwatch", "timer"}]
TwoLosses == [Base EXCEPT !.late = {"SERVER"}, !.losses = 2, !.wait = Waits("ready", "none")]
TwoConnections == [Base EXCEPT !.split = TRUE, !.late = {"SERVER"}, !.wait = Waits("ready", "none")]
SilentLoss == [Base EXCEPT !.late = {"SERVER"}, !.dark = TRUE, !.keepalive = Ends]
ProbeFails == [Base EXCEPT !.losses = 0, !.keepalive = Ends, !.faults = 1,
                           !.failures = {"ping", "pong", "full"}]
ClientDrains == [Base EXCEPT !.drain = {"CLIENT"}, !.wait = Waits("drained", "none"), !.faults = 1,
                             !.failures = {"untime", "unwatch", "arm"}]
DrainsAndEnds == [ClientDrains EXCEPT !.losses = 0, !.destroy = Ends]
ServerDrains == [Base EXCEPT !.split = TRUE, !.drain = {"SERVER"}]
DestroyFails == [Base EXCEPT !.destroy = {"CLIENT"}, !.faults = 1,
                             !.failures = {"untime", "unwatch", "refuse"}]
DestroyMeetsWaiter == [Base EXCEPT !.destroy = {"CLIENT"}, !.wait = Waits("ready", "none")]
Incompatible == [Base EXCEPT !.limits = Misfit, !.losses = 0]
BothConnect == [Base EXCEPT !.manual = TRUE]

MCPlans == <<LateServer, TwoLosses, TwoConnections, SilentLoss, ProbeFails, ClientDrains, DrainsAndEnds,
             ServerDrains, DestroyFails, DestroyMeetsWaiter, Incompatible, BothConnect>>
=============================================================================
