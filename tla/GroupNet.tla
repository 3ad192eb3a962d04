------------------------------ MODULE GroupNet ------------------------------
(***************************************************************************)
(* The TCP (or TLS) connections between a client group and a listener.     *)
(* A connection is made once and never reused; each direction is a FIFO of *)
(* messages, of which the receiver reads a prefix: once the other side has *)
(* closed, or the link has failed, it may see the end of the stream before *)
(* what was still on its way.                                              *)
(***************************************************************************)
EXTENDS Naturals, Sequences, FiniteSets, FiniteSetsExt

CONSTANTS MaxConns,  \* bound: connections ever made
          Plans      \* the bounds and faults of one behaviour: a function

VARIABLE plan        \* which of them; it never changes

\* conns, generations, drains, tls_generations and group_drains bound the
\* connections, the generations of a DATA slot, the drains of the listener,
\* the TLS profiles it publishes and the drains of the group; queue bounds the
\* messages in one direction of a connection.  server_fails: a send or an
\* adoption of the server may be refused; client_faults: what may fail at the
\* client, a subset of {"send", "start", "unwatch", "link"}; tls: whether the
\* group uses TLS.
Plan == Plans[plan]

ASSUME GroupPlansAssumption ==
  \A i \in DOMAIN Plans :
    /\ DOMAIN Plans[i] = {"conns", "queue", "generations", "drains", "tls_generations",
                          "group_drains", "server_fails", "client_faults", "tls"}
    /\ Plans[i].conns \in 1 .. MaxConns

Conns == 1 .. MaxConns

VARIABLE net  \* per connection: both ends, both directions

(* client: "none", "connecting" (the connector, or connect(), holds the fd),   *)
(*         "handshake" and "preface" (adopted, but the TLS handshake is not    *)
(*         over, or the preface not sent under it), "open", "closed"           *)
(* server: "none", "backlog", "open", "closed"                                 *)
(* tx:     DATA frames the client's reactor still owns                         *)
(* handler, tracked: the callbacks of the server's connection and their        *)
(*         argument, [index, generation] of the listener's connection table    *)
(* member: the route an attached DATA connection was admitted with             *)
NoRoute == [pipeline_id |-> 0, epoch |-> 0, member_index |-> 0, member_generation |-> 0]
NoTracked == [index |-> 0, generation |-> 0]
Unused == [kind |-> "NONE", client |-> "none", server |-> "none",
           c2s |-> <<>>, s2c |-> <<>>, tx |-> <<>>,
           handler |-> "none", tracked |-> NoTracked, member |-> NoRoute,
           tls_generation |-> 0]

NetInit == net = [c \in Conns |-> Unused]

FreeConns(n) == {c \in 1 .. Plan.conns : n[c].kind = "NONE"}
NewConn(n) == Min(FreeConns(n))

ServerOpen(n, c) == c \in Conns /\ n[c].server = "open"
ClientOpen(n, c) == c \in Conns /\ n[c].client \in {"handshake", "preface", "open"}

\* A closed end reads nothing more.
ServerClosed(n, c) ==
  [n EXCEPT ![c].server = "closed", ![c].c2s = <<>>, ![c].handler = "none",
            ![c].tracked = NoTracked, ![c].member = NoRoute, ![c].tls_generation = 0,
            ![c].s2c = IF n[c].client = "closed" THEN <<>> ELSE @]
ClientClosed(n, c) ==
  [n EXCEPT ![c].client = "closed", ![c].s2c = <<>>, ![c].tx = <<>>,
            ![c].server = IF @ = "none" THEN "closed" ELSE @,
            ![c].c2s = IF n[c].server \in {"none", "closed"} THEN <<>> ELSE @]

ToClient(n, c, m) == IF n[c].client = "closed" THEN n ELSE [n EXCEPT ![c].s2c = Append(@, m)]
ToServer(n, c, m) == IF n[c].server = "closed" THEN n ELSE [n EXCEPT ![c].c2s = Append(@, m)]
=============================================================================
