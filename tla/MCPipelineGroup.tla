-------------------------- MODULE MCPipelineGroup --------------------------
(* Every key hashes to the same entry: all searches probe. *)
EXTENDS PipelineGroup

Hash(key) == 0

Calm(conns, queue, generations, tls) ==
  [conns |-> conns, queue |-> queue, generations |-> generations, drains |-> 0,
   tls_generations |-> 2, group_drains |-> 1, server_fails |-> FALSE, client_faults |-> {},
   tls |-> tls]

\* Two connections, both sides drain, the server may fail and so may the
\* client in the given ways.
Faulty(queue, tls, server_fails, client_faults) ==
  [Calm(2, queue, 1, tls) EXCEPT !.drains = 1, !.tls_generations = 1,
                                 !.server_fails = server_fails, !.client_faults = client_faults]

\* Every fault without TLS; lost links during and after a TLS handshake; a DATA
\* slot used again, with a drain, and under TLS with a change of profile.
MCPlans ==
  <<Faulty(2, FALSE, TRUE, {"send", "start", "unwatch", "link"}),
    Faulty(1, TRUE, FALSE, {"link"}),
    Calm(3, 1, 2, FALSE),
    [Calm(3, 1, 2, TRUE) EXCEPT !.group_drains = 0]>>
MCTlsPlans == <<Calm(1, 1, 1, TRUE)>>
=============================================================================
