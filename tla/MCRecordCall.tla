---------------------------- MODULE MCRecordCall ----------------------------
(***************************************************************************)
(* Small instances of RecordCall.                                          *)
(***************************************************************************)
EXTENDS RecordCall

\* Nothing, a response, a response and the end, the end alone, an error, a
\* producer, and two uses the dispatcher must refuse.
AllScripts ==
  {<<>>, <<"append">>, <<"append", "finish">>, <<"finish">>, <<"fail">>,
   <<"acquire">>, <<"trailing">>, <<"acquire", "append">>}

\* Two answers the owner sends itself, and a producer.
Answers == {<<"append", "finish">>, <<>>}
Producers == {<<"acquire">>}

Quiet(calls, methods, timed, scripts) ==
  [calls |-> calls, methods |-> methods, timed |-> timed, scripts |-> scripts,
   results |-> {"OK"}, client_tx |-> {"OK"}, server_tx |-> {"OK"}, chances |-> {}]

Risky(plan_, client_tx, server_tx, chances) ==
  [plan_ EXCEPT !.client_tx = client_tx, !.server_tx = server_tx, !.chances = chances]

OK == {"OK"}

\* Everything a piece of work may do; two calls that use one stream slot after
\* another, so that the job of a cancelled call outlives its stream; and each
\* kind of trouble, for work that answers and for work that takes a producer.
MCPlans ==
  <<Quiet(1, {"unary", "absent"}, {FALSE}, AllScripts \ Producers),
    Quiet(1, {"stream"}, {FALSE}, AllScripts),
    Risky(Quiet(2, {"unary"}, {FALSE}, {<<"finish">>}), OK, OK, {"cancel"}),
    Risky(Quiet(1, {"unary"}, {TRUE}, Answers), OK, OK, {"cancel"}),
    Risky(Quiet(1, {"stream"}, {FALSE}, Producers), OK, OK, {"cancel"}),
    Risky(Quiet(1, {"unary"}, {TRUE}, Answers), OK, OK, {"expire"}),
    Risky(Quiet(1, {"unary"}, {FALSE}, Answers \cup Producers), OK, {"OK", "AGAIN"}, {"link"}),
    Risky(Quiet(1, {"stream"}, {FALSE}, Producers), OK, OK, {"link"}),
    Risky(Quiet(1, {"stream"}, {FALSE}, Answers), OK, {"OK", "NOMEM", "BUSY"}, {"server"}),
    Risky(Quiet(1, {"unary"}, {FALSE}, Producers), OK, OK, {"server"}),
    Risky(Quiet(1, {"unary"}, {FALSE}, Answers), {"OK", "AGAIN"}, OK,
          {"unbound", "client", "drain"})>>
=============================================================================
