------------------------------ MODULE MCProxy ------------------------------
(***************************************************************************)
(* The three parts of http_proxy.c in one run.  They share no state that   *)
(* decides anything in another part, so each behaviour exercises one of    *)
(* them and the run explores the sum of their states, not the product.     *)
(***************************************************************************)
EXTENDS Proxy, ProxySession, RelayHeader

VARIABLE unit

\* Port 1 is used again for another site and for another service.
MCDialled ==
  {<<1, "a", "http">>, <<1, "b", "http">>, <<2, "a", "tls">>,
   <<3, "a", "tls">>}

Request(tls, host, target, size, ok) ==
  [tls |-> tls, host |-> host, target |-> target, size |-> size, ok |-> ok]
MCRequests ==
  {Request(FALSE, "name", "path", 1, TRUE), Request(FALSE, "none", "path", 2, TRUE),
   Request(FALSE, "name", "absolute", 2, TRUE), Request(FALSE, "name", "path", 3, TRUE),
   Request(FALSE, "name", "path", 1, FALSE),
   Request(TRUE, "name", "path", 2, TRUE), Request(TRUE, "none", "path", 3, TRUE)}
MCBody == <<"b1", "b2">>
MCAnswers == {<<"ok", "d1", "d2">>, <<"s", "ok", "d1", "d2">>, <<"s", "s", "ok">>,
              <<"no", "d1">>, << >>}

NoSession ==
  sess_closed(Session(CHOOSE r \in Requests : TRUE, CHOOSE a \in Answers : TRUE), "none")

Init ==
  \/ unit = "flows" /\ ProxyInit /\ c = NoSession /\ hdr = Sent(<<0, 0>>, 0, 1)
  \/ unit = "session" /\ ProxyInit /\ SessionInit /\ hdr = Sent(<<0, 0>>, 0, 1)
  \/ unit = "header" /\ ProxyInit /\ c = NoSession /\ HeaderInit

Next ==
  \/ unit = "flows" /\ ProxyNext /\ UNCHANGED <<c, hdr, unit>>
  \/ unit = "session" /\ SessionNext /\ UNCHANGED <<proxyVars, hdr, unit>>
  \/ unit = "header" /\ HeaderNext /\ UNCHANGED <<proxyVars, c, unit>>

Spec ==
  /\ Init /\ [][Next]_<<proxyVars, c, hdr, unit>>
  /\ ProxyFairness /\ SessionFairness
=============================================================================
