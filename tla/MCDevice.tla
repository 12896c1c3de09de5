------------------------------ MODULE MCDevice ------------------------------
(***************************************************************************)
(* The parts of the bridge beside the link, the WiFi list and the proxy,   *)
(* in one run.  They share no state, so each behaviour exercises one of    *)
(* them and the run explores the sum of their states, not the product.     *)
(***************************************************************************)
EXTENDS BtBootstrap, VhciRing, Bookmarks, Settings, DnsFwd

VARIABLE unit

Address(scheme, host, fits, bare) ==
  [scheme |-> scheme, host |-> host, fits |-> fits, bare |-> bare]
MCInputs ==
  {Address("none", "a", TRUE, TRUE), Address("https", "b", TRUE, FALSE),
   Address("http", "c", TRUE, FALSE), Address("none", "d", TRUE, FALSE),
   Address("http", "e", FALSE, TRUE), Address("other", "f", TRUE, FALSE)}
MCProxies == {<<"h1", "p1">>, <<"h2", "p2">>}

Init ==
  /\ unit \in {"bootstrap", "vhci", "bookmarks", "settings", "dns"}
  /\ BtInit /\ VhciInit /\ BmInit /\ SetInit /\ DnsInit

Next ==
  /\ UNCHANGED unit
  /\ \/ /\ unit = "bootstrap" /\ BtNext
        /\ UNCHANGED <<vhciVars, bmVars, setVars, dnsVars>>
     \/ /\ unit = "vhci" /\ VhciNext
        /\ UNCHANGED <<btVars, bmVars, setVars, dnsVars>>
     \/ /\ unit = "bookmarks" /\ BmNext
        /\ UNCHANGED <<btVars, vhciVars, setVars, dnsVars>>
     \/ /\ unit = "settings" /\ SetNext
        /\ UNCHANGED <<btVars, vhciVars, bmVars, dnsVars>>
     \/ /\ unit = "dns" /\ DnsNext
        /\ UNCHANGED <<btVars, vhciVars, bmVars, setVars>>

\* What is fair in a part that does not run is not enabled in its first state.
Spec ==
  /\ Init /\ [][Next]_<<btVars, vhciVars, bmVars, setVars, dnsVars, unit>>
  /\ BtFairness /\ VhciFairness /\ DnsFairness
=============================================================================
