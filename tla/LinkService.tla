---------------------------- MODULE LinkService ----------------------------
(***************************************************************************)
(* What the PPP link promises the rest of the bridge: one phone at a time  *)
(* owns it, PPP is offered only to an owner, it may come up and go down    *)
(* any number of times while it is offered, and the link changes hands     *)
(* only after the previous owner's PPP is gone.                            *)
(***************************************************************************)
CONSTANTS Owners, Nobody

VARIABLES
  owner,    \* the channel the link is given to, or Nobody
  service   \* PPP: "none", "ready" for the phone to dial, or "up"

vars == <<owner, service>>

Init == owner = Nobody /\ service = "none"

Claim(c) == /\ owner = Nobody /\ service = "none"
            /\ owner' = c /\ UNCHANGED service

Offer == /\ owner # Nobody /\ service = "none"
         /\ service' = "ready" /\ UNCHANGED owner

Up == /\ service = "ready"
      /\ service' = "up" /\ UNCHANGED owner

Down == /\ service = "up"
        /\ service' = "ready" /\ UNCHANGED owner

Release == /\ owner # Nobody
           /\ owner' = Nobody /\ UNCHANGED service

\* After the owner has gone, its PPP goes down and the service ends.
Withdraw == /\ owner = Nobody /\ service = "ready"
            /\ service' = "none" /\ UNCHANGED owner

\* A start that fails half way gives up both at once.
Abort == /\ owner # Nobody /\ service = "ready"
         /\ owner' = Nobody /\ service' = "none"

Next == \/ \E c \in Owners : Claim(c)
        \/ Offer \/ Up \/ Down \/ Release \/ Withdraw \/ Abort

Spec == Init /\ [][Next]_vars
=============================================================================
