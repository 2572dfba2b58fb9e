----------------------------- MODULE Redemption -----------------------------
(***************************************************************************)
(* What VerificationService promises of its tokens, whatever fails and     *)
(* whoever presents them when: a token is issued once, for one account; it *)
(* is claimed by one request at most, for that account, and then used once *)
(* or never.  Once it is used or void nothing revives it, not even a mail  *)
(* that carries it late.                                                   *)
(*                                                                         *)
(* Several tokens may end in one step: a cron sweeps them, a crash ends    *)
(* all requests that have claimed one.                                     *)
(***************************************************************************)
CONSTANTS Tokens, Users, Requests

VARIABLE
  ticket        \* of every token: what became of it, for whom it is as long
                \* as it can be used, and the requests that have claimed it

Ticket(state, user, by) == [state |-> state, user |-> user, by |-> by]

Over(state) == Ticket(state, {}, {})

Init == ticket = [t \in Tokens |-> Over("none")]

\* getOrCreateToken found no live token.
Issue(t) ==
  /\ ticket[t].state = "none"
  /\ \E u \in Users : ticket'[t] = Ticket("issued", {u}, {})

\* verifyToken returns to one of the requests that present the token.
Claim(t) ==
  /\ ticket[t].state = "issued"
  /\ \E r \in Requests : ticket'[t] = Ticket("claimed", ticket[t].user, {r})

\* verify or resetPassword has written to the account.
Use(t) == ticket[t].state = "claimed" /\ ticket'[t] = Over("used")

\* The token expired, or the request that claimed it failed.
Void(t) == ticket[t].state \in {"issued", "claimed"} /\ ticket'[t] = Over("void")

Next ==
  \A t \in Tokens :
    ticket'[t] = ticket[t] \/ Issue(t) \/ Claim(t) \/ Use(t) \/ Void(t)

Spec == Init /\ [][Next]_ticket
=============================================================================
