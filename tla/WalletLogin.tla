---------------------------- MODULE WalletLogin ----------------------------
(***************************************************************************)
(* What signing in with a wallet promises: a challenge is issued once,      *)
(* burned once and gives at most one login; a wallet gets one user, which   *)
(* is the user of no other wallet and of which it never loses hold.        *)
(***************************************************************************)
EXTENDS Integers

CONSTANTS
  Requests,   \* who may log in
  Addresses,  \* the wallets
  Nonces      \* the challenges

VARIABLES
  phase,    \* each challenge: "none", "open" or "burned"
  granted,  \* the requests each challenge logged in
  owner     \* the user of each wallet, or 0

Init ==
  /\ phase = [n \in Nonces |-> "none"]
  /\ granted = [n \in Nonces |-> {}]
  /\ owner = [a \in Addresses |-> 0]

Issue(n) ==
  /\ phase[n] = "none"
  /\ phase' = [phase EXCEPT ![n] = "open"]
  /\ UNCHANGED <<granted, owner>>

Burn(n) ==
  /\ phase[n] = "open"
  /\ phase' = [phase EXCEPT ![n] = "burned"]
  /\ UNCHANGED <<granted, owner>>

Grant(n, r) ==
  /\ phase[n] = "burned"
  /\ granted[n] = {}
  /\ granted' = [granted EXCEPT ![n] = {r}]
  /\ UNCHANGED <<phase, owner>>

\* The user is one that no wallet has.
Link(a) ==
  /\ owner[a] = 0
  /\ owner'[a] \in Nat \ {0}
  /\ \A b \in Addresses : owner[b] # owner'[a]
  /\ owner' = [owner EXCEPT ![a] = owner'[a]]
  /\ UNCHANGED <<phase, granted>>

Next ==
  \/ \E n \in Nonces : Issue(n) \/ Burn(n) \/ \E r \in Requests : Grant(n, r)
  \/ \E a \in Addresses : Link(a)

Spec == Init /\ [][Next]_<<phase, granted, owner>>
=============================================================================
