--------------------------- MODULE OrderAuthority ---------------------------
(***************************************************************************)
(* What the confirmation store promises, without leases, claims, clocks or *)
(* handlers: a token gets at most one order identity, everything ever sent *)
(* to the broker for it carries that identity, and the token is closed     *)
(* once, for good, with no order or with one the broker holds.             *)
(***************************************************************************)
CONSTANTS Tokens, Orders, LegacyOrder, None

VARIABLES
  identity,   \* token |-> the order number it stands for, or None
  closed,     \* token |-> is it used up?
  recorded,   \* token |-> the order it was closed with
  requests,   \* requests sent to the broker
  accepted    \* requests the broker has accepted

vars == <<identity, closed, recorded, requests, accepted>>

\* Tokens used before identities were stored are closed from the start.
Init == /\ identity = [t \in Tokens |-> None]
        /\ recorded \in [Tokens -> {None, LegacyOrder}]
        /\ closed = [t \in Tokens |-> recorded[t] = LegacyOrder]
        /\ requests = {} /\ accepted = {}

Identify(t) ==
  /\ ~closed[t] /\ identity[t] = None
  /\ \E o \in Orders :
       /\ \A u \in Tokens : identity[u] # o
       /\ identity' = [identity EXCEPT ![t] = o]
  /\ UNCHANGED <<closed, recorded, requests, accepted>>

Request(t) ==
  /\ identity[t] # None
  /\ requests' = requests \cup {[tok |-> t, id |-> identity[t]]}
  /\ UNCHANGED <<identity, closed, recorded, accepted>>

Accept(r) ==
  /\ r \in requests
  /\ accepted' = accepted \cup {r}
  /\ UNCHANGED <<identity, closed, recorded, requests>>

Close(t) ==
  /\ ~closed[t]
  /\ \E o \in Orders \cup {LegacyOrder, None} :
       /\ o \in Orders => o = identity[t] /\ [tok |-> t, id |-> o] \in accepted
       /\ o = LegacyOrder => identity[t] = None
       /\ recorded' = [recorded EXCEPT ![t] = o]
  /\ closed' = [closed EXCEPT ![t] = TRUE]
  /\ UNCHANGED <<identity, requests, accepted>>

Next == \/ \E t \in Tokens : Identify(t) \/ Request(t) \/ Close(t)
        \/ \E r \in requests : Accept(r)

Spec == Init /\ [][Next]_vars
=============================================================================
