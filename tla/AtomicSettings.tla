--------------------------- MODULE AtomicSettings ---------------------------
(***************************************************************************)
(* What the daemon promises about settings.json and panel-layout.json:     *)
(* each request changes the keys it names, all of them or none, at one     *)
(* instant, and no other key.                                              *)
(***************************************************************************)
CONSTANTS Requests, Keys, Changes

VARIABLES
    stored,   \* the value of each key
    wanted    \* the changes that each request still has to make

NoChange == [k \in {} |-> k]

\* Settings s with changes c.
Merge(c, s) == [k \in DOMAIN s |-> IF k \in DOMAIN c THEN c[k] ELSE s[k]]

AtomicInit == wanted = [r \in Requests |-> NoChange]

Ask(r) ==
    /\ wanted[r] = NoChange
    /\ \E c \in Changes : wanted' = [wanted EXCEPT ![r] = c]
    /\ UNCHANGED stored

Apply(r) ==
    /\ stored' = Merge(wanted[r], stored)
    /\ wanted' = [wanted EXCEPT ![r] = NoChange]

\* Refused, or failed.
GiveUp(r) ==
    /\ wanted' = [wanted EXCEPT ![r] = NoChange]
    /\ UNCHANGED stored

Restart == wanted' = [r \in Requests |-> NoChange] /\ UNCHANGED stored

AtomicNext == (\E r \in Requests : Ask(r) \/ Apply(r) \/ GiveUp(r)) \/ Restart

AtomicSpec == AtomicInit /\ [][AtomicNext]_<<stored, wanted>>
=============================================================================
