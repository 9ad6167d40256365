-------------------------- MODULE TrustOnFirstUse --------------------------
(***************************************************************************)
(* What t-forward promises about a server identity it learns (README,      *)
(* "Certificate trust"): the first successful connect learns it and, from  *)
(* then on, only that identity is connected to.  pinned is the identity    *)
(* the host keeps in its config directory, proven the identities a tunnel  *)
(* has come up with.                                                       *)
(***************************************************************************)
CONSTANTS
    Certs,    \* identities a gateway may present
    NoCert    \* no identity pinned yet

VARIABLES pinned, proven

tofuVars == <<pinned, proven>>

Init ==
    /\ pinned = NoCert
    /\ proven = {}

\* A tunnel comes up: to any gateway before there is a pin, to the pinned
\* one afterwards.
Connect(c) ==
    /\ pinned \in {NoCert, c}
    /\ proven' = proven \cup {c}
    /\ UNCHANGED pinned

\* The host stores the identity of a tunnel that came up, once.
Pin(c) ==
    /\ pinned = NoCert
    /\ c \in proven
    /\ pinned' = c
    /\ UNCHANGED proven

Next == \E c \in Certs : Connect(c) \/ Pin(c)

Spec == Init /\ [][Next]_tofuVars
=============================================================================
