------------------------------ MODULE MCTunnel ------------------------------
(* Tunnel on small instances for TLC.                                      *)
EXTENDS Tunnel

C(type, totp, restart, tofu) ==
    [type |-> type, totp |-> totp, restart |-> restart, tofu |-> tofu,
     listens |-> TRUE, asks |-> FALSE]

\* Tunnels whose secrets are erased before they wait for anybody: a code handed
\* over, a password asked for, a secret or a key that only readiness erases, a restart
\* that needs them all, a tunnel without any.
ErasingConfs ==
    {[C("vpn", "manual", FALSE, TRUE) EXCEPT !.asks = TRUE],
     C("vpn", "manual", FALSE, TRUE), C("vpn", "secret", TRUE, TRUE),
     C("ipsec", "secret", FALSE, FALSE), C("local", "none", FALSE, FALSE),
     [C("ssh", "none", FALSE, FALSE) EXCEPT !.listens = FALSE]}

\* Tunnels that learn an identity only from a login, and keep what they know of
\* it while they run; one that waits for the code before it sends anything.
LearningConfs ==
    {C("vpn", "none", FALSE, TRUE), C("vpn", "manual", FALSE, TRUE),
     C("vpn", "secret", TRUE, TRUE), C("vpn", "manual", TRUE, FALSE),
     C("ssh", "none", TRUE, FALSE), C("ipsec", "manual", FALSE, FALSE)}
=============================================================================
