----------------------------- MODULE MCAutoCode -----------------------------
(* AutoCode on a small instance for TLC.                                   *)
EXTENDS AutoCode, MCTunnel

\* A tunnel whose codes the daemon fetches.
Automated == C("ipsec", "manual", FALSE, FALSE)

\* Beside it, the tunnels that learn an identity, whose users type the codes.
SourcesOfCodes ==
    {<<Automated, "imap">>, <<Automated, "command">>}
        \cup (LearningConfs \X {"none"})
=============================================================================
