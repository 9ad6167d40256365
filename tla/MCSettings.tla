----------------------------- MODULE MCSettings -----------------------------
(* Settings on a small instance for TLC.                                   *)
EXTENDS Settings, TLC

CONSTANTS pinA, pinB

\* Nothing set yet, or a PIN whose hash an older version wrote.
MCFirstFiles ==
    {[set |-> "pin" :> p @@ "telegram" :> 0, salted |-> FALSE] : p \in {NoPin, pinB}}
MCSettingChanges == {"pin" :> pinA, "telegram" :> 1}
=============================================================================
