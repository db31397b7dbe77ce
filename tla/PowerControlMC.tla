--------------------------- MODULE PowerControlMC ---------------------------
(* Small instances of PowerControl: an AC charger of 7 kW or a DC charger   *)
(* of 60 kW.                                                                *)
EXTENDS PowerControl

UsualPower == [k \in Connectors |-> IF k \in DC THEN 60000 ELSE 7000]

\* A reading that fails, and one below, at and above an overload limit of 1.
AllReadings == -1..2
ThreeReadings == {-1, 0, 2}
TwoReadings == {0, 2}

\* The central system behind the proxy clears the profile.
Cleared == {NoProfile}

\* Full power, and a rate no charger is ever sent.
OddRates == {100, -1}
=============================================================================
