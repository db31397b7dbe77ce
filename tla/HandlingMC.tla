----------------------------- MODULE HandlingMC -----------------------------
(* A small instance of Handling for TLC.                                    *)
EXTENDS Handling

Sample(measurand, phase, value) ==
  [measurand |-> measurand, phase |-> phase, value |-> value]

\* One of every way through on_MeterValues(): phases, what is read and what is
\* not, no power, power given back, and a value that is no number.
MeterSamples ==
  {Sample("Current.Import", "L1", 16), Sample("Current.Import", "L2", 10),
   Sample("Current.Import", "N", 1), Sample("Voltage", Absent, 230),
   Sample("Power.Active.Import", Absent, 4000),
   Sample("Power.Active.Import", Absent, 0),
   Sample("Power.Active.Import", Absent, -4001),
   Sample("Energy.Active.Import.Register", Absent, Unreadable),
   Sample("SoC", Absent, 50), Sample(Absent, Absent, 9)}
=============================================================================
