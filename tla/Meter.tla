------------------------------- MODULE Meter --------------------------------
(***************************************************************************)
(* task_modbus_async: a loop that reads the building's current every       *)
(* second and keeps the flag g_is_current_overload.  A reading is the      *)
(* largest of the three phases, or -1 when the meter could not be read.    *)
(***************************************************************************)
EXTENDS Integers

CONSTANTS
  Readings,         \* what the meter can show, -1 among them
  CurrentOverload,  \* current_overload
  MeterTimeout,     \* disconnect_timeout, in ticks
  ZeroIsFailure     \* meter_type 1: a reading of zero counts as no reading

ASSUME MeterAssumption ==
  /\ Readings \subseteq Nat \union {-1}
  /\ CurrentOverload \in Nat
  /\ MeterTimeout \in Nat
  /\ ZeroIsFailure \in BOOLEAN

VARIABLES
  reading,     \* what the meter shows at present
  sinceMeter,  \* ticks since g_last_modbus_response_time, up to one too many
  overload     \* g_is_current_overload

meterVars == <<reading, sinceMeter, overload>>

\* No reading yet: the time of the last one is 0, an age ago.
MeterInit ==
  /\ reading \in Readings
  /\ sinceMeter = MeterTimeout + 1
  /\ overload = FALSE

\* modus_request()
Read(r) == IF ZeroIsFailure /\ r = 0 THEN -1 ELSE r

SilenceIgnored(r, elapsed) == r > CurrentOverload \* mutant: no timeout of the meter
Overloaded(r, elapsed) == elapsed > MeterTimeout \/ r > CurrentOverload

Relieved(r) == r >= 0 /\ r < CurrentOverload

\* modbus_loop(): exactly at the limit, or without a reading, the flag stays.
MeterPoll ==
  LET r == Read(reading)
      elapsed == IF r >= 0 THEN 0 ELSE sinceMeter
  IN /\ sinceMeter' = elapsed
     /\ overload' = IF Overloaded(r, elapsed) THEN TRUE
                    ELSE IF Relieved(r) THEN FALSE ELSE overload
     /\ UNCHANGED reading

MeterChange == reading' \in Readings \ {reading} /\ UNCHANGED <<sinceMeter, overload>>

MeterTypeOK ==
  /\ reading \in Readings
  /\ sinceMeter \in 0..(MeterTimeout + 1)
  /\ overload \in BOOLEAN
=============================================================================
