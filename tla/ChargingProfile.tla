-------------------------- MODULE ChargingProfile ---------------------------
(***************************************************************************)
(* The arithmetic between a power rate, in percent, and the limit that a   *)
(* charging profile carries, in amperes for AC and in watts for DC, and    *)
(* what a charge point makes of a profile as time passes.                  *)
(***************************************************************************)
EXTENDS Integers

MaxCurrent == 32
MinCurrent == 6
MinPower == 2000

\* Limits too small to charge with are sent as 0.
NotFloored(limit, least) == limit \* mutant: the cut at the least limit is gone
Floored(limit, least) == IF limit < least THEN 0 ELSE limit

\* int() truncates, and no rate below zero gets here.
Amps(rate) == Floored((rate * MaxCurrent) \div 100, MinCurrent)
Watts(rate, maxPower) == Floored((rate * maxPower) \div 100, MinPower)

\* The schedule has two periods: the limit, and what it runs down to.
InForce(profile, age) == IF age < profile.start THEN profile.limit ELSE profile.rest
=============================================================================
