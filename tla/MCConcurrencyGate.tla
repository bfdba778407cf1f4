-------------------------- MODULE MCConcurrencyGate --------------------------
(*****************************************************************************)
(* The gate behind the quota windows: no limits (or limits of one, which the *)
(* safety margin makes none), limits by the minute, limits by the day.       *)
(*****************************************************************************)
EXTENDS Quota

CONSTANTS c1, c2, c3

Quota_(rpm, tpm, rpd) == [rpm |-> rpm, tpm |-> tpm, rpd |-> rpd]
MCQuotas == {Quota_(1, 0, 1), Quota_(2, 0, 0), Quota_(0, 4, 4)}
===============================================================================
