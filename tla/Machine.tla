------------------------------- MODULE Machine -------------------------------
(***************************************************************************)
(* The integers of the machine.  Half stands for 2^63: a signed integer    *)
(* lies between -Half and Half - 1, an unsigned one between 0 and          *)
(* 2 * Half - 1.                                                           *)
(***************************************************************************)
EXTENDS Integers

CONSTANTS
  OverflowChecks,   \* whether the build checks integer overflow (debug)
  Half              \* 2^63

ASSUME MachineAssumption == OverflowChecks \in BOOLEAN /\ Half \in Nat \ {0}

Fits(n) == -Half <= n /\ n < Half

\* The cast "as i64" of an unsigned integer.
AsSigned(n) == IF n < Half THEN n ELSE n - 2 * Half

\* What is left of an i64 that overflows without a check.
Wrapped(n) == ((n + Half) % (2 * Half)) - Half
=============================================================================
