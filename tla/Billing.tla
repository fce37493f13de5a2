------------------------------- MODULE Billing -------------------------------
(***************************************************************************)
(* The amount that calc_bill charges for a stay (billing.c): 5 cents a     *)
(* millisecond, of a stay rounded to 5 milliseconds.  ExitGate models who  *)
(* is billed, and when; ExitGateProofs has what is proved about the        *)
(* arithmetic.                                                             *)
(*                                                                         *)
(* Times are whole microseconds.  The code keeps seconds in a long double  *)
(* (a mantissa of 64 bits, finer than that), and converts milliseconds to  *)
(* an int of 32 bits, which is undefined for a stay of 25 days, or for an  *)
(* entry_time of 0 on a machine that has been up for as long: x86 makes it *)
(* INT_MIN.                                                                *)
(***************************************************************************)
EXTENDS Integers

\* int: what delta_ms and delta_ms_rounded can hold.
INT_MAX == 2147483647
INT_MIN == -INT_MAX - 1

\* delta_time * 1000, to whole milliseconds.
Millis(entry_time, exit_time) == (exit_time - entry_time) \div 1000

\* int delta_ms = delta_time * 1000
DeltaMs(entry_time, exit_time) ==
  IF Millis(entry_time, exit_time) <= INT_MAX
  THEN Millis(entry_time, exit_time)
  ELSE INT_MIN

\* Division of C: towards 0.
Quotient(n, d) == IF n >= 0 THEN n \div d ELSE -((-n) \div d)

\* int delta_ms_rounded = ((delta_ms + 5 / 2) / 5) * 5
Rounded(delta_ms) == Quotient(delta_ms + Quotient(5, 2), 5) * 5

\* rounded * 50 dollars, in cents.
BillOf(delta_ms) == (Rounded(delta_ms) * 5000) \div 1000

=============================================================================
