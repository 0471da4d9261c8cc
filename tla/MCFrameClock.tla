---- MODULE MCFrameClock ----
(* FrameClock for TLC: geFloats of two bits, so that rounding starts at 5 ms. *)
EXTENDS FrameClock
MCFloat(n) == IF n <= 4 THEN n ELSE 2 * (n \div 2) + (IF n % 4 = 3 THEN 2 ELSE 0)
MCExact(n) == n
MCJunk == {0, 3}
====
