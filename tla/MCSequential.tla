---------------------------- MODULE MCSequential ----------------------------
(* Values of the constants of Sequential for TLC. *)
EXTENDS Sequential

\* The first and the last second a device can be given, a leap day, and the last
\* seconds of 32 bits with the following ones, for SmpTm and for LastOpTm.
MCTime ==
  {<<2000, 1, 1, 0, 0, 0>>, <<2024, 2, 29, 12, 0, 0>>,
   <<2038, 1, 19, 3, 14, 7>>, <<2038, 1, 19, 3, 14, 8>>,
   <<2038, 1, 19, 11, 14, 7>>, <<2038, 1, 19, 11, 14, 8>>, <<2099, 12, 31, 23, 59, 59>>}
MCHurtTime == {<<2000, 1, 1, 0, 0, 0>>, <<2099, 12, 31, 23, 59, 59>>}

MCStack == {[i \in 1..8 |-> 0], [i \in 1..8 |-> 255], [i \in 1..8 |-> i]}

\* Leap years and others, of every rule, around 1901, 1970 and 2038.
MCYear == {1896, 1900, 1901, 1904, 1968, 1969, 1970, 1999, 2000, 2024, 2037, 2100}

\* Zero and the limits of an int.
MCInteger == {0, -2147483647 - 1, 2147483647}
=============================================================================
