------------------------------ MODULE MCClock -------------------------------
(* A second of 10 ticks, calibrated over 8 of them.  The slower machine may  *)
(* be measured too slow to be believed, on the faster one the product of the *)
(* uptime overflows after 11 ticks.                                          *)
EXTENDS Clock

\* Two seconds before every field carries, and before the leap day.
MCDates == {<<58, 59, 23, 31, 12, 25>>, <<58, 59, 23, 28, 2, 24>>}
=============================================================================
