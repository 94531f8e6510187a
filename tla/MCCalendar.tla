------------------------------ MODULE MCCalendar ------------------------------
(* The window of the code, counted from 2022, around the turn to 2024, a leap year. *)
EXTENDS EnergyKeyCalendar

\* 27 December to 4 January, when the window moves to another year, and 15 January to 4 March,
\* when the recent window begins at the turn of a month and the window ends in the leap day.
MCStart == (725 .. 733) \cup (744 .. 793)

\* Home Assistant off for as long as the recent window, a day longer, and much longer.
MCPause == {45, 46, 80}

\* Always, since the middle of a month of the window, and not before the first refresh.
MCFrom == {0, 711, 800}
===============================================================================
