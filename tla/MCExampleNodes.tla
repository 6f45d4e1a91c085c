--------------------------- MODULE MCExampleNodes ---------------------------
(* A small instance of ExampleNodes for TLC.  A tick takes 0.7 ms, so that *)
(* ticks come 50.0 ms apart, or 125.5 ms when late, and later by 0.7 ms    *)
(* for each setter called in between; half periods of 83.333 (83 in        *)
(* milliseconds), 50, 41.666 and 25 ms.                                    *)
EXTENDS ExampleNodes

MCGaps     == {49300000, 124800000}
MCLags     == {700000}
MCTimeouts == {100, 175}
MCRates    == {6, 10}
=============================================================================
