------------------------------- MODULE RgaGuardMC -------------------------------
(* p105 well below the limits, between them with a bad quality (neither a   *)
(* reason to switch emission off nor to allow it), and at the upper one.    *)
EXTENDS RgaGuard

MCReadings == {[level |-> 0, ok |-> TRUE],
               [level |-> EmLimit, ok |-> FALSE],
               [level |-> EmissionLimit, ok |-> TRUE]}
===============================================================================
