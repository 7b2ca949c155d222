------------------------------ MODULE MCReadLine ------------------------------
(* Peer inputs for the readLine runs: every sequence of up to 4 bytes over *)
(* {"a", CR, LF}, so lines end early, late, with CR LF, or not at all.      *)
EXTENDS ReadLine

CONSTANTS cr, lf, nul

MCInputs == UNION {[1..n -> {"a", cr, lf}] : n \in 0..4}

=============================================================================
