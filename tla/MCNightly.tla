----------------------------- MODULE MCNightly -----------------------------
\* One record, and one that was left half enforced, which the timer and one other run meet,
\* a window and a grace period of one day each; a run may last past one midnight.
EXTENDS Nightly

CONSTANTS a1, a2, timer, cron

MCRecords == {a1, a2}
MCHalfEnforced == {a2}
MCRuns == {timer, cron}

Left(mode, present, copy, entry) ==
  [mode |-> mode, body |-> present, transcript |-> present, copy |-> copy, entry |-> entry]

\* Only marked, with and without its cold copy; marked and emptied, with and without its entry;
\* emptied but for the transcript.
MCLeftovers ==
  {Left("reduced", TRUE, "none", 0), Left("archived", TRUE, "full", 0),
   Left("archived", TRUE, "none", 0), Left("archived", FALSE, "full", 1),
   [Left("archived", FALSE, "full", 0) EXCEPT !.transcript = TRUE]}
=============================================================================
