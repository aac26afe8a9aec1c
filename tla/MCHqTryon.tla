----------------------------- MODULE MCHqTryon -----------------------------
\* One try-on with its child, one other identity job, one disk fault, one exit.
EXTENDS HqTryon, TLC
=============================================================================
