----------------------------- MODULE MCReverify -----------------------------
\* The re-verify schedule alone, with a jitter for each of three rows.
EXTENDS Reverify

MCHash == <<0, 1, 1>>
=============================================================================
