------------------------------ MODULE MCUpdater ------------------------------
\* Small instances of Updater.
EXTENDS Updater, TLC
=============================================================================
