----------------------------- MODULE MCBmcClient -----------------------------
\* Small instances of BmcClient.
EXTENDS BmcClient, TLC
=============================================================================
