---------------------------- MODULE MCBmcCache ----------------------------
\* Small instances of BmcCache.
EXTENDS BmcCache, TLC
=============================================================================
