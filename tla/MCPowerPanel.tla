---------------------------- MODULE MCPowerPanel ----------------------------
\* Small instances of PowerPanel: interchangeable browsers and requests.
EXTENDS PowerPanel, TLC

Symmetry == Permutations(Clients) \union Permutations(Requests)
=============================================================================
