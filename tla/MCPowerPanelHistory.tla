------------------------- MODULE MCPowerPanelHistory -------------------------
\* Small instances of PowerPanel with its history variables.
EXTENDS PowerPanelHistory, TLC

Symmetry == Permutations(Clients) \union Permutations(Requests)
=============================================================================
