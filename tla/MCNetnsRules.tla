----------------------------- MODULE MCNetnsRules -----------------------------
\* NetnsRules for TLC.
EXTENDS NetnsRules

CONSTANTS n1, n2

\* n2 is called like n1 with something added.
Prefix == {<<n1, n2>>}
=============================================================================
