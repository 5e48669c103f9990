------------------------------- MODULE MCBoot -------------------------------
\* Instances of Boot for TLC: who runs migrations on the nodes.
EXTENDS Boot

CONSTANTS n1, n2

MCRunners == {<<n1, "boot">>, <<n2, "boot">>, <<n1, "tick1">>, <<n1, "tick2">>, <<n1, "cli">>}

=============================================================================
