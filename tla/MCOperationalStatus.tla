------------------------- MODULE MCOperationalStatus -------------------------
EXTENDS StatusQuery

CONSTANTS DATA_COLLECTION, DESIRED_RULES, m1, c1, c2

MCCategories == {DATA_COLLECTION, DESIRED_RULES}
\* One message is enough to tell a set condition from a cleared one.
MCMsgs == {m1}
\* Two runs of `auomsctl status', so that one connection can wait in the
\* backlog while the listener serves the other, and a report built for one
\* could reach the other.
MCClients == {c1, c2}

=============================================================================
