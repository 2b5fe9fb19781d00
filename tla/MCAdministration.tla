--------------------------- MODULE MCAdministration ---------------------------
\* A small instance of Administration for TLC.
EXTENDS Administration, TLC

CONSTANTS x, y, a, b, g, h

\* One user and one feed; rows that refer to a user and a feed that are gone.
MCLegacyUsers == <<x>>
MCLegacyFeeds == <<a>>
MCLegacySubs  == {<<1, 1>>, <<2, 1>>}
MCLegacySeen  == {<<1, g>>, <<1, h>>, <<2, g>>}

=============================================================================
