---------------------------- MODULE MCFeedCrawl ----------------------------
\* Small instances of FeedCrawl for TLC.
EXTENDS FeedCrawl, TLC

CONSTANTS u1, u2, g1, g2

\* The documents the site publishes.
OneItem     == <<{g1}>>
OneVersion  == <<{g1, g2}>>
TwoVersions == <<{g1}, {g1, g2}>>

\* Subscribers are interchangeable.
Subscribers == Permutations(User)

=============================================================================
