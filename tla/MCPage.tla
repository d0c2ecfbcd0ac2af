------------------------------- MODULE MCPage -------------------------------
EXTENDS Page, TLC
CONSTANTS a, b, i, j
MCServer == {a, b}
MCItem == {i, j}
MCSymmetry == Permutations(MCServer) \cup Permutations(MCItem)
MCWatch == DOMAIN View
\* Three at a time, but two for the largest graphs.
MCOpen ==
  [l \in MCWatch |->
     IF l \in {"servers", "files", "schedules", "members", "backups", "templates",
               "nodes", "users", "webhooks", "announcements"}
     THEN 2 ELSE 3]
=============================================================================
