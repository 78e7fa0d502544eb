----------------------------- MODULE MCSitePages -----------------------------
(* SitePages on small instances.                                           *)
EXTENDS SitePages, TLC

\* The sitemap of posts is kept in the way of the albums', for a shorter time.
MCShown == {"sitemap-albums", "home-albums", "home-posts", "badge"}

\* 1, 6, 12 and 24 hours, shortened.
MCTTL == [l \in Layer |->
            IF l \in {"home-posts", "badge", "posts"} THEN 1 ELSE 2]

Symmetry == Permutations(Visitor) \cup Permutations(Command)
=============================================================================
