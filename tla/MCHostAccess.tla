----------------------------- MODULE MCHostAccess -----------------------------
(* HostAccess for TLC: two kinds of rules. *)
EXTENDS HostAccess

CONSTANTS g1, g2, c1, c2

\* A rule for the caller by name and one for the caller's group.
MCLinks == {[who |-> {"name"}, groups |-> {g1}, creds |-> {c1}],
            [who |-> {"group"}, groups |-> {g2}, creds |-> {c2}]}
=============================================================================
