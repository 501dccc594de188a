----------------------------- MODULE MCDavLocks -----------------------------
EXTENDS DavLocks, TLC

\* A collection, a member of it, and a path beside it.
ThreePaths == {<<"a">>, <<"a", "b">>, <<"c">>}

\* A collection and a member of it.
TwoPaths == {<<"a">>, <<"a", "b">>}

\* Tokens and requests are interchangeable.
Symmetry == Permutations(Tokens) \cup Permutations(Procs)
=============================================================================
