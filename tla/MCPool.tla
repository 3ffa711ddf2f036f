------------------------------- MODULE MCPool -------------------------------
(* Model-checking instances of Pool. *)
EXTENDS Pool, TLC

Symmetry == Permutations(Admins) \union Permutations(Accounts) \union Permutations(Keys)

\* A tree of one note, as rich as a note can be.
RichTrees == {<<[owner |-> k, amount |-> MaxExtAmount - 1]>> : k \in Keys}

\* A membership tree that has every key, and an empty block list.
OpenTrees == {<<k>> : k \in Keys}
NobodyBlocked == {{}}

Nothing == {}
=============================================================================
