----------------------------- MODULE MCAccounts -----------------------------
(* Bounds for model checking Accounts; the .cfg files set the sets.         *)
EXTENDS Accounts, TLC

CONSTANTS w1, w2, ann, Ann, bob, old, new, annas, others, slug

\* ann and Ann are spellings of one address; two shop names have one slug.
MCNormal == [s \in Spellings |-> IF s = Ann THEN ann ELSE s]
MCSlug == [n \in Names |-> slug]

Symmetry == Permutations(Workers) \cup Permutations(Passwords)
=============================================================================
