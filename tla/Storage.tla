------------------------------- MODULE Storage -------------------------------
(***************************************************************************)
(* The contract's key-value storage.  A family of keys with one parameter, *)
(* DataKey::Question(id) for example, is a function whose DOMAIN is the    *)
(* set of parameters with an entry: has() is membership of the DOMAIN,     *)
(* set() is Put, remove() is Without.                                      *)
(***************************************************************************)
EXTENDS Functions

Put(map, key, value) ==
  [k \in DOMAIN map \cup {key} |-> IF k = key THEN value ELSE map[k]]

Without(map, key) == Restrict(map, DOMAIN map \ {key})

\* The empty family: no key has an entry.
NoEntries == [k \in {} |-> k]
=============================================================================
