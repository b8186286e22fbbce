------------------------------- MODULE MCStores -------------------------------
(* Instances of Stores for TLC: two rows of every repository, two names,    *)
(* three keys and two times; every e-mail has two spellings, the two orders *)
(* one amount.                                                              *)
EXTENDS Stores, TLC

CONSTANTS n1, n2, N1, N2, k1, k2, k3
MCLower == [s \in {n1, n2, N1, N2} |-> CASE s = N1 -> n1 [] s = N2 -> n2 [] OTHER -> s]
MCAmount == [id \in Ids |-> 5]

\* Keys are alike, and so are the two names, each with its other spelling.
Swapped == (n1 :> n2) @@ (n2 :> n1) @@ (N1 :> N2) @@ (N2 :> N1)
KeysAndNamesAlike ==
  Permutations(Keys) \cup {[v \in Keys \cup DOMAIN Swapped |->
                              IF v \in Keys THEN p[v] ELSE Swapped[v]] : p \in Permutations(Keys)}
=============================================================================
