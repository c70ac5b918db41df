----------------------------- MODULE MCAccounts -----------------------------
(* One customer, or two riders, or two admins. *)
EXTENDS Accounts, TLC

CONSTANTS a1, a2, q1, q2

MCCasts == {a1 :> "customer" @@ a2 :> "nobody", a1 :> "nobody" @@ a2 :> "customer",
            a1 :> "rider" @@ a2 :> "rider",
            a1 :> "admin" @@ a2 :> "admin"}
Symmetry == Permutations({q1, q2}) \union Permutations({a1, a2})
=============================================================================
