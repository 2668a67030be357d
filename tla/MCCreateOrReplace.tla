------------------------- MODULE MCCreateOrReplace -------------------------
(* CreateOrReplace for TLC: no selector (it matches every object), or one   *)
(* that matches the first value only.                                       *)
EXTENDS CreateOrReplace, TLC
MCSelectors == {Values, {CHOOSE v \in Values : TRUE}}
MCSymmetry == Permutations(Clients)
=============================================================================
