-------------------------- MODULE MCFormValidation --------------------------
(* A second field that is added to the page later: checked by the server      *)
(* together with the first one, or to repeat it.                             *)
EXTENDS FormValidation, TLC

Plain == [required |-> FALSE, min |-> 0, max |-> 0, equalto |-> {}, remote |-> {}]

User == [Plain EXCEPT !.required = TRUE, !.remote = {"user"}]

MCMarkups ==
  {("user" :> User) @@ ("mail" :> [Plain EXCEPT !.min = 1, !.max = 1, !.remote = {"user", "mail"}]),
   ("user" :> User) @@ ("mail" :> [Plain EXCEPT !.max = 1, !.equalto = {"user"}])}

MCAccepts == {key \in Keys : key # None /\ "user" \in DOMAIN key /\ key["user"] = 2}
=============================================================================
