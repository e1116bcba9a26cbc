------------------------------ MODULE MCIntake ------------------------------
(***************************************************************************)
(* A finite instance of Intake for TLC: two events that ask for one        *)
(* withdrawal, four attempts of one token, the erasure of the user.        *)
(***************************************************************************)
EXTENDS Intake, TLC

CONSTANTS e1, e2, d1, d2, d3, d4, x1, w1, t1, u1

MCEvents  == {e1, e2, d1, d2, d3, d4, x1}
MCTopic   == (e1 :> "withdrawal") @@ (e2 :> "withdrawal") @@ (d1 :> "deploy")
               @@ (d2 :> "deploy") @@ (d3 :> "deploy") @@ (d4 :> "deploy")
               @@ (x1 :> "deleted")
MCKey     == (e1 :> w1) @@ (e2 :> w1) @@ (d1 :> d1) @@ (d2 :> d2) @@ (d3 :> d3) @@ (d4 :> d4)
               @@ (x1 :> x1)
MCSubject == (e1 :> w1) @@ (e2 :> w1) @@ (d1 :> t1) @@ (d2 :> t1) @@ (d3 :> t1) @@ (d4 :> t1)
               @@ (x1 :> u1)
MCUserOf  == w1 :> u1

\* The two handlers share no row: each is looked at alone.
MCOffers  == {{e1, e2, x1}, {d1, d2, d3, d4}}
=============================================================================
