------------------------------ MODULE MCSignIn -------------------------------
(* The small limiters of the checked instance of SignIn.                   *)
EXTENDS SignIn, TLC

MCBurst == [lim \in Limiters |-> IF lim = "ip" THEN 2 ELSE 1]
MCInterval == [lim \in Limiters |-> 1]
MCMaxKeys == [lim \in Limiters |-> 1]

Interchangeable == Permutations(Requests)
=============================================================================
