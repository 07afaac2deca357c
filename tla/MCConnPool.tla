----------------------------- MODULE MCConnPool -----------------------------
(* Instances of ConnPool for TLC. *)
EXTENDS ConnPool, TLC

\* One request, and two different requests whose joined names are equal.
Request(u, d, p) == [uid |-> u, database |-> d, password |-> p]
OneRequest == {Request(<<"u">>, <<"d">>, <<"p">>)}
TwoRequests == {Request(<<"u">>, <<"x", "d">>, <<"p">>),
                Request(<<"u", "x">>, <<"d">>, <<"p">>)}

Symmetry == Permutations(Threads) \cup Permutations(Handles)
              \cup Permutations(Dbcs)
=============================================================================
