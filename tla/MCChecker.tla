------------------------------ MODULE MCChecker ------------------------------
(* An instance of Checker: a public, a private, a loopback and the server's *)
(* own machine, in the notations that the code treats differently, and the  *)
(* numbers on both sides of every limit of Validate.                        *)
EXTENDS Checker

A(form, class, host) == [form |-> form, class |-> class, host |-> host]

MCAddrs == {A("plain", "public", 1), A("mapped", "private", 2), A("nat64", "private", 2),
            A("nat64", "loopback", 3), A("sixTo4", "public", 4), A("zoned", "reserved", 5)}
MCSelfAnswer == {A("mapped", "public", 4), A("plain", "private", 2)}
MCStatuses == {<<[lo |-> 200, hi |-> 299], [lo |-> 401, hi |-> 401]>>,
               <<[lo |-> 200, hi |-> 200], [lo |-> 99, hi |-> 300]>>,
               <<[lo |-> NaN, hi |-> NaN]>>}
MCNumbers == {<<30, 29999, 20>>, <<86400, 60000, 1>>, <<30, 30000, 1>>, <<29, 500, 1>>,
              <<86401, 500, 1>>, <<86400, 60001, 1>>, <<30, 499, 1>>, <<30, 500, 0>>, <<30, 500, 21>>}
=============================================================================
