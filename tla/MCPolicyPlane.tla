--------------------------- MODULE MCPolicyPlane ---------------------------
(* TLC instance of PolicyPlane: two processes, two connection slots. *)
EXTENDS PolicyPlane

Pol(e, b, s, x, z) == [epoch |-> e, body |-> b, sealed |-> s, expires |-> x,
                       size |-> z]
MCOperator == {Pol(1, "audit", FALSE, FALSE, "fits"),
               Pol(2, "jail", TRUE, TRUE, "fits"),
               Pol(2, "jail", FALSE, FALSE, "big")}
Opt(n, d, f, r, k) ==
    [fixedNonce |-> n, distrusts |-> d, family |-> f, entries |-> r, events |-> k]
MCOptionSet == {Opt(TRUE, {}, {"a1"}, 2, 3), Opt(FALSE, {}, {"a1"}, 2, 3),
                Opt(TRUE, {"a2"}, {"a1", "a2"}, 3, 2)}
=============================================================================
