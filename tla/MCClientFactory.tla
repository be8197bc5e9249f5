--------------------------- MODULE MCClientFactory ---------------------------
(* An appliance under two names, and lists of versions of every kind: those  *)
(* of two shipped years, one above the ceiling, one in a gap, one with a     *)
(* month that does not exist, and none at all.                               *)
EXTENDS ClientFactory

CONSTANTS alias, address

V(y, m, p) == [year |-> y, minor |-> m, patch |-> p]

MCSupported == {V(25, 10, 0), V(25, 10, 5), V(27, 0, 0), V(28, 0, 0), V(29, 0, 0)}
MCMin == V(25, 10, 0)
MCMax == V(28, 0, 0)
MCClients == {<<25, 10>>, <<27>>, <<28>>}
MCHostnames == <<alias, address>>
MCOffers ==
  { {}, {NoShape, V(25, 13, 0)}, {V(24, 4, 0)}, {V(29, 0, 0)}, {V(26, 0, 0)},
    {V(24, 4, 0), V(29, 0, 0)},
    {V(25, 10, 0), V(25, 10, 5), V(26, 0, 0)},
    {V(25, 10, 5), V(27, 0, 0), V(29, 0, 0)} }
=============================================================================
