-------------------------- MODULE MCFederationRouter --------------------------
(* Rows of the tables and symmetry for model checking FederationRouter. *)
EXTENDS FederationRouter, TLC

CONSTANTS n1, n2, t1, g1, g2

\* One tenant has a route of either weight to a second region.
SomeRoutes ==
    {[tenant |-> t1, region |-> g2, node |-> n1, weight |-> 50],
     [tenant |-> t1, region |-> g2, node |-> n2, weight |-> 100]}

\* The primary node of any tenant, if it has one.
SomeHomes == {[node |-> n1, region |-> g1]}

Symmetry == Permutations(Request) \cup Permutations(Database)
=============================================================================
