----------------------------- MODULE MCCluster -----------------------------
\* A product server and the cart server with their webs; two ephemeral ports,
\* so that one that a process leaves is soon another's.
EXTENDS Cluster

MCKind == [s1 |-> "product", c1 |-> "cart", w1 |-> "product_web", v1 |-> "cart_web"]
MCConfPort == [product_web |-> 11, cart_web |-> 12, cart |-> 13]
MCRepairs == {{}, {"resolver"}, {"resolver", "name", "order", "clients"}}
=============================================================================
