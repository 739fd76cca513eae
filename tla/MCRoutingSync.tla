--------------------------- MODULE MCRoutingSync ---------------------------
\* Two isolates, two addresses of which one follows the other in either order, rules that fill
\* several pages.
EXTENDS RoutingSync

MCOrder == [a \in {"info", "sales"} |-> IF a = "info" THEN 1 ELSE 2]
=============================================================================
