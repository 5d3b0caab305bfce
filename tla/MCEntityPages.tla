---------------------------- MODULE MCEntityPages ----------------------------
(* Small instances of EntityPages for TLC. *)
EXTENDS EntityPages

AllPages == {"datacenters", "rooms", "corridors", "racks", "vlans", "fabrics", "licenses",
             "subnets", "addresses", "links", "lags", "interfaces", "integrations", "types",
             "clusters", "hosts", "vms", "users", "alerts"}

\* A row at first and one that may be created: of one page they have the same
\* list page, of another one each.
TwoRows == 1..2
OneRow == {1}
MCPageSize == [p \in AllPages |-> IF p = "datacenters" THEN 1 ELSE 2]
=============================================================================
