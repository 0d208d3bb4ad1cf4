---------------------------- MODULE MCTenantScope ----------------------------
(* Two requests of two tenants, each with a parent; each may create one. *)
EXTENDS TenantScope
CONSTANTS a, b, pa, pb, pc, pd, c1, c2
MCTenants == {a, b}
MCParents == {pa, pb, pc, pd}
MCExisting == {<<pa, a>>, <<pb, b>>}
\* An unknown tenant is turned away whatever it asks.
MCInputs ==
    [slug : MCTenants, op : {"create", "list"}]
    \cup [slug : MCTenants, op : {"get"}, id : {pa, pb, pc}]
    \cup [slug : MCTenants, op : {"upload"}, id : {pa, pb}]
    \cup [slug : MCTenants, op : {"turn"}, id : {pa, pb}, collection : {pa, pb}]
    \cup {[slug |-> Unknown, op |-> "list"]}
MCConns == {c1, c2}
=============================================================================
