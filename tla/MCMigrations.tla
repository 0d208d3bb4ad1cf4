---------------------------- MODULE MCMigrations ----------------------------
(* Three processes that start together on three migrations. *)
EXTENDS Migrations
CONSTANTS p1, p2, p3, tenant_a, tenant_b
MCProcs == {p1, p2, p3}
MCDevTenants == {tenant_a, tenant_b}
=============================================================================
