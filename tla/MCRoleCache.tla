----------------------------- MODULE MCRoleCache -----------------------------
(* Two users of a tenant; the tenant is invalidated, or one of the users.   *)
EXTENDS RoleCache

MCUsers == {"ann", "bob"}
MCPrefixes == {"tenant", "tenant:ann"}
MCUnder == [p \in MCPrefixes |-> IF p = "tenant" THEN MCUsers ELSE {"ann"}]
MCRequests == {"r1"}
==============================================================================
