---------------------------- MODULE MCGraphClient ----------------------------
(* Two tasks and two tenants, and room for one client.                      *)
EXTENDS GraphClient

MCTasks == {"t1", "t2"}
MCTenants == {"n1", "n2"}
MCClients == {"c1", "c2", "c3"}
==============================================================================
