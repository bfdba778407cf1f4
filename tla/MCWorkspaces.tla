----------------------------- MODULE MCWorkspaces -----------------------------
EXTENDS Workspaces

MCDirOf == [d \in Docs |-> IF d = "d1" THEN "A" ELSE "B"]
MCMaxOps == [dashboard |-> 3, tenants |-> 2, program |-> 3]
===============================================================================
