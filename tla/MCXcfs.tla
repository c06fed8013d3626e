------------------------------- MODULE MCXcfs ------------------------------
EXTENDS Xcfs
\* Two paths in the root directory, and one below one of them.
MCPaths == {"/", "/a", "/b", "/d", "/d/x"}
MCParentOf == [p \in MCPaths |-> IF p = "/d/x" THEN "/d" ELSE "/"]
============================================================================
