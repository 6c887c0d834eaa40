---------------------------- MODULE MCPruneTree ----------------------------
(* Trees for PruneTree: object 1 is the Areas folder.                      *)
EXTENDS PruneTree

AnyTree == {in \in [Planted -> Planted \cup {Root}] :
               in[1] = Root /\ \A o \in Planted : in[o] < o}
Chain   == {[o \in Planted |-> o - 1]}
=============================================================================
