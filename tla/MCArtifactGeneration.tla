------------------------ MODULE MCArtifactGeneration ------------------------
EXTENDS ArtifactGeneration, TLC

Asking(kind, id) == [kind |-> kind, id |-> id]
MCAsk == {Asking("create", 1), Asking("delete", 1), Asking("delete", 2), Asking("cells", 1),
          Asking("mapping", 1), Asking("rename", 1), Asking("read", 2)}

Symmetry == Permutations(Request) \cup Permutations(Generation)
=============================================================================
