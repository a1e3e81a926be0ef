------------------------------ MODULE MCFiles ------------------------------
EXTENDS VirtualFiles
CONSTANTS s1, s2, a, b
ConstPaths == {<<s1, a>>, <<s1, b>>, <<s1, a, a>>, <<s1, b, a>>, <<s2, a>>}
ConstBuckets == {{}, {s1}}
Symmetry == Permutations(Contents)
=============================================================================
