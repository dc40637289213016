------------------------------ MODULE MCLayers ------------------------------
(* Images of two layers: one that adds, and one that adds and hides.        *)
EXTENDS Layers, FiniteSets

A  == <<"a">>
AB == <<"a", "b">>
C  == <<"c">>

SmallTree == {A, AB, C}

Adds  == {Entry("dir", A), Entry("dir", C)} \cup {Entry("file", p) : p \in SmallTree}
Hides == {Entry("whiteout", p) : p \in SmallTree} \cup {Entry("opaque", A), Entry("other", C)}

ListsOf(entries, n) ==
  {s \in UNION {[1 .. m -> entries] : m \in 0 .. n} :
     \A i, j \in DOMAIN s : i # j => s[i].path # s[j].path \/ s[i].type # s[j].type}

SmallImages == {<<l1, l2>> : l1 \in ListsOf(Adds, 3), l2 \in ListsOf(Adds \cup Hides, 3)}
=============================================================================
