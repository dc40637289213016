---------------------------- MODULE MCImageStore ----------------------------
(* Small instances of ImageStore.                                           *)
EXTENDS ImageStore, TLC

CONSTANTS i1, i2, i3, r1, k1

\* busybox:latest and busybox_latest have one directory.
DirOfName == "busybox:latest" :> "busybox_latest" @@ "busybox_latest" :> "busybox_latest"
               @@ "demo:latest" :> "demo_latest"

OneName  == [x \in {i1, i2, i3, r1, k1} |-> "busybox:latest"]
TwoNames == [OneName EXCEPT ![k1] = "busybox_latest"]

\* Installs differ only in their kind, which is chosen at the start.
Symmetry == Permutations(Installs)
=============================================================================
