----------------------------- MODULE MCFileSync -----------------------------
(* Instances of FileSync for TLC. *)
EXTENDS FileSync

CONSTANTS root, sub, a, b, x

\* The last file lies in the subdirectory, the others in the root.
Place == (a :> root) @@ (b :> root) @@ (x :> sub)

\* All files lie in the root.
Flat == (a :> root) @@ (b :> root) @@ (x :> root)
=============================================================================
