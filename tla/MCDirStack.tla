----------------------------- MODULE MCDirStack -----------------------------
(* Small file systems for DirStack: "." stands for the entries every         *)
(* directory has, a and b are directories, x is a file.                      *)
EXTENDS DirStack, TLC

CONSTANTS t1, t2

\* top holds a and x, a holds b, b is empty.
MCDirectory == {"top", "a", "b"}
MCEntries == "top" :> {".", "a", "x"} @@ "a" :> {".", "b", "y"} @@ "b" :> {"."}
MCRoot == t1 :> "top"
=============================================================================
