------------------------------ MODULE SmbReply ------------------------------
(***************************************************************************)
(* The outcomes of a native operation and what its caller gets to see.     *)
(***************************************************************************)
CONSTANT Values   \* what a native operation can return

(***************************************************************************)
(* How the caller consumes the reply.  "value": getObj, getInt, getLong    *)
(* (stat, openDir, openFile, readDir, read, write, seek, fstat); "check":  *)
(* checkException only (createFile, mkdir, rename, unlink, rmdir, close);  *)
(* "ignore": nothing is looked at (reset and the credential operations).   *)
(***************************************************************************)
Kinds == {"value", "check", "ignore"}

Exceptions == {"IOException", "RuntimeException"}

None == "null"

ASSUME ValuesAssumption == Values \cap (Exceptions \cup {"done", None}) = {}

(* The outcomes a native operation whose reply is consumed as k can have. *)
Outcomes(k) == Exceptions \cup (IF k = "value" THEN Values ELSE {"done"})

(* What the caller learns of an outcome. *)
Seen(k, o) == IF k = "ignore" THEN "done" ELSE o
=============================================================================
