------------------------------ MODULE MCRegistry ------------------------------
(* An instance of Registry for TLC. *)
EXTENDS Registry

None == [from |-> 0, until |-> 0, revoked |-> 9]     \* no certificate for the key

Held(from, until, revoked) == [from |-> from, until |-> until, revoked |-> revoked]

Deployment(key, old, new, until, sources) ==
  [key |-> key, certificate |-> [k \in {"old", "new"} |-> IF k = "old" THEN old ELSE new],
   from |-> 0, until |-> until, sources |-> sources]

Within(from, until) == [from |-> from, until |-> until]

(* The first bundle revokes its key at 4 by an announcement, and runs out.    *)
(* The second rotates the key: another one is in office from 2 to 4, and the  *)
(* first one stays; a source is revoked at 3.                                 *)
Rotation ==
  {Deployment("old", Held(0, 9, 4), None, 5, Within(0, 9)),
   Deployment("new", Held(0, 9, 9), Held(2, 4, 9), 9, Within(0, 3))}
=============================================================================
