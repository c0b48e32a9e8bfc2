----------------------------- MODULE MCPackages -----------------------------
(* Small instances of PhotoshootPackages for TLC. *)
EXTENDS PhotoshootPackages, TLC

\* Two packages whose showcases stay as they are, or one whose showcase is edited.
MCSettings == {[packages |-> 2, files |-> 6, edits |-> FALSE],
               [packages |-> 1, files |-> 3, edits |-> TRUE]}

=============================================================================
