----------------------------- MODULE MCCliBatch -----------------------------
(***************************************************************************)
(* Three files: two with the same stem in different directories, and one   *)
(* whose name differs from theirs only in a character that output_stem     *)
(* replaces.                                                               *)
(***************************************************************************)
EXTENDS CliBatch

Files == {"dir/a", "other/a", "a."}
Stems == [f \in Files |-> IF f = "a." THEN 2 ELSE 1]
Safe  == [s \in {1, 2} |-> 1]

Known(converts) == [kind |-> "MT540", converts |-> converts]

Messages ==
  [f \in Files |-> CASE f = "dir/a"   -> <<Known(TRUE), Known(FALSE)>>
                     [] f = "other/a" -> <<[kind |-> "MT999", converts |-> TRUE]>>
                     [] f = "a."      -> <<Known(TRUE)>>]
=============================================================================
