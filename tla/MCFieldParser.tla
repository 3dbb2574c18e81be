---------------------------- MODULE MCFieldParser ----------------------------
(***************************************************************************)
(* FieldParser on every text of a few fields.                              *)
(***************************************************************************)
EXTENDS FieldParser

(* A statement line and its variant share a name, as anchor_tag and        *)
(* alt_anchor_tags do; A is also a name of bracketed sequences.            *)
StatementLines ==
  << [name |-> "A", anchor |-> "61", members |-> {"86"}],
     [name |-> "A", anchor |-> "62", members |-> {"86"}] >>
=============================================================================
