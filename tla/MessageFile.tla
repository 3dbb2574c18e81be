----------------------------- MODULE MessageFile -----------------------------
(***************************************************************************)
(* Files of SWIFT messages, and what swift-core makes of them: a message   *)
(* per envelope, or a statement per reference where there is no envelope,  *)
(* and the fields of the first text block of a message.                    *)
(*                                                                         *)
(* A file is a sequence of tokens.  "basic" is a whole block 1, "app" a    *)
(* whole block 2, "open" and "close" the ends of a text block, "ack" the   *)
(* text block of an acknowledgement, whose inner blocks end in a brace and *)
(* not in "-}"; "line" is a field, "dash" a line with a hyphen alone,      *)
(* "words" any other text and "gap" what may separate messages.            *)
(***************************************************************************)
EXTENDS Integers, SequencesExt

(* A value: a mark (C, D, RC or RD) and an amount, whether it can be read  *)
(* as such, and a number that stands for its text; 0 is no text.           *)
Value(mark, amount, readable, text) ==
  [mark |-> mark, amount |-> amount, readable |-> readable, text |-> text]

NoValue == Value("", 0, TRUE, 0)

Token(kind, tag, value) == [kind |-> kind, tag |-> tag, value |-> value]

Block(kind) == Token(kind, "", NoValue)

First(S) == CHOOSE i \in S : \A j \in S : i <= j

Final(S) == CHOOSE i \in S : \A j \in S : j <= i

InOrder(S) ==
  [n \in 1..Cardinality(S) |-> CHOOSE i \in S : Cardinality({j \in S : j < i}) = n - 1]

Places(file, kinds) == {i \in DOMAIN file : file[i].kind \in kinds}

-----------------------------------------------------------------------------
(* split_messages *)
EndsInBrace == {"basic", "app", "close", "ack"}

StartsAfterBrace(file) ==   \* mutant: separators are not passed over
  {i \in Places(file, {"basic"}) : i = 1 \/ file[i - 1].kind \in EndsInBrace}

(* A message starts at a basic header at the start or after a brace. *)
Starts(file) ==
  {i \in Places(file, {"basic"}) :
     LET before == {j \in DOMAIN file : j < i /\ file[j].kind # "gap"}
     IN before = {} \/ file[Final(before)].kind \in EndsInBrace}

(* A piece reaches from a start up to the next. *)
Piece(file, starts, i) ==
  LET later == {j \in starts : j > i}
  IN SubSeq(file, i, IF later = {} THEN Len(file) ELSE First(later) - 1)

HasHeader(piece) == Places(piece, {"app"}) # {}

(* Pieces without an application header are acknowledgements. *)
Split(file) ==
  LET starts == Starts(file)
      kept == InOrder({i \in starts : HasHeader(Piece(file, starts, i))})
  IN [n \in DOMAIN kept |-> Piece(file, starts, kept[n])]

(* message_type_of *)
TypeOf(message) == message[First(Places(message, {"app"}))].tag

-----------------------------------------------------------------------------
(* split_bare_statements *)
Tagged(piece, tags) == \E i \in Places(piece, {"line"}) : piece[i].tag \in tags

BareType(piece) == IF Tagged(piece, {"34F"}) THEN "942" ELSE "940"

Envelope(type) == <<Block("basic"), Token("app", type, NoValue), Block("open")>>

Wrapped(piece) ==
  LET kept == InOrder(DOMAIN piece \ Places(piece, {"dash", "close"}))
  IN Envelope(BareType(piece)) \o [n \in DOMAIN kept |-> piece[kept[n]]] \o <<Block("close")>>

References(file) == {i \in Places(file, {"line"}) : file[i].tag = "20"}

(* A statement per line with a reference, if it names an account. *)
SplitBare(file) ==
  LET starts == References(file)
      kept == InOrder({i \in starts : Tagged(Piece(file, starts, i), {"25"})})
  IN [n \in DOMAIN kept |-> Wrapped(Piece(file, starts, kept[n]))]

-----------------------------------------------------------------------------
(* find_block_close: a block 4 reaches up to the first "-}" after it. *)
ClosesAfter(message, open) == {j \in Places(message, {"close"}) : j > open}

(* parse_message: the text of the first block 4; without an end to it      *)
(* there are no fields.                                                    *)
TextBlock(message) ==
  LET opens == Places(message, {"open", "ack"})
      closes == ClosesAfter(message, First(opens))
  IN IF opens = {} \/ closes = {} THEN <<>>
     ELSE SubSeq(message, First(opens) + 1, First(closes) - 1)

(* The fields of a text.  What follows a field and is none belongs to its  *)
(* value, which is then not whole.                                         *)
FieldsIn(text) ==
  LET lines == InOrder(Places(text, {"line"}))
  IN [n \in DOMAIN lines |->
       [tag |-> text[lines[n]].tag, value |-> text[lines[n]].value,
        whole |-> lines[n] + 1 \notin (DOMAIN text \ Places(text, {"line"}))]]

Fields(message) == FieldsIn(TextBlock(message))

(* What Load makes of a file: enveloped messages, or else statements. *)
Load(file) ==
  LET messages == IF Split(file) # <<>> THEN Split(file) ELSE SplitBare(file)
  IN [n \in DOMAIN messages |-> [type |-> TypeOf(messages[n]), fields |-> Fields(messages[n])]]
=============================================================================
