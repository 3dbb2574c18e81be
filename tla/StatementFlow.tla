---------------------------- MODULE StatementFlow ----------------------------
(***************************************************************************)
(* A bank writes a file.  swift-cli load splits it into messages;          *)
(* "ingest store" reads a statement from it and writes the five tables of  *)
(* its store one after the other, over those of an earlier run; "ingest    *)
(* serve" answers a request from those tables, one after the other.        *)
(* Writing may stop anywhere, and requests come when they like.            *)
(***************************************************************************)
EXTENDS CashStatement

CONSTANTS
  EntryValues, BalanceValues,   \* what stands in a 61 or Ntry, and in a 62 or Bal
  MaxMessages,                  \* bounds, for each form: of the messages of a file,
  MaxLines,                     \* of its lines,
  StoredLines                   \* and of the lines of those that are stored

(* Debits, credits and reversals, of any amount, readable or not. *)
Marked(marks) == [mark : marks, amount : Int, readable : BOOLEAN, text : Nat]

ASSUME ValueAssumption ==
  /\ EntryValues \subseteq Marked({"C", "D", "RC", "RD"})
  /\ BalanceValues \subseteq Marked({"C", "D"})

VARIABLES
  form,      \* "fin", "bare" or "camt"
  file,
  loaded,    \* what Load makes of it
  copies,    \* how often the file is given to "ingest store"
  earlier,   \* what an earlier run stored; none if there was none
  disk,      \* for each table the run that wrote it, or None, or Torn
  writer,    \* what "ingest store" does: a table it writes, or ...
  request    \* a request to "ingest serve"

vars == <<form, file, loaded, copies, earlier, disk, writer, request>>

TableOrder == <<"cash_statements", "cash_entries", "positions",
                "penalty_accruals", "penalty_statements">>
Table == Range(TableOrder)

Earlier == 1
Latest  == 2
None    == 0
Torn    == -1   \* the file was created and is not closed

(* Which tables a request reads, in this order. *)
Reads == [recon |-> SubSeq(TableOrder, 1, 3), csdr |-> SubSeq(TableOrder, 4, 5)]

NoRequest == [kind |-> "none", got |-> <<>>, begun |-> "", state |-> "none"]

(* A statement stored before, under the reference of the first one now. *)
OldStatement == Statement("swift", 1, Balance(Value("C", 1, TRUE, 0)), {}, <<>>)

Init ==
  /\ form \in {"fin", "bare", "camt"}
  /\ file = <<>> /\ loaded = <<>>
  /\ copies = 1 /\ earlier = <<>>
  /\ disk = [t \in Table |-> None]
  /\ writer = "bank"
  /\ request = NoRequest

-----------------------------------------------------------------------------
(* external: the bank *)

LastTag == IF file = <<>> \/ file[Len(file)].kind # "line" THEN "" ELSE file[Len(file)].tag

Count(kinds) == Cardinality(Places(file, kinds))

Statements == Count({"stmt"}) + Cardinality(References(file))

Lines == Count({"line", "bal", "ntry"})

Follows ==
  [t \in {"20", "25", "60", "34F", "61", "86", "62"} |->
    CASE t = "20" -> {"25"} [] t = "25" -> {"60", "34F"} [] t = "60" -> {"61", "62"}
      [] t = "34F" -> {"61"} [] t = "61" -> {"61", "86", "62"} [] t = "86" -> {"61", "62"}
      [] t = "62" -> {"86"}]

ValuesOf(tag) ==
  CASE tag \in {"61", "ntry"} -> EntryValues
    [] tag = "62" -> BalanceValues
    [] tag = "60" -> {Value("C", 2, TRUE, 0)}
    [] tag = "20" -> {Value("", 0, TRUE, Statements + 1)}
    [] OTHER -> {Value("", 0, TRUE, Len(file) + 10)}

Write(tokens) == file' = file \o tokens

(* Is the last message of another type than a statement? *)
OtherType == LET apps == Places(file, {"app"}) IN apps # {} /\ file[Final(apps)].tag = "999"

WriteField ==
  \E tag \in IF LastTag \in DOMAIN Follows THEN Follows[LastTag] ELSE {} :
    /\ Lines < MaxLines[form] /\ ~OtherType
    /\ \E v \in ValuesOf(tag) : Write(<<Token("line", tag, v)>>)

WriteReference(before) ==
  /\ Lines < MaxLines[form] /\ Statements < MaxMessages[form]
  /\ \E v \in ValuesOf("20") : Write(before \o <<Token("line", "20", v)>>)

(* A message, perhaps with the acknowledgement of it in front.  One before *)
(* it that has no end was cut.                                             *)
WriteMessage ==
  /\ form = "fin"
  /\ \E type \in {"940", "999"} : \E ack \in {<<>>, <<Block("basic"), Block("ack")>>} :
       WriteReference(ack \o Envelope(type))

WriteEnd ==
  /\ form = "fin" /\ Count({"close"}) < Count({"open"})
  /\ \/ LastTag \in {"62", "86"} \/ (LastTag = "20" /\ OtherType)
  /\ Write(<<Block("close")>>)

WriteBetween ==
  /\ \/ file # <<>> /\ file[Len(file)].kind = "close"
     \/ form = "bare" /\ LastTag \in {"62", "86"}
  /\ Write(<<Block(IF form = "bare" THEN "dash" ELSE "gap")>>)

(* Some banks begin their files with a few lines of their own. *)
WriteWords ==
  /\ file = <<>> /\ form # "camt"
  /\ Write(<<Block("words")>>)

WriteBare ==
  /\ form = "bare"
  /\ LastTag \in {"", "61", "86", "62"}
  /\ WriteReference(<<>>)

WriteStatement ==
  /\ form = "camt" /\ Statements < MaxMessages[form]
  /\ \/ \E id \in {0, Statements + 1} : Write(<<Token("stmt", "", Value("", 0, TRUE, id))>>)
     \/ Write(<<Token("stmt", "account", Value("", 0, TRUE, 0))>>)

WriteElement ==
  /\ form = "camt" /\ file # <<>> /\ Lines < MaxLines[form]
  /\ \/ \E code \in {"OPBD", "CLBD"} : \E v \in BalanceValues : Write(<<Token("bal", code, v)>>)
     \/ \E tag \in {"", "true"} : \E v \in EntryValues : Write(<<Token("ntry", tag, v)>>)

BankWrites ==
  /\ writer = "bank" /\ loaded = <<>>
  /\ \/ WriteField \/ WriteMessage \/ WriteEnd \/ WriteBetween \/ WriteWords
     \/ WriteBare \/ WriteStatement \/ WriteElement
  /\ UNCHANGED <<form, loaded, copies, earlier, disk, writer, request>>

-----------------------------------------------------------------------------
(* swift-cli load *)
LoadFile ==
  /\ writer = "bank" /\ loaded = <<>> /\ form # "camt"
  /\ loaded' = Load(file) /\ loaded' # <<>>
  /\ UNCHANGED <<form, file, copies, earlier, disk, writer, request>>

(* detect *)
Detected == form = "camt" \/ \E i \in Places(file, {"line"}) : file[i].tag = "61"

Read == IF form = "camt" THEN ReadCamt(file) ELSE ReadMt940(file)

(* What a run stores, every copy of the file read on its own. *)
Stored(run) == IF run = Earlier THEN earlier
               ELSE FlattenSeq([c \in 1..copies |-> Read])

(* The file is there, and perhaps the store of an earlier run. *)
Arrive ==
  /\ writer = "bank" /\ loaded = <<>> /\ file # <<>> /\ Lines <= StoredLines[form]
  /\ writer' = "file"
  /\ copies' \in {1, 2}
  /\ earlier' \in {<<>>, <<OldStatement>>}
  /\ disk' = [t \in Table |-> IF earlier' = <<>> THEN None ELSE Earlier]
  /\ UNCHANGED <<form, file, loaded, request>>

(* run_store up to its first table *)
StartStore ==
  /\ writer = "file"
  /\ writer' = IF Detected THEN TableOrder[1] ELSE "failed"
  /\ UNCHANGED <<form, file, loaded, copies, earlier, disk, request>>

(* write_parquet creates the file anew ... *)
CreateTable ==
  /\ writer \in Table /\ disk[writer] # Torn
  /\ disk' = [disk EXCEPT ![writer] = Torn]
  /\ UNCHANGED <<form, file, loaded, copies, earlier, writer, request>>

NextWrite(t) ==
  LET n == CHOOSE n \in DOMAIN TableOrder : TableOrder[n] = t
  IN IF n = Len(TableOrder) THEN "done" ELSE TableOrder[n + 1]

CloseWithoutRows ==   \* mutant: entries are written only if there are any
  /\ writer \in Table /\ disk[writer] = Torn
  /\ disk' = [disk EXCEPT ![writer] =
                IF writer = "cash_entries" /\ \A s \in Range(Read) : s.entries = <<>>
                THEN IF earlier = <<>> THEN None ELSE Earlier ELSE Latest]
  /\ writer' = NextWrite(writer)
  /\ UNCHANGED <<form, file, loaded, copies, earlier, request>>

(* ... and closes it when the rows are in it. *)
CloseTable ==
  /\ writer \in Table /\ disk[writer] = Torn
  /\ disk' = [disk EXCEPT ![writer] = Latest]
  /\ writer' = NextWrite(writer)
  /\ UNCHANGED <<form, file, loaded, copies, earlier, request>>

(* The disk is full, or the process is stopped. *)
StopStore ==
  /\ writer \in Table
  /\ writer' = "failed"
  /\ UNCHANGED <<form, file, loaded, copies, earlier, disk, request>>

-----------------------------------------------------------------------------
(* ingest serve *)
Ask ==
  /\ request = NoRequest /\ writer # "bank"
  /\ \E k \in DOMAIN Reads :
       request' = [kind |-> k, got |-> <<>>, begun |-> writer, state |-> "reading"]
  /\ UNCHANGED <<form, file, loaded, copies, earlier, disk, writer>>

(* A table that is not there is read as empty, one that is not whole is an *)
(* error.                                                                  *)
ReadTable ==
  /\ request.state = "reading"
  /\ LET got == Append(request.got, disk[Reads[request.kind][Len(request.got) + 1]])
     IN request' = [request EXCEPT
          !.got = got,
          !.state = IF Last(got) = Torn THEN "error"
                    ELSE IF Len(got) = Len(Reads[request.kind]) THEN "answered" ELSE @]
  /\ UNCHANGED <<form, file, loaded, copies, earlier, disk, writer>>

Next ==
  \/ BankWrites \/ LoadFile \/ Arrive
  \/ StartStore \/ CreateTable \/ CloseTable \/ StopStore \/ Ask \/ ReadTable

Spec == Init /\ [][Next]_vars

-----------------------------------------------------------------------------
(* The rows of the two tables of statements. *)
HeaderRows(statements) ==
  [n \in DOMAIN statements |->
    [source |-> statements[n].source, id |-> statements[n].id,
     opening |-> Signed(statements[n].opening), closing |-> Signed(statements[n].closing)]]

EntryRow(s, e) == [source |-> s.source, id |-> s.id, entry |-> e]

EntryRows(statements) ==
  FlattenSeq([n \in DOMAIN statements |->
    [k \in DOMAIN statements[n].entries |-> EntryRow(statements[n], statements[n].entries[k])]])

SameKey(s, q) == s.source = q.source /\ s.id = q.id

(* read_statements: absent balances are shown as zero, and every entry     *)
(* goes to the last header with its source and id, if there is one.        *)
Shown(balance) == IF balance = {} THEN 0 ELSE CHOOSE b \in balance : TRUE

OwnersBySource(headers, row) ==   \* mutant: the first header of its source
  {n \in DOMAIN headers : /\ headers[n].source = row.source
                          /\ \A m \in DOMAIN headers : headers[m].source = row.source => n <= m}

Owners(headers, row) ==
  {n \in DOMAIN headers : /\ SameKey(headers[n], row)
                          /\ \A m \in DOMAIN headers : SameKey(headers[m], row) => m <= n}

Join(headers, rows) ==
  LET joined[k \in 0..Len(rows)] ==
        [n \in DOMAIN headers |->
          IF k = 0 THEN <<>>
          ELSE IF n \in Owners(headers, rows[k]) THEN Append(joined[k - 1][n], rows[k])
          ELSE joined[k - 1][n]]
  IN [n \in DOMAIN headers |->
       [opening |-> Shown(headers[n].opening), closing |-> Shown(headers[n].closing),
        entries |-> joined[Len(rows)][n]]]

RowsOf(run) == IF run = None THEN <<>> ELSE Stored(run)

Answer == Join(HeaderRows(RowsOf(request.got[1])), EntryRows(RowsOf(request.got[2])))

-----------------------------------------------------------------------------
(* Where a message begins and ends, by what the bank meant. *)
Messages == {i \in Places(file, {"basic"}) : i < Len(file) /\ file[i + 1].kind = "app"}

EndOf(i) ==
  LET later == {j \in Places(file, {"basic", "close"}) : j > i}
  IN IF later = {} THEN Len(file) ELSE First(later)

Complete(i) == file[EndOf(i)].kind = "close"

(* The message before is complete, or an acknowledgement stands between. *)
BeginsClean(i) ==
  LET before == {j \in Messages : j < i}
  IN \/ i > 1 /\ file[i - 1].kind = "ack"
     \/ before = {} /\ file[1].kind # "words"
     \/ before # {} /\ Complete(Final(before))

FieldsBetween(i, j) ==
  LET at == InOrder({k \in Places(file, {"line"}) : i <= k /\ k <= j})
  IN [n \in DOMAIN at |-> [tag |-> file[at[n]].tag, value |-> file[at[n]].value, whole |-> TRUE]]

Own(i) == FieldsBetween(i, EndOf(i))

AsWritten(fields) ==
  [n \in DOMAIN fields |-> [tag |-> fields[n].tag, value |-> fields[n].value, whole |-> TRUE]]

(* Every message with nothing left open in front of it is loaded once, in  *)
(* order and under its type, acknowledgements or not.  If it is complete   *)
(* it has its own fields and no others; if it was cut it has none, or      *)
(* begins with its own and has swallowed the next (split_messages).        *)
EnvelopedAreExact ==
  LET clean == InOrder({i \in Messages : BeginsClean(i)})
  IN /\ Len(loaded) = Len(clean)
     /\ \A n \in DOMAIN loaded :
          /\ loaded[n].type = file[clean[n] + 1].tag
          /\ IF Complete(clean[n]) THEN loaded[n].fields = Own(clean[n])
             ELSE \/ loaded[n].fields = <<>>
                  \/ IsPrefix(Own(clean[n]), AsWritten(loaded[n].fields))

(* Where there are no envelopes, every statement that names an account is  *)
(* loaded once with its own fields (split_bare_statements).                *)
BareAreExact ==
  LET starts == References(file)
      end(i) == IF \E j \in starts : j > i THEN First({j \in starts : j > i}) - 1 ELSE Len(file)
      named == InOrder({i \in starts : Len(FieldsBetween(i, end(i))) > 1})
  IN /\ Len(loaded) = Len(named)
     /\ \A n \in DOMAIN loaded : loaded[n].fields = FieldsBetween(named[n], end(named[n]))

LoadIsExact ==
  loaded # <<>> =>
    /\ form = "fin" /\ (\E i \in Messages : BeginsClean(i)) => EnvelopedAreExact
    /\ form = "bare" => BareAreExact

-----------------------------------------------------------------------------
(* What an entry does to the account, by the meaning of the marks. *)
Effect(v) == IF v.mark \in {"D", "RC"} THEN -v.amount ELSE v.amount

(* Where the n-th statement is: the lines of the first message, or the     *)
(* elements up to the next statement of a document.                        *)
Written(n) ==
  IF form = "fin"
  THEN {k \in Places(file, {"line"}) : First(Messages) < k /\ k <= EndOf(First(Messages))}
  ELSE LET starts == InOrder(Places(file, {"stmt"}))
       IN {k \in DOMAIN file : starts[n] < k /\ (n < Len(starts) => k < starts[n + 1])}

ValueAt(k) == IF form = "fin" THEN file[k].value ELSE CamtValue(file[k])

EntriesAt(n) ==
  InOrder({k \in Written(n) : IF form = "fin" THEN file[k].tag = "61" /\ file[k].value.readable
                              ELSE file[k].kind = "ntry"})

Effects(n) == [j \in DOMAIN EntriesAt(n) |-> Effect(ValueAt(EntriesAt(n)[j]))]

(* The last balance with the tag or code; {} if there is none, or a bank's *)
(* line for it cannot be read.                                             *)
LastBalance(n, tag) ==
  LET found == {k \in Written(n) : file[k].tag = tag}
  IN IF found = {} \/ (form = "fin" /\ ~ValueAt(Final(found)).readable) THEN {}
     ELSE {Effect(ValueAt(Final(found)))}

Opening(n) == LastBalance(n, IF form = "fin" THEN "60" ELSE "OPBD")
Closing(n) == LastBalance(n, IF form = "fin" THEN "62" ELSE "CLBD")

Balanced(n) == \E o \in Opening(n) : o + SumOf(Effects(n)) \in Closing(n)

Unread(k) == file[k].tag = "61" /\ ~file[k].value.readable

(* The text under an entry is the one that follows it in the message.  It  *)
(* is not known to be of an entry whose next line could not be read.       *)
TextsFollow(entries) ==
  \A j \in DOMAIN entries :
    LET next == EntriesAt(1)[j] + 1
    IN \/ next \in Written(1) /\ Unread(next)
       \/ entries[j].info = IF next \in Written(1) /\ file[next].tag = "86"
                            THEN file[next].value.text ELSE 0

(* From a file whose first message is complete that message is read, and   *)
(* only that; from a document every statement.  The entries are those that *)
(* can be read, with the effect their marks stand for; each has the text   *)
(* that follows it and no other, unless the next line could not be read;   *)
(* and all is reconciled exactly if a statement has both balances and      *)
(* every one that has adds up (parse_mt940, parse_camt053,                 *)
(* compute_cash_pnl).                                                      *)
StatementsAreTrue ==
  writer = "bank" /\ loaded = <<>> /\ Detected /\ (form = "fin" => Complete(First(Messages))) =>
    LET read == Read
        pnl == CashPnl(read)
    IN IF form = "bare" THEN read = <<>>
       ELSE LET both == {n \in DOMAIN read : Opening(n) # {} /\ Closing(n) # {}}
            IN /\ Len(read) = IF form = "fin" THEN 1 ELSE Count({"stmt"})
               /\ \A n \in DOMAIN read : Movements(read[n]) = Effects(n)
               /\ form = "fin" => TextsFollow(read[1].entries)
               /\ pnl.inflows + pnl.outflows =
                    SumOf([n \in DOMAIN read |-> SumOf(Effects(n))])
               /\ pnl.all_reconciled <=> both # {} /\ \A n \in both : Balanced(n)

-----------------------------------------------------------------------------
Distinct(statements) ==
  \A m, n \in DOMAIN statements : SameKey(statements[m], statements[n]) => m = n

(* How often an entry occurs. *)
EntryCounts(lists) ==
  LET all == FlattenSeq(lists)
  IN [e \in Range(all) |-> Cardinality({k \in DOMAIN all : all[k] = e})]

(* A request that "ingest store" does not overlap is answered from one     *)
(* run, the last one that was completed; every entry is under the          *)
(* statement it was stored with, and none is lost or shown twice even      *)
(* where two statements share a reference ("ingest serve").  A request     *)
(* that it does overlap, or that follows a run that was stopped, may be    *)
(* answered from two.                                                      *)
AnswersShowTheStore ==
  request.state # "reading" /\ request.state # "none" /\ request.begun = writer =>
    /\ writer \in {"file", "done"} => request.state = "answered"
    /\ LET run == IF writer = "done" THEN Latest ELSE IF earlier = <<>> THEN None ELSE Earlier
       IN writer \in {"file", "done"} =>
            /\ Range(request.got) = {run}
            /\ request.kind = "recon" =>
                 LET shown == [n \in DOMAIN Answer |-> Answer[n].entries]
                     stored == [n \in DOMAIN RowsOf(run) |->
                                 [k \in DOMAIN RowsOf(run)[n].entries |->
                                   EntryRow(RowsOf(run)[n], RowsOf(run)[n].entries[k])]]
                 IN /\ Len(shown) = Len(stored)
                    /\ EntryCounts(shown) = EntryCounts(stored)
                    /\ Distinct(RowsOf(run)) => shown = stored
=============================================================================
