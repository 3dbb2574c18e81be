---------------------------- MODULE CliBatchProofs ----------------------------
(***************************************************************************)
(* What holds of CliBatch for any files, schemas and batch sizes: the      *)
(* tables agree, nothing that was not written is marked, and a message is  *)
(* written again only for an interruption between commit and mark.         *)
(***************************************************************************)
EXTENDS CliBatch, SequenceTheorems, TLAPS

Entry  == [id : Nat \X Nat, message : Message, processed : BOOLEAN]
Output == [Table -> [Row -> Nat]]

(* The tables the open transaction has been through. *)
Passed ==
  [raw |-> {}, fields |-> {"raw"}, errors |-> {"raw", "fields"},
   normalized |-> {"raw", "fields", "errors"}, commit |-> Table]

Inserting(t) == pc = <<"insert", t>>

(* Types, where steps depend on them; a file that is being loaded fits. *)
Typed ==
  /\ config \in [strict : BOOLEAN, marks : BOOLEAN]
  /\ inbound \in Seq(Entry) /\ Len(inbound) <= MaxRows
  /\ sink \in Output /\ tx \in Output
  /\ redone \in [Row -> Nat]
  /\ batch \subseteq Loaded
  /\ pc = At("load") =>
       /\ todo \in Seq(Entry) /\ Len(inbound) + Len(todo) <= MaxRows
       /\ \A n \in DOMAIN todo : ~todo[n].processed

(* The transaction holds what is committed and, in the tables it has been  *)
(* through, one more of each message of the batch that has output there.   *)
TxIsAhead ==
  \A t \in DOMAIN Passed : Inserting(t) =>
    \A u \in Table, r \in Row :
      tx[u][r] = sink[u][r] + (IF u \in Passed[t] THEN Adds(u, r) ELSE 0)

(* What is being written or about to be marked waits, and what is about to *)
(* be marked was written.                                                  *)
BatchWaits ==
  (pc = At("mark") \/ \E t \in DOMAIN Passed : Inserting(t)) => batch \subseteq Waiting

BatchIsWritten == pc = At("mark") => \A r \in batch : sink["raw"][r] > 0

UnloadedIsUnwritten ==
  \A r \in Row : r > Len(inbound) => sink["raw"][r] = 0 /\ redone[r] = 0

(* The inductive invariant. *)
IInv ==
  /\ Typed
  /\ TxIsAhead
  /\ BatchWaits
  /\ BatchIsWritten
  /\ UnloadedIsUnwritten
  /\ TablesAgree
  /\ NothingIsSkipped
  /\ WrittenOncePerInterruption

-----------------------------------------------------------------------------
LEMMA NothingIsOutput == Nothing \in Output
BY DEF Nothing, Output

LEMMA Tables ==
  /\ Table = {"raw", "fields", "errors", "normalized"}
  /\ DOMAIN Passed = Table \cup {"commit"}
  /\ Passed["raw"] = {} /\ Passed["fields"] = {"raw"} /\ Passed["errors"] = {"raw", "fields"}
  /\ Passed["normalized"] = {"raw", "fields", "errors"} /\ Passed["commit"] = Table
  /\ NextTable["raw"] = "fields" /\ NextTable["fields"] = "errors"
  /\ NextTable["errors"] = "normalized" /\ NextTable["normalized"] = "commit"
BY DEF Table, Passed, NextTable

LEMMA InitHolds ==
  ASSUME Init
  PROVE  IInv
<1> USE DEF Init, At
<1>1. Typed
  <2>1. inbound \in Seq(Entry) /\ Len(inbound) = 0
    BY EmptySeq
  <2>2. sink \in Output /\ tx \in Output
    BY NothingIsOutput
  <2>3. redone \in [Row -> Nat]
    OBVIOUS
  <2> QED
    BY <2>1, <2>2, <2>3, BoundAssumption DEF Typed
<1>2. Loaded = {}
  BY DEF Loaded
<1>3. \A t \in Table, r \in Row : sink[t][r] = 0
  BY DEF Nothing
<1>4. TxIsAhead /\ BatchWaits /\ BatchIsWritten
  BY DEF TxIsAhead, BatchWaits, BatchIsWritten, Inserting
<1>5. UnloadedIsUnwritten /\ TablesAgree
  BY <1>3, Tables DEF UnloadedIsUnwritten, TablesAgree
<1>6. NothingIsSkipped /\ WrittenOncePerInterruption
  BY <1>2 DEF NothingIsSkipped, WrittenOncePerInterruption
<1> QED
  BY <1>1, <1>4, <1>5, <1>6 DEF IInv

-----------------------------------------------------------------------------
(* Most steps touch none of what the invariant is about. *)
Quiet ==
  /\ UNCHANGED <<config, inbound, sink, redone>>
  /\ pc # At("mark") /\ pc' # At("mark") /\ pc' # At("load")
  /\ \A t \in DOMAIN Passed : ~Inserting(t)'
  /\ batch' \subseteq Loaded /\ tx' \in Output

LEMMA QuietStep ==
  ASSUME IInv, Quiet
  PROVE  IInv'
<1> USE DEF Quiet
<1>1. Typed'
  BY DEF IInv, Typed, Loaded
<1>2. TxIsAhead' /\ BatchWaits' /\ BatchIsWritten'
  BY DEF TxIsAhead, BatchWaits, BatchIsWritten
<1>3. UnloadedIsUnwritten' /\ TablesAgree' /\ NothingIsSkipped'
  BY DEF IInv, UnloadedIsUnwritten, TablesAgree, NothingIsSkipped, Loaded
<1>4. WrittenOncePerInterruption'
  BY DEF IInv, WrittenOncePerInterruption, IdsAreUnique, Loaded
<1> QED
  BY <1>1, <1>2, <1>3, <1>4 DEF IInv

LEMMA QuietActions ==
  ASSUME IInv,
         \/ EndLoad \/ RefuseBatch \/ StartExport \/ EndExport \/ RenderAll \/ EndRender
         \/ \E k \in Described : AddSchema(k)
         \/ \E c \in Command : StartLayout(c) \/ LayoutApplied(c)
         \/ \E t \in {"swift"} \cup Described : ApplyTable(t) \/ ExportTable(t)
         \/ \E t \in Table : InsertError(t)
         \/ \E h \in Headers : RenderOne(h)
         \/ \E id \in {inbound[r].id : r \in batch} : WriteFile(id)
  PROVE  Quiet
<1> USE Tables, NothingIsOutput DEF Quiet, Inserting, At, db, Ends
<1>1. batch \subseteq Loaded /\ tx \in Output
  BY DEF IInv, Typed
<1>2. CASE EndLoad \/ RefuseBatch \/ EndExport \/ EndRender
  BY <1>2 DEF EndLoad, RefuseBatch, EndExport, EndRender
<1>3. CASE StartExport
  BY <1>1, <1>3 DEF StartExport
<1>4. CASE RenderAll \/ \E h \in Headers : RenderOne(h)
  BY <1>1, <1>4 DEF RenderAll, RenderOne
<1>5. CASE \E k \in Described : AddSchema(k)
  BY <1>1, <1>5 DEF AddSchema
<1>6. CASE \E c \in Command : StartLayout(c) \/ LayoutApplied(c)
  BY <1>1, <1>6 DEF StartLayout, LayoutApplied
<1>7. CASE \E t \in {"swift"} \cup Described : ApplyTable(t) \/ ExportTable(t)
  BY <1>1, <1>7 DEF ApplyTable, ExportTable
<1>8. CASE \E t \in Table : InsertError(t)
  BY <1>8 DEF InsertError
<1>9. CASE \E id \in {inbound[r].id : r \in batch} : WriteFile(id)
  BY <1>1, <1>9 DEF WriteFile
<1> QED
  BY <1>2, <1>3, <1>4, <1>5, <1>6, <1>7, <1>8, <1>9

-----------------------------------------------------------------------------
(* Load *)
LEMMA StartLoadKeeps ==
  ASSUME IInv, NEW f \in File, StartLoad(f)
  PROVE  IInv'
<1> USE DEF StartLoad, db, At
<1>1. /\ todo' \in Seq(Entry) /\ Len(todo') = Len(Contents[f])
      /\ \A n \in DOMAIN todo' : ~todo'[n].processed
  <2>1. Contents[f] \in Seq(Message) /\ StemOf[f] \in Nat
    BY FileAssumption
  <2>2. /\ Len(Contents[f]) \in Nat /\ DOMAIN Contents[f] = 1..Len(Contents[f])
        /\ \A n \in 1..Len(Contents[f]) : Contents[f][n] \in Message
    BY <2>1, LenProperties, ElementOfSeq
  <2>3. todo' \in [1..Len(Contents[f]) -> Entry]
    BY <2>1, <2>2 DEF Entry
  <2>4. todo' \in Seq(Entry)
    BY <2>2, <2>3, SeqDef
  <2>5. \A n \in DOMAIN todo' : ~todo'[n].processed
    BY <2>2
  <2>6. DOMAIN todo' = 1..Len(todo') /\ Len(todo') \in Nat
    BY <2>4, LenProperties
  <2>7. Len(todo') = Len(Contents[f])
    BY <2>2, <2>3, <2>6
  <2> QED
    BY <2>4, <2>5, <2>7
<1>2. Typed'
  BY <1>1 DEF IInv, Typed, Loaded
<1>3. TxIsAhead' /\ BatchWaits' /\ BatchIsWritten'
  BY DEF TxIsAhead, BatchWaits, BatchIsWritten, Inserting
<1>4. UnloadedIsUnwritten' /\ TablesAgree' /\ NothingIsSkipped'
  BY DEF IInv, UnloadedIsUnwritten, TablesAgree, NothingIsSkipped, Loaded
<1>5. WrittenOncePerInterruption'
  BY DEF IInv, WrittenOncePerInterruption, IdsAreUnique, Loaded
<1> QED
  BY <1>2, <1>3, <1>4, <1>5 DEF IInv

LEMMA InsertInboundKeeps ==
  ASSUME IInv, InsertInbound
  PROVE  IInv'
<1> USE DEF InsertInbound, At
<1>1. /\ inbound \in Seq(Entry) /\ Len(inbound) \in Nat /\ todo \in Seq(Entry)
      /\ Len(todo) \in Nat \ {0} /\ Len(inbound) + Len(todo) <= MaxRows
  BY LenProperties, EmptySeq DEF IInv, Typed
<1>2. Head(todo) \in Entry /\ ~Head(todo).processed
  <2>1. Head(todo) = todo[1] /\ 1 \in DOMAIN todo /\ todo[1] \in Entry
    BY <1>1, ElementOfSeq, LenProperties
  <2> QED
    BY <2>1 DEF IInv, Typed
<1>3. /\ Tail(todo) \in Seq(Entry) /\ Len(Tail(todo)) = Len(todo) - 1
      /\ \A n \in DOMAIN Tail(todo) : ~Tail(todo)[n].processed
  <2>1. /\ Tail(todo) \in Seq(Entry) /\ Len(Tail(todo)) = Len(todo) - 1
        /\ \A n \in 1..Len(Tail(todo)) : Tail(todo)[n] = todo[n + 1]
    BY <1>1, HeadTailProperties
  <2>2. DOMAIN Tail(todo) = 1..Len(Tail(todo)) /\ DOMAIN todo = 1..Len(todo)
    BY <1>1, <2>1, LenProperties
  <2>3. \A n \in DOMAIN Tail(todo) : n + 1 \in DOMAIN todo
    BY <1>1, <2>1, <2>2
  <2> QED
    BY <2>1, <2>2, <2>3 DEF IInv, Typed
<1>4. /\ inbound' \in Seq(Entry) /\ Len(inbound') = Len(inbound) + 1
      /\ inbound'[Len(inbound) + 1] = Head(todo)
      /\ \A r \in 1..Len(inbound) : inbound'[r] = inbound[r]
  BY <1>1, <1>2, AppendProperties
<1>5. /\ Loaded \subseteq Loaded' /\ Loaded' \subseteq Row
      /\ Loaded' = Loaded \cup {Len(inbound) + 1}
      /\ \A r \in Loaded : inbound'[r] = inbound[r]
      /\ ~inbound'[Len(inbound) + 1].processed
  BY <1>1, <1>2, <1>4, BoundAssumption DEF Loaded, Row
<1>6. Typed'
  <2>1. Len(inbound') <= MaxRows /\ Len(inbound') + Len(todo') <= MaxRows
    BY <1>1, <1>3, <1>4, BoundAssumption
  <2> QED
    BY <1>3, <1>4, <1>5, <2>1 DEF IInv, Typed
<1>7. TxIsAhead' /\ BatchWaits' /\ BatchIsWritten'
  BY DEF TxIsAhead, BatchWaits, BatchIsWritten, Inserting
<1>8. UnloadedIsUnwritten' /\ TablesAgree'
  BY <1>1, <1>4, BoundAssumption DEF IInv, UnloadedIsUnwritten, TablesAgree, Row
<1>9. NothingIsSkipped'
  <2>1. SUFFICES ASSUME NEW r \in Loaded', inbound'[r].processed
                 PROVE  \E q \in Loaded' : inbound'[q].id = inbound'[r].id /\ sink["raw"][q] > 0
    BY DEF NothingIsSkipped
  <2>2. r \in Loaded /\ inbound'[r] = inbound[r]
    BY <1>5, <2>1
  <2>3. \E q \in Loaded : inbound[q].id = inbound[r].id /\ sink["raw"][q] > 0
    BY <2>1, <2>2 DEF IInv, NothingIsSkipped
  <2> QED
    BY <1>5, <2>2, <2>3
<1>10. WrittenOncePerInterruption'
  <2>1. IdsAreUnique' => IdsAreUnique
    BY <1>5 DEF IdsAreUnique
  <2>2. sink["raw"][Len(inbound) + 1] = 0 /\ redone[Len(inbound) + 1] = 0
    BY <1>1, <1>5 DEF IInv, UnloadedIsUnwritten
  <2>3. SUFFICES ASSUME config.marks, IdsAreUnique, NEW r \in Loaded'
                 PROVE  sink["raw"][r] = redone[r] + (IF inbound'[r].processed THEN 1 ELSE 0)
    BY <2>1 DEF WrittenOncePerInterruption
  <2>4. CASE r \in Loaded
    <3>1. sink["raw"][r] = redone[r] + (IF inbound[r].processed THEN 1 ELSE 0)
      BY <2>3, <2>4 DEF IInv, WrittenOncePerInterruption
    <3> QED
      BY <1>5, <2>4, <3>1
  <2>5. CASE r = Len(inbound) + 1
    BY <1>5, <2>2, <2>5
  <2> QED
    BY <1>5, <2>3, <2>4, <2>5
<1> QED
  BY <1>6, <1>7, <1>8, <1>9, <1>10 DEF IInv

-----------------------------------------------------------------------------
(* Run *)
LEMMA AddsIsANumber ==
  ASSUME NEW t, NEW r
  PROVE  Adds(t, r) \in Nat
BY DEF Adds

LEMMA ReadBatchKeeps ==
  ASSUME IInv, ReadBatch
  PROVE  IInv'
<1> USE DEF ReadBatch, db, At
<1>1. batch' \subseteq Waiting /\ Waiting \subseteq Loaded
  BY DEF FirstRows, Waiting
<1>2. Typed'
  BY <1>1 DEF IInv, Typed, Loaded
<1>3. TxIsAhead'
  <2>1. \A t \in DOMAIN Passed : Inserting(t)' => Passed[t] = {}
    BY Tables DEF Inserting
  <2>2. \A u \in Table, r \in Row : tx'[u][r] = sink'[u][r] + 0
    BY DEF IInv, Typed, Output
  <2> QED
    BY <2>1, <2>2 DEF TxIsAhead
<1>4. BatchWaits'
  BY <1>1 DEF BatchWaits, Waiting, Loaded
<1>5. BatchIsWritten'
  BY DEF BatchIsWritten
<1>6. UnloadedIsUnwritten' /\ TablesAgree' /\ NothingIsSkipped'
  BY DEF IInv, UnloadedIsUnwritten, TablesAgree, NothingIsSkipped, Loaded
<1>7. WrittenOncePerInterruption'
  BY DEF IInv, WrittenOncePerInterruption, IdsAreUnique, Loaded
<1> QED
  BY <1>2, <1>3, <1>4, <1>5, <1>6, <1>7 DEF IInv

LEMMA InsertKeeps ==
  ASSUME IInv, NEW t \in Table, Insert(t)
  PROVE  IInv'
<1> USE DEF Insert, db, At, Inserting
<1>1. /\ t \in DOMAIN Passed /\ NextTable[t] \in DOMAIN Passed
      /\ Passed[NextTable[t]] = Passed[t] \cup {t} /\ t \notin Passed[t]
  BY Tables
<1>2. \A u, r : Adds(u, r)' = Adds(u, r)
  BY DEF Adds, OutputOf, HasSchema
<1>3. \A u \in Table, r \in Row :
        tx'[u][r] = tx[u][r] + (IF u = t THEN Adds(u, r) ELSE 0)
  BY DEF IInv, Typed, Output, Adds
<1>4. tx' \in Output
  <2>1. [r \in Row |-> tx[t][r] + Adds(t, r)] \in [Row -> Nat]
    BY AddsIsANumber DEF IInv, Typed, Output
  <2> QED
    BY <2>1 DEF IInv, Typed, Output
<1>5. Typed'
  BY <1>4 DEF IInv, Typed, Loaded
<1>6. TxIsAhead'
  <2>1. ASSUME NEW u \in Table, NEW r \in Row
        PROVE  tx'[u][r] = sink[u][r]
                 + (IF u \in Passed[NextTable[t]] THEN Adds(u, r) ELSE 0)
    <3>1. tx[u][r] = sink[u][r] + (IF u \in Passed[t] THEN Adds(u, r) ELSE 0)
      BY <1>1 DEF IInv, TxIsAhead
    <3>2. Adds(u, r) \in Nat /\ sink[u][r] \in Nat
      BY AddsIsANumber DEF IInv, Typed, Output
    <3> QED
      BY <1>1, <1>3, <3>1, <3>2
  <2> QED
    BY <1>2, <2>1 DEF TxIsAhead
<1>7. BatchWaits'
  BY <1>1 DEF IInv, BatchWaits, Waiting, Loaded
<1>8. BatchIsWritten'
  BY DEF BatchIsWritten
<1>9. UnloadedIsUnwritten' /\ TablesAgree' /\ NothingIsSkipped'
  BY DEF IInv, UnloadedIsUnwritten, TablesAgree, NothingIsSkipped, Loaded
<1>10. WrittenOncePerInterruption'
  BY DEF IInv, WrittenOncePerInterruption, IdsAreUnique, Loaded
<1> QED
  BY <1>5, <1>6, <1>7, <1>8, <1>9, <1>10 DEF IInv

LEMMA CommitKeeps ==
  ASSUME IInv, Commit
  PROVE  IInv'
<1> USE DEF Commit, At, Inserting
<1>1. \A u \in Table, r \in Row :
        /\ sink'[u][r] = sink[u][r] + Adds(u, r)
        /\ sink[u][r] \in Nat
  BY Tables DEF IInv, TxIsAhead, Typed, Output
<1>2. \A r \in Row :
        /\ Adds("raw", r) = IF r \in batch THEN 1 ELSE 0
        /\ Adds("fields", r) = Adds("raw", r)
        /\ Adds("errors", r) + Adds("normalized", r) = Adds("raw", r)
  BY DEF Adds, OutputOf
<1>3. batch \subseteq Waiting /\ batch \subseteq Loaded /\ Loaded \subseteq Row
  <2>1. Len(inbound) \in Nat
    BY LenProperties DEF IInv, Typed
  <2> QED
    BY <2>1, Tables, BoundAssumption DEF IInv, BatchWaits, Typed, Loaded, Row
<1>4. Typed'
  BY DEF IInv, Typed, Loaded
<1>5. TxIsAhead' /\ BatchWaits'
  BY <1>3 DEF TxIsAhead, BatchWaits, Waiting, Loaded
<1>6. BatchIsWritten'
  BY <1>1, <1>2, <1>3, Tables DEF BatchIsWritten
<1>7. UnloadedIsUnwritten'
  BY <1>1, <1>2, <1>3, Tables DEF IInv, UnloadedIsUnwritten, Loaded
<1>8. TablesAgree'
  <2>1. SUFFICES ASSUME NEW r \in Row
                 PROVE  /\ sink'["fields"][r] = sink'["raw"][r]
                        /\ sink'["errors"][r] + sink'["normalized"][r] = sink'["raw"][r]
    BY DEF TablesAgree
  <2>2. \A u \in Table : Adds(u, r) \in Nat
    BY AddsIsANumber
  <2> QED
    BY <1>1, <1>2, <2>2, Tables DEF IInv, TablesAgree
<1>9. NothingIsSkipped'
  <2>1. \A q \in Loaded : sink["raw"][q] > 0 => sink'["raw"][q] > 0
    BY <1>1, <1>2, <1>3, Tables
  <2> QED
    BY <2>1 DEF IInv, NothingIsSkipped, Loaded
<1>10. WrittenOncePerInterruption'
  <2>1. SUFFICES ASSUME config.marks, IdsAreUnique, NEW r \in Loaded
                 PROVE  sink'["raw"][r] = redone[r]
                          + (IF inbound[r].processed \/ r \in batch THEN 1 ELSE 0)
    BY DEF WrittenOncePerInterruption, IdsAreUnique, Loaded
  <2>2. sink["raw"][r] = redone[r] + (IF inbound[r].processed THEN 1 ELSE 0)
    BY <2>1 DEF IInv, WrittenOncePerInterruption
  <2>3. r \in batch => ~inbound[r].processed
    BY <1>3, <2>1 DEF Waiting
  <2>4. redone[r] \in Nat /\ sink'["raw"][r] = sink["raw"][r] + (IF r \in batch THEN 1 ELSE 0)
    BY <1>1, <1>2, <1>3, Tables DEF IInv, Typed
  <2> QED
    BY <2>2, <2>3, <2>4
<1> QED
  BY <1>4, <1>5, <1>6, <1>7, <1>8, <1>9, <1>10 DEF IInv

LEMMA MarkProcessedKeeps ==
  ASSUME IInv, MarkProcessed
  PROVE  IInv'
<1> USE DEF MarkProcessed, Ends, At
<1> DEFINE Marked(r) == config.marks /\ \E q \in batch : inbound[q].id = inbound[r].id
<1>0. UNCHANGED <<config, sink, redone>> /\ pc = At("mark") /\ pc' # At("mark")
  OBVIOUS
<1>1. /\ inbound \in Seq(Entry) /\ Len(inbound) \in Nat
      /\ \A r \in Loaded : inbound[r] \in Entry
  BY LenProperties, ElementOfSeq DEF IInv, Typed, Loaded
<1>2. \A r \in Loaded : /\ inbound'[r].id = inbound[r].id
                         /\ inbound'[r].processed = (inbound[r].processed \/ Marked(r))
                         /\ inbound'[r] \in Entry
  BY <1>1 DEF Entry, IInv, Typed
<1>3. inbound' \in Seq(Entry) /\ Len(inbound') = Len(inbound) /\ Loaded' = Loaded
  <2>1. inbound' \in [1..Len(inbound) -> Entry]
    BY <1>2 DEF Loaded
  <2>2. inbound' \in Seq(Entry)
    BY <1>1, <2>1, SeqDef
  <2>3. DOMAIN inbound' = 1..Len(inbound') /\ Len(inbound') \in Nat
    BY <2>2, LenProperties
  <2>4. Len(inbound') = Len(inbound)
    BY <1>1, <2>1, <2>3
  <2> QED
    BY <2>2, <2>4 DEF Loaded
<1>4. batch \subseteq Loaded
  BY DEF IInv, Typed
<1>5. Typed'
  BY <1>3, NothingIsOutput DEF IInv, Typed
<1>6. TxIsAhead' /\ BatchWaits' /\ BatchIsWritten'
  BY DEF TxIsAhead, BatchWaits, BatchIsWritten, Inserting
<1>7. UnloadedIsUnwritten' /\ TablesAgree'
  BY <1>3 DEF IInv, UnloadedIsUnwritten, TablesAgree
<1>8. NothingIsSkipped'
  <2> HIDE DEF MarkProcessed, Marked
  <2>1. SUFFICES ASSUME NEW r \in Loaded, inbound'[r].processed
                 PROVE  \E q \in Loaded : inbound[q].id = inbound[r].id /\ sink["raw"][q] > 0
    <3>1. SUFFICES ASSUME NEW r \in Loaded, inbound'[r].processed
                   PROVE  \E q \in Loaded : inbound'[q].id = inbound'[r].id /\ sink["raw"][q] > 0
      BY <1>3, <1>0 DEF NothingIsSkipped
    <3>2. /\ inbound'[r].id = inbound[r].id
          /\ \A q \in Loaded : inbound'[q].id = inbound[q].id
      BY <1>2
    <3>3. \E q \in Loaded : inbound[q].id = inbound[r].id /\ sink["raw"][q] > 0
      BY <2>1, <3>1
    <3> QED
      BY <3>2, <3>3
  <2>2. CASE inbound[r].processed
    BY <2>1, <2>2 DEF IInv, NothingIsSkipped
  <2>3. CASE Marked(r)
    BY <1>0, <1>4, <2>3 DEF IInv, BatchIsWritten, Marked
  <2> QED
    BY <1>2, <2>1, <2>2, <2>3
<1>9. WrittenOncePerInterruption'
  <2> HIDE DEF MarkProcessed
  <2>1. SUFFICES ASSUME config.marks, IdsAreUnique, NEW r \in Loaded
                 PROVE  sink["raw"][r] = redone[r] + (IF inbound'[r].processed THEN 1 ELSE 0)
    <3>1. IdsAreUnique' => IdsAreUnique
      BY <1>2, <1>3 DEF IdsAreUnique
    <3> QED
      BY <1>0, <1>3, <3>1 DEF WrittenOncePerInterruption
  <2>2. Marked(r) <=> r \in batch
    BY <1>4, <2>1 DEF IdsAreUnique
  <2>3. sink["raw"][r] = redone[r] + (IF inbound[r].processed \/ r \in batch THEN 1 ELSE 0)
    BY <1>0, <2>1 DEF IInv, WrittenOncePerInterruption
  <2> QED
    BY <1>2, <2>2, <2>3
<1> QED
  BY <1>5, <1>6, <1>7, <1>8, <1>9 DEF IInv

(* An interruption: what was written and not marked is counted. *)
LEMMA StopKeeps ==
  ASSUME IInv, Stop
  PROVE  IInv'
<1> USE DEF Stop, Ends, db, At
<1>1. Typed'
  <2>1. redone' \in [Row -> Nat]
    BY DEF IInv, Typed
  <2> QED
    BY <2>1, NothingIsOutput DEF IInv, Typed, Loaded
<1>2. TxIsAhead' /\ BatchWaits' /\ BatchIsWritten'
  BY DEF TxIsAhead, BatchWaits, BatchIsWritten, Inserting
<1>3. UnloadedIsUnwritten'
  <2>1. \A r \in Row : r > Len(inbound) => r \notin batch
    <3>1. Len(inbound) \in Nat
      BY LenProperties DEF IInv, Typed
    <3> QED
      BY <3>1, BoundAssumption DEF IInv, Typed, Loaded, Row
  <2> QED
    BY <2>1 DEF IInv, UnloadedIsUnwritten
<1>4. TablesAgree' /\ NothingIsSkipped'
  BY DEF IInv, TablesAgree, NothingIsSkipped, Loaded
<1>5. WrittenOncePerInterruption'
  <2>1. SUFFICES ASSUME config.marks, IdsAreUnique, NEW r \in Loaded
                 PROVE  sink["raw"][r] = redone'[r] + (IF inbound[r].processed THEN 1 ELSE 0)
    BY DEF WrittenOncePerInterruption, IdsAreUnique, Loaded
  <2>2. sink["raw"][r] = redone[r] + (IF inbound[r].processed \/ (pc = At("mark") /\ r \in batch) THEN 1 ELSE 0)
    BY <2>1 DEF IInv, WrittenOncePerInterruption
  <2>3. pc = At("mark") /\ r \in batch => ~inbound[r].processed
    BY <2>1 DEF IInv, BatchWaits, Waiting
  <2>4. r \in Row /\ redone[r] \in Nat
    <3>1. Len(inbound) \in Nat
      BY LenProperties DEF IInv, Typed
    <3> QED
      BY <2>1, <3>1, BoundAssumption DEF IInv, Typed, Loaded, Row
  <2> QED
    BY <2>2, <2>3, <2>4
<1> QED
  BY <1>1, <1>2, <1>3, <1>4, <1>5 DEF IInv

-----------------------------------------------------------------------------
LEMMA StutterKeeps ==
  ASSUME IInv, UNCHANGED vars
  PROVE  IInv'
<1> USE DEF vars
<1>1. Typed' /\ BatchWaits' /\ BatchIsWritten' /\ UnloadedIsUnwritten'
  BY DEF IInv, Typed, BatchWaits, Waiting, Inserting, BatchIsWritten, UnloadedIsUnwritten, Loaded
<1>2. TxIsAhead'
  BY DEF IInv, TxIsAhead, Inserting, Adds, OutputOf, HasSchema
<1>3. TablesAgree' /\ NothingIsSkipped' /\ WrittenOncePerInterruption'
  BY DEF IInv, TablesAgree, NothingIsSkipped, WrittenOncePerInterruption, IdsAreUnique, Loaded
<1> QED
  BY <1>1, <1>2, <1>3 DEF IInv

(* The strengthening of the properties below, in every reachable state of  *)
(* a batch over any files, schemas and sizes.                              *)
THEOREM Invariance == Spec => []IInv
<1>1. Init => IInv
  BY InitHolds
<1>2. ASSUME IInv, [Next]_vars PROVE IInv'
  <2>1. CASE UNCHANGED vars
    BY <1>2, <2>1, StutterKeeps
  <2>2. CASE \E f \in File : StartLoad(f)
    BY <1>2, <2>2, StartLoadKeeps
  <2>3. CASE InsertInbound
    BY <1>2, <2>3, InsertInboundKeeps
  <2>4. CASE ReadBatch
    BY <1>2, <2>4, ReadBatchKeeps
  <2>5. CASE \E t \in Table : Insert(t)
    BY <1>2, <2>5, InsertKeeps
  <2>6. CASE Commit
    BY <1>2, <2>6, CommitKeeps
  <2>7. CASE MarkProcessed
    BY <1>2, <2>7, MarkProcessedKeeps
  <2>8. CASE Stop
    BY <1>2, <2>8, StopKeeps
  <2>9. CASE \/ EndLoad \/ RefuseBatch \/ StartExport \/ EndExport \/ RenderAll \/ EndRender
             \/ \E k \in Described : AddSchema(k)
             \/ \E c \in Command : StartLayout(c) \/ LayoutApplied(c)
             \/ \E t \in {"swift"} \cup Described : ApplyTable(t) \/ ExportTable(t)
             \/ \E t \in Table : InsertError(t)
             \/ \E h \in Headers : RenderOne(h)
             \/ \E id \in {inbound[r].id : r \in batch} : WriteFile(id)
    BY <1>2, <2>9, QuietActions, QuietStep
  <2> QED
    BY <1>2, <2>1, <2>2, <2>3, <2>4, <2>5, <2>6, <2>7, <2>8, <2>9 DEF Next
<1> QED
  BY <1>1, <1>2, PTL DEF Spec

(* A message is in all the tables it has output in, equally often, or in   *)
(* none, whatever interrupts the batch (write_batch).                      *)
THEOREM OutputIsWhole == Spec => []TablesAgree
<1>1. IInv => TablesAgree
  BY DEF IInv
<1> QED
  BY <1>1, Invariance, PTL

(* Of the messages of an id that is marked, one is in the tables           *)
(* (mark_processed after write_batch).                                     *)
THEOREM MarkedIsWritten == Spec => []NothingIsSkipped
<1>1. IInv => NothingIsSkipped
  BY DEF IInv
<1> QED
  BY <1>1, Invariance, PTL

(* With unique ids a message is written once, and once more for each       *)
(* interruption between commit and mark.                                   *)
THEOREM RepeatedOnlyByInterruption == Spec => []WrittenOncePerInterruption
<1>1. IInv => WrittenOncePerInterruption
  BY DEF IInv
<1> QED
  BY <1>1, Invariance, PTL
-----------------------------------------------------------------------------
(* Files *)

Rendering == pc = <<"write", "render_all">>

Shown(id) == Name(id) \in DOMAIN files /\ files[Name(id)] = [id |-> id, current |-> TRUE]

(* While all is rendered each message of the tables still waits in the     *)
(* batch or has its file, which no other message takes.                    *)
FilesSoFar ==
  Rendering =>
    /\ batch \subseteq {r \in Loaded : sink["raw"][r] > 0}
    /\ ~Collide(Headers)
    /\ \A h \in Headers : (\E r \in batch : inbound[r].id = h.id) \/ Shown(h.id)

ExportsSoFar ==
  pc = At("export") =>
    todo \in Seq({"swift"} \cup Described) /\ {todo[i] : i \in DOMAIN todo} \subseteq exports

FInv == FilesSoFar /\ ExportsSoFar

LEMMA Elsewhere ==
  ASSUME pc' # <<"write", "render_all">>, pc' # At("export")
  PROVE  FInv'
BY DEF FInv, FilesSoFar, ExportsSoFar, Rendering, At

LEMMA RenderAllBegins ==
  ASSUME RenderAll
  PROVE  FInv'
<1>1. pc' = <<"write", "render_all">> /\ UNCHANGED <<inbound, sink>>
  BY DEF RenderAll, db
<1>2. batch' = {r \in Loaded : sink["raw"][r] > 0} /\ ~Collide(Headers)
  BY DEF RenderAll
<1>3. Headers' = Headers /\ Loaded' = Loaded
  BY <1>1 DEF Headers, Loaded
<1>4. \A h \in Headers : \E r \in batch' : inbound'[r].id = h.id
  BY <1>1, <1>2 DEF Headers
<1>5. ~Collide(Headers)'
  BY <1>2, <1>3 DEF Collide, Name
<1> QED
  BY <1>1, <1>2, <1>3, <1>4, <1>5 DEF FInv, FilesSoFar, ExportsSoFar, At

LEMMA WriteFileShows ==
  ASSUME FInv, NEW id \in {inbound[r].id : r \in batch}, WriteFile(id)
  PROVE  FInv'
<1>1. /\ UNCHANGED <<inbound, sink, pc, exports, todo>>
      /\ files' = [n \in DOMAIN files \cup {Name(id)} |->
                     IF n = Name(id) THEN [id |-> id, current |-> TRUE] ELSE files[n]]
      /\ batch' = {r \in batch : inbound[r].id # id}
  BY DEF WriteFile, db
<1>2. Headers' = Headers /\ Loaded' = Loaded
  BY <1>1 DEF Headers, Loaded
<1>3. ASSUME Rendering
      PROVE  FilesSoFar'
  <2>1. batch' \subseteq {r \in Loaded : sink["raw"][r] > 0}
    BY <1>1, <1>3 DEF FInv, FilesSoFar
  <2>2. PICK g \in Headers : g.id = id
    <3>1. PICK r \in batch : id = inbound[r].id
      OBVIOUS
    <3>2. r \in Loaded /\ sink["raw"][r] > 0
      BY <1>3 DEF FInv, FilesSoFar
    <3>3. [id |-> inbound[r].id, kind |-> inbound[r].message.kind] \in Headers
      BY <3>2 DEF Headers
    <3> QED
      BY <3>1, <3>3
  <2>3. ~Collide(Headers)
    BY <1>3 DEF FInv, FilesSoFar
  <2>4. ASSUME NEW h \in Headers
        PROVE  (\E r \in batch' : inbound[r].id = h.id) \/ Shown(h.id)'
    <3>1. CASE h.id = id
      BY <1>1, <3>1 DEF Shown, Name
    <3>2. CASE h.id # id
      <4>1. Name(h.id) # Name(id)
        BY <2>2, <2>3, <3>2 DEF Collide
      <4>2. (\E r \in batch : inbound[r].id = h.id) \/ Shown(h.id)
        BY <1>3 DEF FInv, FilesSoFar
      <4>3. Shown(h.id) => Shown(h.id)'
        BY <1>1, <4>1 DEF Shown, Name
      <4> QED
        BY <1>1, <3>2, <4>2, <4>3
    <3> QED
      BY <3>1, <3>2
  <2>5. ~Collide(Headers)'
    BY <1>2, <2>3 DEF Collide, Name
  <2> QED
    BY <1>1, <1>2, <2>1, <2>4, <2>5 DEF FilesSoFar
<1>4. ExportsSoFar'
  BY <1>1 DEF FInv, ExportsSoFar, At
<1>5. Rendering' => Rendering
  BY <1>1 DEF Rendering
<1> QED
  BY <1>3, <1>4, <1>5 DEF FInv, FilesSoFar

LEMMA ExportTableShows ==
  ASSUME FInv, NEW t \in {"swift"} \cup Described, ExportTable(t)
  PROVE  FInv'
<1>1. pc = At("export") /\ pc' = pc /\ exports' = exports \cup {t} /\ todo' = Append(todo, t)
  BY DEF ExportTable
<1>2. todo \in Seq({"swift"} \cup Described) /\ \A i \in 1..Len(todo) : todo[i] \in exports
  <2>1. todo \in Seq({"swift"} \cup Described) /\ \A i \in DOMAIN todo : todo[i] \in exports
    BY <1>1 DEF FInv, ExportsSoFar
  <2> QED
    BY <2>1, LenProperties
<1>3. /\ todo' \in Seq({"swift"} \cup Described) /\ Len(todo') = Len(todo) + 1
      /\ \A i \in 1..Len(todo) : todo'[i] = todo[i]
      /\ todo'[Len(todo) + 1] = t
  BY <1>1, <1>2, AppendProperties
<1>4. DOMAIN todo' = 1..Len(todo') /\ Len(todo) \in Nat
  BY <1>2, <1>3, LenProperties
<1>5. \A i \in DOMAIN todo' : todo'[i] \in exports'
  BY <1>1, <1>2, <1>3, <1>4
<1> QED
  BY <1>1, <1>3, <1>5 DEF FInv, FilesSoFar, ExportsSoFar, Rendering, At

LEMMA StepFInv ==
  ASSUME FInv, [Next]_vars
  PROVE  FInv'
<1> USE DEF Ends, At
<1>1. CASE UNCHANGED vars
  BY <1>1 DEF vars, FInv, FilesSoFar, ExportsSoFar, Rendering, Shown, Headers, Loaded, Collide, Name
<1>2. CASE RenderAll
  BY <1>2, RenderAllBegins
<1>3. CASE \E id \in {inbound[r].id : r \in batch} : WriteFile(id)
  BY <1>3, WriteFileShows
<1>4. CASE \E t \in {"swift"} \cup Described : ExportTable(t)
  BY <1>4, ExportTableShows
<1>5. CASE StartExport
  <2>1. todo' = <<>> /\ pc' = At("export")
    BY <1>5 DEF StartExport
  <2>2. todo' \in Seq({"swift"} \cup Described) /\ DOMAIN todo' = {}
    BY <2>1, EmptySeq
  <2> QED
    BY <2>1, <2>2 DEF FInv, FilesSoFar, ExportsSoFar, Rendering
<1>6. CASE \/ \E f \in File : StartLoad(f)
           \/ InsertInbound \/ EndLoad
           \/ \E k \in Described : AddSchema(k)
           \/ \E t \in {"swift"} \cup Described : ApplyTable(t)
  BY <1>6, Elsewhere DEF StartLoad, InsertInbound, EndLoad, AddSchema, ApplyTable
<1>7. CASE \E c \in Command : StartLayout(c) \/ LayoutApplied(c)
  BY <1>7, Elsewhere DEF StartLayout, LayoutApplied
<1>8. CASE ReadBatch \/ RefuseBatch \/ Commit \/ MarkProcessed \/ Stop \/ EndExport \/ EndRender
  BY <1>8, Elsewhere DEF ReadBatch, RefuseBatch, Commit, MarkProcessed, Stop, EndExport, EndRender
<1>9. CASE \E t \in Table : Insert(t) \/ InsertError(t)
  BY <1>9, Elsewhere DEF Insert, InsertError
<1>10. CASE \E h \in Headers : RenderOne(h)
  BY <1>10, Elsewhere DEF RenderOne
<1> QED
  BY <1>1, <1>2, <1>3, <1>4, <1>5, <1>6, <1>7, <1>8, <1>9, <1>10 DEF Next

(* When Render --all ends well every message in the tables has a file of   *)
(* its own with its present rows, and when Export does every table of the  *)
(* layout has (the Render command of main.rs, export_layout_with_options). *)
THEOREM FilesShowTheRows == Spec => FilesShowTheTables
<1>1. Init => FInv
  BY DEF Init, FInv, FilesSoFar, ExportsSoFar, Rendering, At
<1>2. FInv /\ [Next]_vars => FInv'
  BY StepFInv
<1>3. ASSUME FInv, EndRender, pc[2] = "render_all", NEW h \in Headers
      PROVE  Name(h.id) \in DOMAIN files /\ files[Name(h.id)] = [id |-> h.id, current |-> TRUE]
  <2>1. Rendering /\ batch = {}
    BY <1>3 DEF EndRender, Rendering
  <2> QED
    BY <1>3, <2>1 DEF FInv, FilesSoFar, Shown
<1>4. ASSUME FInv, [Next]_vars, pc = At("export"), pc' = At("idle"), ~Stop
      PROVE  Layout \subseteq exports
  <2>1. EndExport
    BY <1>4 DEF Next, vars, At, StartLoad, InsertInbound, EndLoad, AddSchema, StartLayout,
           LayoutApplied, ApplyTable, ExportTable, ReadBatch, RefuseBatch, Insert, InsertError,
           Commit, MarkProcessed, StartExport, RenderAll, EndRender, RenderOne, WriteFile
  <2> QED
    BY <1>4, <2>1 DEF EndExport, Remaining, FInv, ExportsSoFar
<1>5. FInv /\ [Next]_vars =>
        [/\ EndRender /\ pc[2] = "render_all" =>
              \A h \in Headers : /\ Name(h.id) \in DOMAIN files
                                 /\ files[Name(h.id)] = [id |-> h.id, current |-> TRUE]
         /\ pc = At("export") /\ pc' = At("idle") /\ ~Stop => Layout \subseteq exports]_vars
  BY <1>3, <1>4
<1> QED
  BY <1>1, <1>2, <1>5, PTL DEF Spec, FilesShowTheTables
=============================================================================
