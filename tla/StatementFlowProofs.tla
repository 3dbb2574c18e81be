-------------------------- MODULE StatementFlowProofs --------------------------
(***************************************************************************)
(* What "ingest serve" answers is what "ingest store" wrote, and what is   *)
(* loaded is what the bank wrote, for files of any length with any values, *)
(* and for any number of statements.                                       *)
(***************************************************************************)
EXTENDS StatementFlow, SequenceTheorems, FiniteSetTheorems, WellFoundedInduction, TLAPS

-----------------------------------------------------------------------------
(* The tables *)

LEMMA TheTables ==
  /\ Table = {"cash_statements", "cash_entries", "positions",
              "penalty_accruals", "penalty_statements"}
  /\ Len(TableOrder) = 5
  /\ \A n \in 1..5 : TableOrder[n] \in Table
  /\ \A t \in Table : \E n \in 1..5 : TableOrder[n] = t
  /\ \A m, n \in 1..5 : TableOrder[m] = TableOrder[n] => m = n
<1>1. /\ Len(TableOrder) = 5 /\ DOMAIN TableOrder = 1..5
      /\ TableOrder[1] = "cash_statements" /\ TableOrder[2] = "cash_entries"
      /\ TableOrder[3] = "positions" /\ TableOrder[4] = "penalty_accruals"
      /\ TableOrder[5] = "penalty_statements"
  BY DEF TableOrder
<1>2. 1..5 = {1, 2, 3, 4, 5}
  OBVIOUS
<1>3. Table = {TableOrder[n] : n \in 1..5}
  BY <1>1 DEF Table, Range
<1>4. \A m, n \in 1..5 : TableOrder[m] = TableOrder[n] => m = n
  BY <1>1, <1>2
<1>5. Table = {"cash_statements", "cash_entries", "positions",
               "penalty_accruals", "penalty_statements"}
  BY <1>1, <1>2, <1>3
<1> QED
  BY <1>1, <1>3, <1>4, <1>5

LEMMA TheNextTable ==
  ASSUME NEW n \in 1..5
  PROVE  NextWrite(TableOrder[n]) = IF n = 5 THEN "done" ELSE TableOrder[n + 1]
<1> DEFINE m == CHOOSE m \in DOMAIN TableOrder : TableOrder[m] = TableOrder[n]
<1>1. DOMAIN TableOrder = 1..5 /\ Len(TableOrder) = 5
  BY DEF TableOrder
<1>2. m \in 1..5 /\ TableOrder[m] = TableOrder[n]
  BY <1>1
<1>3. m = n
  BY <1>2, TheTables
<1> QED
  BY <1>1, <1>3 DEF NextWrite

LEMMA WhatIsRead ==
  /\ DOMAIN Reads = {"recon", "csdr"}
  /\ Len(Reads["recon"]) = 3 /\ Len(Reads["csdr"]) = 2
  /\ \A i \in 1..3 : Reads["recon"][i] \in Table
  /\ \A i \in 1..2 : Reads["csdr"][i] \in Table
<1>1. /\ Len(TableOrder) = 5 /\ TableOrder \in Seq(Table)
  <2>1. Len(TableOrder) = 5
    BY DEF TableOrder
  <2>2. TableOrder \in Seq(Table)
    BY TheTables DEF TableOrder
  <2> QED
    BY <2>1, <2>2
<1>2. SubSeq(TableOrder, 1, 3) \in Seq(Table) /\ Len(SubSeq(TableOrder, 1, 3)) = 3
  BY <1>1, SubSeqProperties
<1>3. SubSeq(TableOrder, 4, 5) \in Seq(Table) /\ Len(SubSeq(TableOrder, 4, 5)) = 2
  BY <1>1, SubSeqProperties
<1>4. DOMAIN Reads = {"recon", "csdr"} /\ Reads["recon"] = SubSeq(TableOrder, 1, 3)
      /\ Reads["csdr"] = SubSeq(TableOrder, 4, 5)
  BY DEF Reads
<1> QED
  BY <1>2, <1>3, <1>4, ElementOfSeq

-----------------------------------------------------------------------------
(* The protocol: what the tables hold while they are written, and what a   *)
(* request has read of them.                                               *)

Previous == IF earlier = <<>> THEN None ELSE Earlier

Phase == {"bank", "file", "done", "failed"} \cup Table

(* Those before the table being written are new, those after it are old. *)
DiskIsOrdered ==
  /\ writer \in {"bank", "file"} => \A t \in Table : disk[t] = Previous
  /\ \A n \in 1..5 : writer = TableOrder[n] =>
       /\ \A m \in 1..(n - 1) : disk[TableOrder[m]] = Latest
       /\ disk[TableOrder[n]] \in {Previous, Torn}
       /\ \A m \in (n + 1)..5 : disk[TableOrder[m]] = Previous
  /\ writer = "done" => \A t \in Table : disk[t] = Latest

(* What a request that is not overlapped reads. *)
RunSeen == IF writer = "done" THEN Latest ELSE Previous

RequestType ==
  \/ request = NoRequest
  \/ /\ writer # "bank"
     /\ request.kind \in {"recon", "csdr"}
     /\ request.got \in Seq({None, Torn, Earlier, Latest})
     /\ request.begun = "done" => writer = "done"
     /\ request.state \in {"reading", "answered", "error"}
     /\ request = [kind |-> request.kind, got |-> request.got, begun |-> request.begun,
                   state |-> request.state]

RequestIsSteady ==
  request # NoRequest =>
    /\ request.begun = writer /\ writer \in {"file", "done"} =>
         \A i \in 1..Len(request.got) : request.got[i] = RunSeen
    /\ request.state = "reading" => Len(request.got) < Len(Reads[request.kind])
    /\ request.state = "answered" => Len(request.got) = Len(Reads[request.kind])
    /\ request.state = "error" => /\ Len(request.got) > 0
                                  /\ request.got[Len(request.got)] = Torn

ProtocolInv ==
  /\ writer \in Phase
  /\ disk \in [Table -> {None, Torn, Earlier, Latest}]
  /\ writer = "bank" => earlier = <<>>
  /\ DiskIsOrdered
  /\ RequestType
  /\ RequestIsSteady

LEMMA Phases ==
  /\ \A t \in Table : t \notin {"bank", "file", "done", "failed"}
  /\ Table \subseteq Phase
BY TheTables DEF Phase

LEMMA ProtocolStarts == Init => ProtocolInv
<1> SUFFICES ASSUME Init PROVE ProtocolInv
  OBVIOUS
<1> QED
  BY Phases, TheTables
     DEF Init, ProtocolInv, DiskIsOrdered, Previous, RequestType, RequestIsSteady, Phase

LEMMA ProtocolOnlyReads ==
  ASSUME ProtocolInv, UNCHANGED <<earlier, disk, writer, request>>
  PROVE  ProtocolInv'
BY DEF ProtocolInv, DiskIsOrdered, Previous, RequestType, RequestIsSteady, RunSeen

LEMMA ProtocolArrive ==
  ASSUME ProtocolInv, Arrive
  PROVE  ProtocolInv'
<1>1. request = NoRequest /\ request' = NoRequest
  BY DEF ProtocolInv, RequestType, Arrive
<1>2. writer' = "file" /\ writer' \in Phase
  BY DEF Arrive, Phase
<1>3. disk' = [t \in Table |-> Previous']
  BY DEF Arrive, Previous
<1>4. DiskIsOrdered' /\ disk' \in [Table -> {None, Torn, Earlier, Latest}]
  BY <1>2, <1>3, TheTables DEF DiskIsOrdered, Previous
<1>5. RequestType' /\ RequestIsSteady'
  BY <1>1 DEF RequestType, RequestIsSteady
<1> QED
  BY <1>2, <1>4, <1>5 DEF ProtocolInv

(* A writer that moves on leaves the requests behind that began before. *)
LEMMA RequestsFallBehind ==
  ASSUME ProtocolInv, UNCHANGED request, writer \in {"file"} \cup Table,
         writer' \in {"done", "failed"} \cup Table
  PROVE  RequestType' /\ RequestIsSteady'
<1>1. CASE request = NoRequest
  BY <1>1 DEF RequestType, RequestIsSteady
<1>2. CASE request # NoRequest
  <2>1. writer # "done" /\ writer' # "bank" /\ writer' # "file"
    BY Phases
  <2>2. request.begun # "done" /\ request' = request
    BY <1>2, <2>1 DEF ProtocolInv, RequestType
  <2>3. RequestType'
    BY <1>2, <2>1, <2>2 DEF ProtocolInv, RequestType
  <2>4. RequestIsSteady'
    BY <1>2, <2>1, <2>2 DEF ProtocolInv, RequestIsSteady
  <2> QED
    BY <2>3, <2>4
<1> QED
  BY <1>1, <1>2

LEMMA ProtocolStartStore ==
  ASSUME ProtocolInv, StartStore
  PROVE  ProtocolInv'
<1>1. /\ writer = "file" /\ writer' \in {TableOrder[1], "failed"}
      /\ UNCHANGED <<earlier, disk, request>>
  BY DEF StartStore
<1>2. /\ writer' \in {"done", "failed"} \cup Table /\ writer' \in Phase
      /\ writer' # "bank"
  BY <1>1, TheTables, Phases DEF Phase
<1>3. RequestType' /\ RequestIsSteady'
  BY <1>1, <1>2, RequestsFallBehind
<1>4. \A t \in Table : disk[t] = Previous
  BY <1>1 DEF ProtocolInv, DiskIsOrdered
<1>5. DiskIsOrdered'
  <2>1. writer' \notin {"bank", "file", "done"}
    BY <1>1, TheTables, Phases
  <2>2. ASSUME NEW n \in 1..5, writer' = TableOrder[n]
        PROVE  n = 1
    BY <1>1, <2>2, TheTables, Phases
  <2>3. \A m \in 1..5 : disk'[TableOrder[m]] = Previous'
    BY <1>1, <1>4, TheTables DEF Previous
  <2>4. ASSUME NEW n \in 1..5, writer' = TableOrder[n]
        PROVE  /\ \A m \in 1..(n - 1) : disk'[TableOrder[m]] = Latest
               /\ disk'[TableOrder[n]] \in {Previous', Torn}
               /\ \A m \in (n + 1)..5 : disk'[TableOrder[m]] = Previous'
    BY <2>2, <2>3, <2>4
  <2> QED
    BY <2>1, <2>4 DEF DiskIsOrdered
<1> QED
  BY <1>1, <1>2, <1>3, <1>5 DEF ProtocolInv

LEMMA ProtocolCreateTable ==
  ASSUME ProtocolInv, CreateTable
  PROVE  ProtocolInv'
<1>1. /\ writer \in Table /\ disk' = [disk EXCEPT ![writer] = Torn]
      /\ UNCHANGED <<earlier, writer, request>>
  BY DEF CreateTable
<1>2. RequestType' /\ RequestIsSteady'
  BY <1>1, Phases DEF ProtocolInv, RequestType, RequestIsSteady
<1>3. writer \notin {"bank", "file", "done", "failed"}
  BY <1>1, Phases
<1>4. DiskIsOrdered'
  <2>1. ASSUME NEW n \in 1..5, writer' = TableOrder[n]
        PROVE  /\ \A m \in 1..(n - 1) : disk'[TableOrder[m]] = Latest
               /\ disk'[TableOrder[n]] \in {Previous', Torn}
               /\ \A m \in (n + 1)..5 : disk'[TableOrder[m]] = Previous'
    <3>1. /\ \A m \in 1..(n - 1) : disk[TableOrder[m]] = Latest
          /\ \A m \in (n + 1)..5 : disk[TableOrder[m]] = Previous
      BY <1>1, <2>1 DEF ProtocolInv, DiskIsOrdered
    <3>2. \A m \in 1..5 : m # n => disk'[TableOrder[m]] = disk[TableOrder[m]]
      BY <1>1, <2>1, TheTables DEF ProtocolInv
    <3>3. disk'[TableOrder[n]] = Torn
      BY <1>1, <2>1, TheTables DEF ProtocolInv
    <3> QED
      BY <1>1, <3>1, <3>2, <3>3 DEF Previous
  <2> QED
    BY <1>1, <1>3, <2>1 DEF DiskIsOrdered
<1> QED
  BY <1>1, <1>2, <1>4 DEF ProtocolInv

LEMMA ProtocolCloseTable ==
  ASSUME ProtocolInv, CloseTable
  PROVE  ProtocolInv'
<1>1. /\ writer \in Table /\ disk' = [disk EXCEPT ![writer] = Latest]
      /\ writer' = NextWrite(writer) /\ UNCHANGED <<earlier, request>>
  BY DEF CloseTable
<1>2. PICK n \in 1..5 : writer = TableOrder[n]
  BY <1>1, TheTables
<1>3. writer' = IF n = 5 THEN "done" ELSE TableOrder[n + 1]
  BY <1>1, <1>2, TheNextTable
<1>4. writer' \in {"done", "failed"} \cup Table
  BY <1>2, <1>3, TheTables
<1>5. RequestType' /\ RequestIsSteady'
  BY <1>1, <1>4, RequestsFallBehind
<1>6. /\ \A m \in 1..n : disk'[TableOrder[m]] = Latest
      /\ \A m \in (n + 1)..5 : disk'[TableOrder[m]] = Previous'
  <2>1. /\ \A m \in 1..(n - 1) : disk[TableOrder[m]] = Latest
        /\ \A m \in (n + 1)..5 : disk[TableOrder[m]] = Previous
    BY <1>2 DEF ProtocolInv, DiskIsOrdered
  <2>2. \A m \in 1..5 : m # n => disk'[TableOrder[m]] = disk[TableOrder[m]]
    BY <1>1, <1>2, TheTables DEF ProtocolInv
  <2>3. disk'[TableOrder[n]] = Latest
    BY <1>1, <1>2, TheTables DEF ProtocolInv
  <2> QED
    BY <1>1, <2>1, <2>2, <2>3 DEF Previous
<1>7. DiskIsOrdered'
  <2>1. CASE n = 5
    <3>1. writer' = "done" /\ writer' \notin Table
      BY <1>3, <2>1, Phases
    <3>2. \A t \in Table : disk'[t] = Latest
      BY <1>6, <2>1, TheTables
    <3>3. \A m \in 1..5 : writer' # TableOrder[m]
      BY <3>1, TheTables
    <3> QED
      BY <3>1, <3>2, <3>3 DEF DiskIsOrdered
  <2>2. CASE n # 5
    <3>1. n + 1 \in 1..5 /\ writer' = TableOrder[n + 1] /\ writer' \in Table
      BY <1>3, <2>2, TheTables
    <3>2. writer' \notin {"bank", "file", "done", "failed"}
      BY <3>1, Phases
    <3>3. ASSUME NEW k \in 1..5, writer' = TableOrder[k]
          PROVE  /\ \A m \in 1..(k - 1) : disk'[TableOrder[m]] = Latest
                 /\ disk'[TableOrder[k]] \in {Previous', Torn}
                 /\ \A m \in (k + 1)..5 : disk'[TableOrder[m]] = Previous'
      <4> DEFINE next == n + 1
      <4>1. next \in 1..5 /\ TableOrder[k] = TableOrder[next]
        BY <3>1, <3>3
      <4> HIDE DEF next
      <4>2. k = next
        BY <4>1, TheTables
      <4> QED
        BY <1>6, <4>2 DEF next
    <3> QED
      BY <3>2, <3>3 DEF DiskIsOrdered
  <2> QED
    BY <2>1, <2>2
<1>8. disk' \in [Table -> {None, Torn, Earlier, Latest}] /\ writer' \in Phase
      /\ writer' # "bank"
  BY <1>1, <1>4, Phases DEF ProtocolInv, Phase
<1> QED
  BY <1>5, <1>7, <1>8 DEF ProtocolInv

LEMMA ProtocolStopStore ==
  ASSUME ProtocolInv, StopStore
  PROVE  ProtocolInv'
<1>1. writer \in Table /\ writer' = "failed" /\ UNCHANGED <<earlier, disk, request>>
  BY DEF StopStore
<1>2. RequestType' /\ RequestIsSteady'
  BY <1>1, RequestsFallBehind
<1>3. DiskIsOrdered'
  BY <1>1, Phases, TheTables DEF DiskIsOrdered
<1> QED
  BY <1>1, <1>2, <1>3 DEF ProtocolInv, Phase

LEMMA ProtocolAsk ==
  ASSUME ProtocolInv, Ask
  PROVE  ProtocolInv'
<1>1. PICK k \in DOMAIN Reads :
        request' = [kind |-> k, got |-> <<>>, begun |-> writer, state |-> "reading"]
  BY DEF Ask
<1>2. writer # "bank" /\ UNCHANGED <<earlier, disk, writer>> /\ k \in {"recon", "csdr"}
  BY WhatIsRead DEF Ask
<1>3. RequestType'
  BY <1>1, <1>2 DEF RequestType
<1>4. RequestIsSteady'
  <2>1. request'.got = <<>> /\ request'.kind = k /\ request'.state = "reading"
    BY <1>1
  <2>2. Len(request'.got) = 0 /\ Len(Reads[k]) > 0
    BY <1>2, <2>1, WhatIsRead
  <2> QED
    BY <2>1, <2>2 DEF RequestIsSteady
<1>5. DiskIsOrdered'
  BY <1>2 DEF ProtocolInv, DiskIsOrdered, Previous
<1> QED
  BY <1>2, <1>3, <1>4, <1>5 DEF ProtocolInv

LEMMA ProtocolReadTable ==
  ASSUME ProtocolInv, ReadTable
  PROVE  ProtocolInv'
<1> DEFINE Runs == {None, Torn, Earlier, Latest}
           old == request.got
           n == Len(old)
           all == Len(Reads[request.kind])
           new == disk[Reads[request.kind][n + 1]]
           got == Append(old, new)
<1>1. /\ request.state = "reading" /\ UNCHANGED <<earlier, disk, writer>>
      /\ request' = [request EXCEPT
           !.got = got,
           !.state = IF Last(got) = Torn THEN "error"
                     ELSE IF Len(got) = all THEN "answered" ELSE @]
  BY DEF ReadTable
<1>2. request # NoRequest
  <2>1. NoRequest.state = "none"
    BY DEF NoRequest
  <2> QED
    BY <1>1, <2>1
<1>3. /\ writer # "bank" /\ request.kind \in {"recon", "csdr"} /\ old \in Seq(Runs)
      /\ request.begun = "done" => writer = "done"
      /\ request = [kind |-> request.kind, got |-> old, begun |-> request.begun,
                    state |-> request.state]
  BY <1>2 DEF ProtocolInv, RequestType
<1>4. n \in Nat /\ n < all /\ all \in Nat
  BY <1>1, <1>2, <1>3, WhatIsRead DEF ProtocolInv, RequestIsSteady
<1>5. Reads[request.kind][n + 1] \in Table
  BY <1>3, <1>4, WhatIsRead
<1>6. new \in Runs
  BY <1>5 DEF ProtocolInv
<1>7. request.begun = writer /\ writer \in {"file", "done"} => new = RunSeen
  BY <1>5 DEF ProtocolInv, DiskIsOrdered, RunSeen
<1>8. request.begun = writer /\ writer \in {"file", "done"} =>
        \A i \in 1..n : old[i] = RunSeen
  BY <1>2 DEF ProtocolInv, RequestIsSteady
<1> HIDE DEF Runs, old, new, all
<1>9. /\ got \in Seq(Runs) /\ Len(got) = n + 1 /\ got[n + 1] = new
      /\ \A i \in 1..n : got[i] = old[i]
  BY <1>3, <1>4, <1>6, AppendProperties
<1>10. Last(got) = new
  BY <1>9 DEF Last
<1> HIDE DEF got, n
<1>11. /\ request'.kind = request.kind /\ request'.got = got /\ request'.begun = request.begun
       /\ request'.state = IF new = Torn THEN "error"
                           ELSE IF n + 1 = all THEN "answered" ELSE "reading"
       /\ request' = [kind |-> request'.kind, got |-> request'.got, begun |-> request'.begun,
                      state |-> request'.state]
  BY <1>1, <1>3, <1>9, <1>10
<1>12. RequestType'
  BY <1>1, <1>3, <1>9, <1>11 DEF RequestType, Runs
<1>13. RequestIsSteady'
  <2>1. RunSeen' = RunSeen
    BY <1>1 DEF RunSeen, Previous
  <2>2. ASSUME request'.begun = writer', writer' \in {"file", "done"}, NEW i \in 1..(n + 1)
        PROVE  got[i] = RunSeen'
    <3>1. request.begun = writer /\ writer \in {"file", "done"}
      BY <1>1, <1>11, <2>2
    <3>2. i \in 1..n \/ i = n + 1
      BY <1>4
    <3> QED
      BY <1>7, <1>8, <1>9, <2>1, <3>1, <3>2
  <2>3. Len(request'.got) = n + 1 /\ Len(Reads[request'.kind]) = all
    BY <1>9, <1>11 DEF all
  <2> QED
    BY <1>4, <1>9, <1>11, <2>2, <2>3 DEF RequestIsSteady
<1>14. DiskIsOrdered'
  BY <1>1 DEF ProtocolInv, DiskIsOrdered, Previous
<1> QED
  BY <1>1, <1>12, <1>13, <1>14 DEF ProtocolInv

(* The tables are replaced in their order, and a request that no run       *)
(* overlaps has read tables of one run only (run_store, write_parquet and  *)
(* the reads of "ingest serve").                                           *)
THEOREM ProtocolHolds == Spec => []ProtocolInv
<1>1. ASSUME ProtocolInv, [Next]_vars PROVE ProtocolInv'
  <2>1. CASE BankWrites
    BY <1>1, <2>1, ProtocolOnlyReads DEF BankWrites
  <2>2. CASE LoadFile
    BY <1>1, <2>2, ProtocolOnlyReads DEF LoadFile
  <2>3. CASE Arrive
    BY <1>1, <2>3, ProtocolArrive
  <2>4. CASE StartStore
    BY <1>1, <2>4, ProtocolStartStore
  <2>5. CASE CreateTable
    BY <1>1, <2>5, ProtocolCreateTable
  <2>6. CASE CloseTable
    BY <1>1, <2>6, ProtocolCloseTable
  <2>7. CASE StopStore
    BY <1>1, <2>7, ProtocolStopStore
  <2>8. CASE Ask
    BY <1>1, <2>8, ProtocolAsk
  <2>9. CASE ReadTable
    BY <1>1, <2>9, ProtocolReadTable
  <2>10. CASE UNCHANGED vars
    BY <1>1, <2>10, ProtocolOnlyReads DEF vars
  <2> QED
    BY <1>1, <2>1, <2>2, <2>3, <2>4, <2>5, <2>6, <2>7, <2>8, <2>9, <2>10 DEF Next
<1> QED
  BY <1>1, ProtocolStarts, PTL DEF Spec

(* Not overlapped: everything was read from one run. *)
LEMMA AnsweredFromOneRun ==
  ASSUME ProtocolInv, request.state \notin {"reading", "none"}, request.begun = writer,
         writer \in {"file", "done"}
  PROVE  /\ request.state = "answered" /\ Range(request.got) = {RunSeen}
         /\ request.kind = "recon" => request.got[1] = RunSeen /\ request.got[2] = RunSeen
<1>1. request # NoRequest
  <2>1. NoRequest.state = "none"
    BY DEF NoRequest
  <2> QED
    BY <2>1
<1> DEFINE got == request.got
           n == Len(got)
<1>2. /\ request.kind \in {"recon", "csdr"} /\ got \in Seq({None, Torn, Earlier, Latest})
      /\ request.state \in {"answered", "error"}
      /\ \A i \in 1..n : got[i] = RunSeen
      /\ request.state = "answered" => n = Len(Reads[request.kind])
      /\ request.state = "error" => n > 0 /\ got[n] = Torn
  BY <1>1 DEF ProtocolInv, RequestType, RequestIsSteady
<1>3. RunSeen # Torn
  BY DEF RunSeen, Previous, None, Torn, Earlier, Latest
<1>4. n \in Nat /\ DOMAIN got = 1..n
  BY <1>2
<1>5. request.state = "answered"
  BY <1>2, <1>3, <1>4
<1>6. n >= 2
  BY <1>2, <1>5, WhatIsRead
<1>7. Range(got) = {got[i] : i \in 1..n}
  BY <1>4 DEF Range
<1>8. 1 \in 1..n /\ 2 \in 1..n
  BY <1>4, <1>6
<1> HIDE DEF got, n
<1>9. Range(got) = {RunSeen}
  BY <1>2, <1>7, <1>8
<1> QED
  BY <1>2, <1>5, <1>8, <1>9 DEF got

-----------------------------------------------------------------------------
(* Numbers *)

LEMMA Least ==
  ASSUME NEW S \in SUBSET Nat, S # {}
  PROVE  \E m \in S : \A k \in S : m <= k
<1> DEFINE less == OpToRel(<, Nat)
<1>1. IsWellFoundedOn(less, Nat)
  BY NatLessThanWellFounded
<1>2. \A x, y \in Nat : y < x => <<y, x>> \in less
  BY DEF OpToRel
<1> HIDE DEF less
<1>3. PICK x \in S : \A y \in S : ~(<<y, x>> \in less)
  BY <1>1, WFMin
<1>4. ASSUME NEW y \in S PROVE x <= y
  <2>1. x \in Nat /\ y \in Nat /\ ~(<<y, x>> \in less)
    BY <1>3
  <2>2. ~(y < x)
    BY <1>2, <2>1
  <2> QED
    BY <2>1, <2>2
<1> QED
  BY <1>4

(* What is true of the first n numbers if each follows from the one before. *)
LEMMA UpTo ==
  ASSUME NEW N \in Nat, NEW S, 0 \in S, \A n \in 1..N : n - 1 \in S => n \in S
  PROVE  \A n \in 0..N : n \in S
<1> SUFFICES ASSUME NEW x \in 0..N, x \notin S PROVE FALSE
  OBVIOUS
<1> DEFINE bad == {n \in 0..N : n \notin S}
<1>1. bad \in SUBSET Nat /\ bad # {}
  OBVIOUS
<1>2. PICK m \in bad : \A k \in bad : m <= k
  BY <1>1, Least
<1>3. m \in 1..N /\ m - 1 \in 0..N /\ ~(m <= m - 1)
  BY <1>2
<1>4. m - 1 \in S
  BY <1>2, <1>3
<1> QED
  BY <1>2, <1>3, <1>4

LEMMA Numbers ==
  ASSUME NEW a \in Int, NEW b \in Int, NEW S \in SUBSET (a..b)
  PROVE  IsFiniteSet(S) /\ Cardinality(S) \in Nat
BY FS_Interval, FS_Subset, FS_CardinalityType

LEMMA Greatest ==
  ASSUME NEW N \in Nat, NEW S \in SUBSET (1..N), S # {}
  PROVE  \E m \in S : \A k \in S : k <= m
<1> DEFINE mirror == {N - k : k \in S}
<1>1. mirror \in SUBSET Nat /\ mirror # {}
  <2>1. \A k \in S : k \in 1..N /\ N - k \in Nat
    OBVIOUS
  <2> QED
    BY <2>1
<1>2. PICK x \in mirror : \A y \in mirror : x <= y
  BY <1>1, Least
<1>3. PICK m \in S : x = N - m
  BY <1>2
<1>4. ASSUME NEW k \in S PROVE k <= m
  <2>1. N - k \in mirror
    OBVIOUS
  <2>2. N - m <= N - k
    BY <1>2, <1>3, <2>1
  <2> QED
    BY <2>2
<1> QED
  BY <1>4

-----------------------------------------------------------------------------
(* FlattenSeq is what is left when the lists are joined one after another. *)

IsJoined(lists, g) ==
  /\ g[0] = <<>>
  /\ \A i \in 1..Len(lists) : g[i] = g[i - 1] \o lists[i]

LEMMA FlattenExists ==
  ASSUME NEW lists, NEW N \in Nat
  PROVE  \E f : f = [i \in 1..N |-> IF i = 1 THEN lists[i] ELSE f[i - 1] \o lists[i]]
<1> DEFINE Is(f, n) == f = [i \in 1..n |-> IF i = 1 THEN lists[i] ELSE f[i - 1] \o lists[i]]
           good == {n \in 0..N : \E f : Is(f, n)}
<1>1. 0 \in good
  <2>1. Is(<<>>, 0)
    OBVIOUS
  <2>2. 0 \in 0..N
    OBVIOUS
  <2> HIDE DEF Is
  <2>3. \E f : Is(f, 0)
    BY <2>1
  <2> QED
    BY <2>2, <2>3
<1>2. ASSUME NEW n \in 1..N, n - 1 \in good PROVE n \in good
  <2>1. PICK f : Is(f, n - 1)
    BY <1>2
  <2> DEFINE g == [i \in 1..n |-> IF i < n THEN f[i]
                                  ELSE IF i = 1 THEN lists[i] ELSE f[i - 1] \o lists[i]]
  <2>2. ASSUME NEW i \in 1..n
        PROVE  g[i] = IF i = 1 THEN lists[i] ELSE g[i - 1] \o lists[i]
    <3>1. CASE i < n
      <4>1. i \in 1..(n - 1) /\ g[i] = f[i]
        BY <3>1
      <4>2. i # 1 => i - 1 \in 1..n /\ i - 1 < n
        BY <3>1
      <4>3. i # 1 => g[i - 1] = f[i - 1]
        BY <4>2
      <4>4. f[i] = IF i = 1 THEN lists[i] ELSE f[i - 1] \o lists[i]
        BY <2>1, <4>1
      <4> QED
        BY <4>1, <4>3, <4>4
    <3>2. CASE ~(i < n)
      <4>1. i = n /\ (i # 1 => i - 1 \in 1..n /\ i - 1 < n)
        BY <3>2
      <4>2. i # 1 => g[i - 1] = f[i - 1]
        BY <4>1
      <4> QED
        BY <3>2, <4>2
    <3> QED
      BY <3>1, <3>2
  <2>3. g = [i \in 1..n |-> g[i]]
    OBVIOUS
  <2> HIDE DEF g
  <2>4. Is(g, n)
    BY <2>2, <2>3
  <2>5. n \in 0..N
    OBVIOUS
  <2> HIDE DEF Is
  <2>6. \E h : Is(h, n)
    BY <2>4
  <2> QED
    BY <2>5, <2>6
<1> HIDE DEF good
<1>3. N \in good
  BY <1>1, <1>2, UpTo
<1> QED
  BY <1>3 DEF good

LEMMA Flatten ==
  ASSUME NEW T, NEW lists \in Seq(Seq(T))
  PROVE  \E g \in [0..Len(lists) -> Seq(T)] :
           IsJoined(lists, g) /\ FlattenSeq(lists) = g[Len(lists)]
<1> DEFINE N == Len(lists)
           Is(f) == f = [i \in 1..N |-> IF i = 1 THEN lists[i] ELSE f[i - 1] \o lists[i]]
           f == CHOOSE f : Is(f)
           g == [i \in 0..N |-> IF i = 0 THEN <<>> ELSE f[i]]
<1>1. N \in Nat /\ \A i \in 1..N : lists[i] \in Seq(T)
  BY ElementOfSeq
<1>2. Is(f)
  <2>1. \E h : Is(h)
    BY <1>1, FlattenExists
  <2> HIDE DEF Is
  <2> QED
    BY <2>1
<1>3. FlattenSeq(lists) = IF N = 0 THEN lists ELSE f[N]
  BY Zenon DEF FlattenSeq
<1> HIDE DEF f
<1>4. g[0] = <<>> /\ \A i \in 1..N : g[i] = f[i]
  BY <1>1
<1>5. \A i \in 1..N : f[i] = IF i = 1 THEN lists[i] ELSE f[i - 1] \o lists[i]
  BY <1>2
<1> DEFINE good == {i \in 0..N : g[i] \in Seq(T)}
<1>6. ASSUME NEW i \in 1..N, i - 1 \in good
      PROVE  i \in good /\ g[i] = g[i - 1] \o lists[i]
  <2>1. g[i - 1] \in Seq(T) /\ lists[i] \in Seq(T) /\ i \in 0..N
    BY <1>1, <1>6
  <2>2. CASE i = 1
    <3>1. g[i] = lists[i] /\ g[i - 1] = <<>>
      BY <1>4, <1>5, <2>2
    <3> QED
      BY <2>1, <3>1, ConcatEmptySeq
  <2>3. CASE i # 1
    <3>1. i - 1 \in 1..N
      BY <2>3
    <3>2. g[i] = f[i - 1] \o lists[i] /\ g[i - 1] = f[i - 1]
      BY <1>4, <1>5, <2>3, <3>1
    <3> HIDE DEF g
    <3>3. g[i - 1] \o lists[i] \in Seq(T)
      BY <2>1, ConcatProperties
    <3> QED
      BY <2>1, <3>2, <3>3
  <2> QED
    BY <2>2, <2>3
<1>7. 0 \in good
  BY <1>1, <1>4
<1>8. \A i \in 0..N : i \in good
  <2> HIDE DEF good
  <2> QED
    BY <1>1, <1>6, <1>7, UpTo
<1>9. IsJoined(lists, g)
  <2>1. \A i \in 1..N : i - 1 \in 0..N
    BY <1>1
  <2> HIDE DEF good, g, N
  <2>2. \A i \in 1..N : g[i] = g[i - 1] \o lists[i]
    BY <1>6, <1>8, <2>1
  <2> QED
    BY <1>4, <2>2 DEF IsJoined, N
<1>10. g \in [0..N -> Seq(T)]
  <2>1. \A i \in 0..N : g[i] \in Seq(T)
    BY <1>8
  <2> QED
    BY <2>1
<1>11. FlattenSeq(lists) = g[N]
  <2>1. CASE N = 0
    BY <1>3, <1>4, <2>1, EmptySeq
  <2>2. CASE N # 0
    <3>1. N \in 1..N
      BY <1>1, <2>2
    <3> QED
      BY <1>3, <1>4, <2>2, <3>1
  <2> QED
    BY <2>1, <2>2
<1> HIDE DEF g
<1> QED
  BY <1>9, <1>10, <1>11

-----------------------------------------------------------------------------
(* How often something occurs. *)

Times(e, s) == Cardinality({k \in DOMAIN s : s[k] = e})

LEMMA TimesType ==
  ASSUME NEW T, NEW e, NEW s \in Seq(T)
  PROVE  Times(e, s) \in Nat
<1>1. Len(s) \in Int /\ 1 \in Int /\ {k \in DOMAIN s : s[k] = e} \in SUBSET (1..Len(s))
  OBVIOUS
<1> QED
  BY <1>1, Numbers DEF Times

LEMMA TimesOfNone == ASSUME NEW e PROVE Times(e, <<>>) = 0
<1>1. {k \in DOMAIN <<>> : <<>>[k] = e} = {}
  OBVIOUS
<1> QED
  BY <1>1, FS_EmptySet DEF Times

LEMMA TimesOfAll ==
  ASSUME NEW T, NEW s \in Seq(T), NEW t \in Seq(T), NEW e
  PROVE  Times(e, s \o t) = Times(e, s) + Times(e, t)
<1> DEFINE n == Len(s)
           m == Len(t)
           u == s \o t
           A == {k \in DOMAIN s : s[k] = e}
           B == {k \in DOMAIN t : t[k] = e}
           C == {k \in (n + 1)..(n + m) : u[k] = e}
           f == [k \in B |-> n + k]
<1>1. /\ n \in Nat /\ m \in Nat /\ u \in Seq(T) /\ Len(u) = n + m
      /\ \A k \in 1..n : u[k] = s[k]
      /\ \A k \in 1..m : u[n + k] = t[k]
      /\ DOMAIN s = 1..n /\ DOMAIN t = 1..m /\ DOMAIN u = 1..(n + m)
  <2>1. /\ u \in Seq(T) /\ Len(u) = n + m
        /\ \A k \in 1..(n + m) : u[k] = IF k <= n THEN s[k] ELSE t[k - n]
    BY ConcatProperties
  <2>2. n \in Nat /\ m \in Nat /\ DOMAIN s = 1..n /\ DOMAIN t = 1..m
    OBVIOUS
  <2>3. DOMAIN u = 1..(n + m)
    BY <2>1
  <2> HIDE DEF u, n, m
  <2>4. \A k \in 1..n : k \in 1..(n + m) /\ k <= n
    BY <2>2
  <2>5. \A k \in 1..m : n + k \in 1..(n + m) /\ ~(n + k <= n) /\ (n + k) - n = k
    BY <2>2
  <2>6. \A k \in 1..n : u[k] = s[k]
    BY <2>1, <2>4
  <2>7. \A k \in 1..m : u[n + k] = t[k]
    BY <2>1, <2>5
  <2> QED
    BY <2>1, <2>2, <2>3, <2>6, <2>7
<1> HIDE DEF n, m, u
<1>2. /\ A \in SUBSET (1..n) /\ B \in SUBSET (1..m) /\ C \in SUBSET ((n + 1)..(n + m))
      /\ 1 \in Int /\ n \in Int /\ m \in Int /\ n + 1 \in Int /\ n + m \in Int
  BY <1>1
<1>3. IsFiniteSet(A) /\ IsFiniteSet(B) /\ IsFiniteSet(C)
  <2> HIDE DEF A, B, C
  <2> QED
    BY <1>2, Numbers
<1>4. Cardinality(B) = Cardinality(C)
  <2>1. \A k \in B : n + k \in C
    BY <1>1
  <2>2. \A k \in C : k - n \in B /\ n + (k - n) = k
    BY <1>1
  <2>3. \A k, l \in B : n + k = n + l => k = l
    BY <1>1
  <2> HIDE DEF B, C
  <2>4. f \in Bijection(B, C)
    <3>1. f \in [B -> C]
      BY <2>1
    <3>2. \A k, l \in B : f[k] = f[l] => k = l
      BY <2>3
    <3>3. \A k \in C : \E l \in B : f[l] = k
      BY <2>2
    <3> QED
      BY <3>1, <3>2, <3>3 DEF Bijection, Injection, Surjection, IsInjective
  <2>5. ExistsBijection(B, C)
    BY <2>4 DEF ExistsBijection
  <2> QED
    BY <1>3, <2>5, FS_Bijection
<1>5. {k \in DOMAIN u : u[k] = e} = A \cup C /\ A \cap C = {}
  <2>1. ASSUME NEW k PROVE k \in {k_1 \in DOMAIN u : u[k_1] = e} <=> k \in A \cup C
    BY <1>1
  <2>2. A \cap C = {}
    BY <1>1
  <2> QED
    BY <2>1, <2>2
<1>6. Cardinality(A \cup C) = Cardinality(A) + Cardinality(C)
  <2> HIDE DEF A, C
  <2>1. Cardinality(A \cup C) = Cardinality(A) + Cardinality(C) - Cardinality(A \cap C)
    BY <1>3, FS_Union
  <2>2. Cardinality(A \cap C) = 0
    BY <1>5, FS_EmptySet
  <2>3. Cardinality(A) \in Nat /\ Cardinality(C) \in Nat
    BY <1>3, FS_CardinalityType
  <2> QED
    BY <2>1, <2>2, <2>3
<1> QED
  BY <1>4, <1>5, <1>6 DEF Times, u

LEMMA TimesOfMore ==
  ASSUME NEW T, NEW s \in Seq(T), NEW x \in T, NEW e
  PROVE  Times(e, Append(s, x)) = Times(e, s) + (IF x = e THEN 1 ELSE 0)
<1>1. Append(s, x) = s \o <<x>> /\ <<x>> \in Seq(T)
  OBVIOUS
<1>2. Times(e, <<x>>) = IF x = e THEN 1 ELSE 0
  <2>1. DOMAIN <<x>> = {1} /\ <<x>>[1] = x
    OBVIOUS
  <2>2. {k \in DOMAIN <<x>> : <<x>>[k] = e} = IF x = e THEN {1} ELSE {}
    BY <2>1
  <2> QED
    BY <2>2, FS_EmptySet, FS_Singleton DEF Times
<1> QED
  BY <1>1, <1>2, TimesOfAll

LEMMA Occurring ==
  ASSUME NEW T, NEW s \in Seq(T), NEW e
  PROVE  e \in Range(s) <=> Times(e, s) # 0
<1> DEFINE A == {k \in DOMAIN s : s[k] = e}
<1>1. Len(s) \in Int /\ 1 \in Int /\ A \in SUBSET (1..Len(s))
  OBVIOUS
<1>2. e \in Range(s) <=> A # {}
  BY DEF Range
<1> HIDE DEF A
<1>3. IsFiniteSet(A)
  BY <1>1, Numbers
<1> QED
  BY <1>2, <1>3, FS_EmptySet DEF Times, A

(* What is put at the end of one list occurs once more in all of them. *)
IsPutAt(x, h, old, new) ==
  /\ Len(new) = Len(old) /\ h \in 1..Len(old)
  /\ new[h] = Append(old[h], x)
  /\ \A i \in 1..Len(old) : i # h => new[i] = old[i]

LEMMA OneMore ==
  ASSUME NEW T, NEW old \in Seq(Seq(T)), NEW new \in Seq(Seq(T)), NEW x \in T, NEW h,
         IsPutAt(x, h, old, new), NEW e
  PROVE  Times(e, FlattenSeq(new)) = Times(e, FlattenSeq(old)) + (IF x = e THEN 1 ELSE 0)
<1> DEFINE N == Len(old)
           more == IF x = e THEN 1 ELSE 0
<1>0. /\ Len(new) = N /\ h \in 1..N /\ new[h] = Append(old[h], x)
      /\ \A i \in 1..N : i # h => new[i] = old[i]
  BY DEF IsPutAt
<1>1. PICK f \in [0..N -> Seq(T)] : IsJoined(old, f) /\ FlattenSeq(old) = f[N]
  BY Flatten
<1>2. PICK g \in [0..N -> Seq(T)] : IsJoined(new, g) /\ FlattenSeq(new) = g[N]
  BY <1>0, Flatten
<1>3. N \in Nat /\ \A i \in 1..N : old[i] \in Seq(T) /\ new[i] \in Seq(T)
  BY <1>0, ElementOfSeq
<1>4. \A i \in 0..N : Times(e, f[i]) \in Nat
  BY TimesType
<1>5. \A i \in 1..N : Times(e, old[i]) \in Nat
  BY <1>3, TimesType
<1>6. Times(e, new[h]) = Times(e, old[h]) + more
  BY <1>0, <1>3, TimesOfMore
<1> DEFINE good == {i \in 0..N : Times(e, g[i]) = Times(e, f[i]) + (IF i >= h THEN more ELSE 0)}
<1>7. 0 \in good
  <2>1. f[0] = <<>> /\ g[0] = <<>>
    BY <1>1, <1>2 DEF IsJoined
  <2> QED
    BY <1>0, <1>3, <2>1, TimesOfNone
<1>8. ASSUME NEW i \in 1..N, i - 1 \in good PROVE i \in good
  <2>1. i \in 0..N /\ i - 1 \in 0..N
    BY <1>3
  <2>2. f[i] = f[i - 1] \o old[i] /\ g[i] = g[i - 1] \o new[i]
    BY <1>0, <1>1, <1>2 DEF IsJoined
  <2>3. /\ Times(e, f[i]) = Times(e, f[i - 1]) + Times(e, old[i])
        /\ Times(e, g[i]) = Times(e, g[i - 1]) + Times(e, new[i])
    <3>1. f[i - 1] \in Seq(T) /\ g[i - 1] \in Seq(T) /\ old[i] \in Seq(T) /\ new[i] \in Seq(T)
      BY <1>3, <2>1
    <3>2. Times(e, f[i - 1] \o old[i]) = Times(e, f[i - 1]) + Times(e, old[i])
      BY <3>1, TimesOfAll
    <3>3. Times(e, g[i - 1] \o new[i]) = Times(e, g[i - 1]) + Times(e, new[i])
      BY <3>1, TimesOfAll
    <3> QED
      BY <2>2, <3>2, <3>3
  <2>4. Times(e, g[i - 1]) = Times(e, f[i - 1]) + (IF i - 1 >= h THEN more ELSE 0)
    BY <1>8
  <2>5. Times(e, new[i]) = Times(e, old[i]) + (IF i = h THEN more ELSE 0)
    <3>1. CASE i = h
      BY <1>6, <3>1
    <3>2. CASE i # h
      <4>1. new[i] = old[i] /\ Times(e, old[i]) \in Nat
        BY <1>0, <1>5, <3>2
      <4> HIDE DEF more
      <4> QED
        BY <3>2, <4>1
    <3> QED
      BY <3>1, <3>2
  <2>6. more \in Nat /\ Times(e, f[i - 1]) \in Nat /\ Times(e, old[i]) \in Nat
    BY <1>4, <1>5, <2>1
  <2>7. i \in Nat /\ h \in Nat
    BY <1>0, <1>3
  <2> HIDE DEF more, N
  <2>8. (IF i - 1 >= h THEN more ELSE 0) + (IF i = h THEN more ELSE 0)
          = (IF i >= h THEN more ELSE 0)
    BY <2>6, <2>7
  <2>9. Times(e, g[i]) = Times(e, f[i]) + (IF i >= h THEN more ELSE 0)
    BY <2>3, <2>4, <2>5, <2>6, <2>8
  <2> QED
    BY <2>1, <2>9
<1>9. N \in good
  <2> HIDE DEF good, N
  <2>1. \A i \in 0..N : i \in good
    BY <1>3, <1>7, <1>8, UpTo
  <2> QED
    BY <1>3, <2>1
<1> QED
  BY <1>0, <1>1, <1>2, <1>3, <1>9

LEMMA NothingYet ==
  ASSUME NEW T, NEW lists \in Seq(Seq(T)), \A i \in 1..Len(lists) : lists[i] = <<>>, NEW e
  PROVE  Times(e, FlattenSeq(lists)) = 0
<1> DEFINE N == Len(lists)
<1>1. PICK g \in [0..N -> Seq(T)] : IsJoined(lists, g) /\ FlattenSeq(lists) = g[N]
  BY Flatten
<1> DEFINE good == {i \in 0..N : g[i] = <<>>}
<1>2. 0 \in good /\ N \in Nat
  BY <1>1 DEF IsJoined
<1>3. ASSUME NEW i \in 1..N, i - 1 \in good PROVE i \in good
  <2>1. g[i] = g[i - 1] \o lists[i] /\ g[i - 1] = <<>> /\ lists[i] = <<>>
    BY <1>1, <1>3 DEF IsJoined
  <2>2. <<>> \o <<>> = <<>>
    OBVIOUS
  <2> QED
    BY <2>1, <2>2
<1>4. N \in good
  <2> HIDE DEF good, N
  <2>1. \A i \in 0..N : i \in good
    BY <1>2, <1>3, UpTo
  <2> QED
    BY <1>2, <2>1
<1> QED
  BY <1>1, <1>4, TimesOfNone

-----------------------------------------------------------------------------
(* The entries are put under their headers one after another. *)

JoinedBy(headers, rows, k, before) ==
  [n \in DOMAIN headers |->
    IF k = 0 THEN <<>>
    ELSE IF n \in Owners(headers, rows[k]) THEN Append(before[n], rows[k])
    ELSE before[n]]

IsJoining(headers, rows, K, f) ==
  f = [k \in 0..K |-> JoinedBy(headers, rows, k, f[k - 1])]

LEMMA JoinExists ==
  ASSUME NEW headers, NEW rows, NEW K \in Nat
  PROVE  \E f : IsJoining(headers, rows, K, f)
<1> DEFINE Is(f, n) == IsJoining(headers, rows, n, f)
           good == {n \in 0..K : \E f : Is(f, n)}
<1>1. 0 \in good
  <2> DEFINE f == [k \in 0..0 |-> [n \in DOMAIN headers |-> <<>>]]
  <2>1. \A k \in 0..0 : f[k] = JoinedBy(headers, rows, k, f[k - 1])
    BY DEF JoinedBy
  <2>2. f = [k \in 0..0 |-> f[k]]
    OBVIOUS
  <2> HIDE DEF f
  <2>3. Is(f, 0) /\ 0 \in 0..K
    BY <2>1, <2>2 DEF IsJoining
  <2> HIDE DEF Is
  <2>4. \E h : Is(h, 0)
    BY <2>3
  <2> QED
    BY <2>3, <2>4
<1>2. ASSUME NEW n \in 1..K, n - 1 \in good PROVE n \in good
  <2>1. PICK f : Is(f, n - 1)
    BY <1>2
  <2> DEFINE g == [k \in 0..n |-> IF k < n THEN f[k] ELSE JoinedBy(headers, rows, k, f[k - 1])]
  <2>2. ASSUME NEW k \in 0..n
        PROVE  g[k] = JoinedBy(headers, rows, k, g[k - 1])
    <3>1. k # 0 => k - 1 \in 0..n /\ k - 1 < n
      OBVIOUS
    <3>2. k # 0 => g[k - 1] = f[k - 1]
      BY <3>1
    <3>3. JoinedBy(headers, rows, k, g[k - 1]) = JoinedBy(headers, rows, k, f[k - 1])
      BY <3>2 DEF JoinedBy
    <3>4. CASE k < n
      <4>1. k \in 0..(n - 1) /\ g[k] = f[k]
        BY <3>4
      <4>2. f[k] = JoinedBy(headers, rows, k, f[k - 1])
        BY <2>1, <4>1 DEF IsJoining
      <4> QED
        BY <3>3, <4>1, <4>2
    <3>5. CASE ~(k < n)
      BY <3>3, <3>5
    <3> QED
      BY <3>4, <3>5
  <2>3. g = [k \in 0..n |-> g[k]]
    OBVIOUS
  <2> HIDE DEF g
  <2>4. Is(g, n)
    BY <2>2, <2>3, Zenon DEF IsJoining
  <2>5. n \in 0..K
    OBVIOUS
  <2> HIDE DEF Is
  <2>6. \E h : Is(h, n)
    BY <2>4
  <2> QED
    BY <2>5, <2>6
<1>3. K \in good
  <2> HIDE DEF good
  <2>1. \A n \in 0..K : n \in good
    BY <1>1, <1>2, UpTo
  <2> QED
    BY <2>1
<1> QED
  BY <1>3

EntriesOf(answer) == [n \in DOMAIN answer |-> answer[n].entries]

(* The lists after each row. *)
AreJoined(headers, rows, R, J) ==
  /\ J \in [0..Len(rows) -> Seq(Seq(R))]
  /\ \A k \in 0..Len(rows) : Len(J[k]) = Len(headers)
  /\ \A k \in 0..Len(rows) : J[k] = JoinedBy(headers, rows, k, J[k - 1])
  /\ EntriesOf(Join(headers, rows)) = J[Len(rows)]

LEMMA Joined ==
  ASSUME NEW X, NEW headers \in Seq(X), NEW R, NEW rows \in Seq(R)
  PROVE  \E J : AreJoined(headers, rows, R, J)
<1> DEFINE N == Len(headers)
           K == Len(rows)
           J == CHOOSE f : IsJoining(headers, rows, K, f)
<1>1. N \in Nat /\ K \in Nat /\ DOMAIN headers = 1..N
  OBVIOUS
<1>2. IsJoining(headers, rows, K, J)
  BY <1>1, JoinExists
<1>3. Join(headers, rows) =
        [n \in DOMAIN headers |->
          [opening |-> Shown(headers[n].opening), closing |-> Shown(headers[n].closing),
           entries |-> J[K][n]]]
  BY Zenon DEF Join, IsJoining, JoinedBy
<1> HIDE DEF J
<1>4. \A k \in 0..K : J[k] = JoinedBy(headers, rows, k, J[k - 1])
  BY <1>2 DEF IsJoining
<1> DEFINE good == {k \in 0..K : J[k] \in [1..N -> Seq(R)]}
<1>5. 0 \in good
  <2>1. <<>> \in Seq(R) /\ 0 \in 0..K
    BY <1>1
  <2> QED
    BY <1>1, <1>4, <2>1 DEF JoinedBy
<1>6. ASSUME NEW k \in 1..K, k - 1 \in good PROVE k \in good
  <2>1. k \in 0..K /\ k # 0 /\ rows[k] \in R /\ J[k - 1] \in [1..N -> Seq(R)]
    BY <1>1, <1>6, ElementOfSeq
  <2>2. J[k] = [n \in 1..N |-> IF n \in Owners(headers, rows[k]) THEN Append(J[k - 1][n], rows[k])
                               ELSE J[k - 1][n]]
    BY <1>1, <1>4, <2>1 DEF JoinedBy
  <2>3. \A n \in 1..N : Append(J[k - 1][n], rows[k]) \in Seq(R) /\ J[k - 1][n] \in Seq(R)
    BY <2>1, AppendProperties
  <2> QED
    BY <2>1, <2>2, <2>3
<1>7. \A k \in 0..K : k \in good
  <2> HIDE DEF good, N, K
  <2> QED
    BY <1>1, <1>5, <1>6, UpTo
<1>8. ASSUME NEW k \in 0..K PROVE J[k] \in Seq(Seq(R)) /\ Len(J[k]) = N
  <2>1. J[k] \in [1..N -> Seq(R)]
    BY <1>7
  <2> DEFINE x == J[k]
  <2> HIDE DEF x
  <2>2. x \in [1..N -> Seq(R)]
    BY <2>1 DEF x
  <2> HIDE DEF N
  <2>3. x \in Seq(Seq(R)) /\ Len(x) = N
    BY <1>1, <2>2
  <2> QED
    BY <2>3 DEF x
<1>9. J \in [0..K -> Seq(Seq(R))]
  <2>1. J = [k \in 0..K |-> J[k]]
    BY <1>2 DEF IsJoining
  <2> QED
    BY <1>8, <2>1
<1>10. /\ DOMAIN Join(headers, rows) = 1..N
       /\ \A n \in 1..N : Join(headers, rows)[n].entries = J[K][n]
  BY <1>1, <1>3
<1>11. J[K] \in [1..N -> Seq(R)]
  BY <1>1, <1>7
<1>12. EntriesOf(Join(headers, rows)) = J[K]
  BY <1>10, <1>11 DEF EntriesOf
<1>13. AreJoined(headers, rows, R, J)
  BY <1>4, <1>8, <1>9, <1>12 DEF AreJoined
<1> QED
  BY <1>13

LEMMA OneOwner ==
  ASSUME NEW X, NEW headers \in Seq(X), NEW row, NEW n \in 1..Len(headers),
         SameKey(headers[n], row)
  PROVE  \E h \in 1..Len(headers) : Owners(headers, row) = {h} /\ SameKey(headers[h], row)
<1> DEFINE N == Len(headers)
           its == {m \in 1..N : SameKey(headers[m], row)}
<1>1. N \in Nat /\ DOMAIN headers = 1..N /\ its \in SUBSET (1..N) /\ its # {}
  OBVIOUS
<1> HIDE DEF its, N
<1>2. PICK h \in its : \A m \in its : m <= h
  BY <1>1, Greatest
<1>3. h \in 1..N /\ SameKey(headers[h], row)
  BY <1>1 DEF its
<1>4. ASSUME NEW m PROVE m \in Owners(headers, row) <=> m = h
  <2>1. m \in Owners(headers, row)
          <=> m \in its /\ \A k \in its : k <= m
    BY <1>1 DEF Owners, its
  <2>2. m \in its /\ h <= m /\ m <= h => m = h
    BY <1>1, <1>3
  <2> QED
    BY <1>2, <2>1, <2>2
<1>5. Owners(headers, row) = {h}
  BY <1>4
<1> QED
  BY <1>3, <1>5 DEF N

(* No entry is lost or shown twice. *)
LEMMA SharedOut ==
  ASSUME NEW X, NEW headers \in Seq(X), NEW R, NEW rows \in Seq(R),
         \A k \in 1..Len(rows) : \E n \in 1..Len(headers) : SameKey(headers[n], rows[k]),
         NEW e
  PROVE  Times(e, FlattenSeq(EntriesOf(Join(headers, rows)))) = Times(e, rows)
<1> DEFINE N == Len(headers)
           K == Len(rows)
           P(k) == {j \in 1..k : rows[j] = e}
<1>0. PICK J : AreJoined(headers, rows, R, J)
  BY Joined
<1>1. /\ J \in [0..K -> Seq(Seq(R))]
      /\ \A k \in 0..K : Len(J[k]) = N
      /\ \A k \in 0..K : J[k] = JoinedBy(headers, rows, k, J[k - 1])
      /\ EntriesOf(Join(headers, rows)) = J[K]
  BY <1>0 DEF AreJoined
<1>2. N \in Nat /\ K \in Nat /\ DOMAIN headers = 1..N /\ DOMAIN rows = 1..K
  OBVIOUS
<1> DEFINE good == {k \in 0..K : Times(e, FlattenSeq(J[k])) = Cardinality(P(k))}
<1>3. 0 \in good
  <2>0. J[0] = [n \in 1..N |-> <<>>] /\ J[0] \in Seq(Seq(R)) /\ Len(J[0]) = N
    <3>1. 0 \in 0..K
      BY <1>2
    <3>2. \E before : J[0] = JoinedBy(headers, rows, 0, before)
      BY <1>1, <3>1
    <3> QED
      BY <1>1, <1>2, <3>1, <3>2 DEF JoinedBy
  <2>1. J[0] \in Seq(Seq(R)) /\ \A i \in 1..Len(J[0]) : J[0][i] = <<>>
    BY <2>0
  <2>2. Times(e, FlattenSeq(J[0])) = 0
    BY <2>1, NothingYet
  <2>3. P(0) = {}
    OBVIOUS
  <2> QED
    BY <1>2, <2>2, <2>3, FS_EmptySet
<1>4. ASSUME NEW k \in 1..K, k - 1 \in good PROVE k \in good
  <2>1. k \in 0..K /\ k - 1 \in 0..K /\ k # 0 /\ rows[k] \in R
    BY <1>2, ElementOfSeq
  <2>2. PICK h \in 1..N : Owners(headers, rows[k]) = {h}
    BY <1>2, OneOwner
  <2> DEFINE old == J[k - 1]
             new == J[k]
             more == IF rows[k] = e THEN 1 ELSE 0
  <2>3. old \in Seq(Seq(R)) /\ new \in Seq(Seq(R)) /\ Len(old) = N /\ Len(new) = N
    BY <1>1, <2>1
  <2>4. new = [n \in 1..N |-> IF n \in {h} THEN Append(old[n], rows[k]) ELSE old[n]]
    BY <1>1, <1>2, <2>1, <2>2 DEF JoinedBy
  <2>5. new[h] = Append(old[h], rows[k]) /\ \A i \in 1..N : i # h => new[i] = old[i]
    BY <2>4
  <2>6. Times(e, FlattenSeq(old)) = Cardinality(P(k - 1))
    BY <1>4
  <2> HIDE DEF old, new, P, N
  <2>7. Times(e, FlattenSeq(new)) = Times(e, FlattenSeq(old)) + more
    <3>1. IsPutAt(rows[k], h, old, new)
      BY <2>2, <2>3, <2>5 DEF IsPutAt
    <3> QED
      BY <2>1, <2>3, <3>1, OneMore
  <2>8. Cardinality(P(k)) = Cardinality(P(k - 1)) + more
    <3>1. IsFiniteSet(P(k - 1)) /\ Cardinality(P(k - 1)) \in Nat
      <4>1. P(k - 1) \in SUBSET (1..(k - 1)) /\ 1 \in Int /\ k - 1 \in Int
        BY DEF P
      <4> QED
        BY <4>1, Numbers
    <3>2. k \notin P(k - 1) /\ P(k) = IF rows[k] = e THEN P(k - 1) \cup {k} ELSE P(k - 1)
      BY DEF P
    <3>3. Cardinality(P(k - 1) \cup {k}) = Cardinality(P(k - 1)) + 1
      BY <3>1, <3>2, FS_AddElement
    <3> QED
      BY <3>1, <3>2, <3>3
  <2> QED
    BY <2>1, <2>6, <2>7, <2>8 DEF new
<1>5. K \in good
  <2> HIDE DEF good, N, K
  <2>1. \A k \in 0..K : k \in good
    BY <1>2, <1>3, <1>4, UpTo
  <2> QED
    BY <1>2, <2>1
<1> QED
  BY <1>1, <1>2, <1>5 DEF Times

-----------------------------------------------------------------------------
(* Each list keeps its place in what they are joined to. *)

EndsAt(lists, o) ==
  /\ o \in [0..Len(lists) -> Nat] /\ o[0] = 0
  /\ \A n \in 1..Len(lists) : o[n] = o[n - 1] + Len(lists[n])
  /\ \A m, n \in 0..Len(lists) : m <= n => o[m] <= o[n]
  /\ o[Len(lists)] = Len(FlattenSeq(lists))
  /\ \A n \in 1..Len(lists) : \A k \in 1..Len(lists[n]) :
       FlattenSeq(lists)[o[n - 1] + k] = lists[n][k]

LEMMA Ends ==
  ASSUME NEW T, NEW lists \in Seq(Seq(T))
  PROVE  \E o : EndsAt(lists, o)
<1> DEFINE N == Len(lists)
           all == FlattenSeq(lists)
<1>1. PICK g \in [0..N -> Seq(T)] : IsJoined(lists, g) /\ all = g[N]
  BY Flatten
<1> DEFINE o == [n \in 0..N |-> Len(g[n])]
<1>2. N \in Nat /\ \A i \in 1..N : lists[i] \in Seq(T) /\ Len(lists[i]) \in Nat
  BY ElementOfSeq
<1>3. \A n \in 0..N : g[n] \in Seq(T) /\ o[n] = Len(g[n]) /\ o[n] \in Nat
  BY <1>1
<1>4. o[0] = 0
  BY <1>1, <1>2 DEF IsJoined
<1>5. ASSUME NEW n \in 1..N
      PROVE  /\ o[n] = o[n - 1] + Len(lists[n])
             /\ \A k \in 1..o[n - 1] : g[n][k] = g[n - 1][k]
             /\ \A k \in 1..Len(lists[n]) : g[n][o[n - 1] + k] = lists[n][k]
  <2>1. n \in 0..N /\ n - 1 \in 0..N
    BY <1>2
  <2> DEFINE s == g[n - 1]
             t == lists[n]
  <2>2. g[n] = s \o t /\ s \in Seq(T) /\ t \in Seq(T) /\ o[n - 1] = Len(s) /\ o[n] = Len(g[n])
    BY <1>1, <1>2, <1>3, <2>1 DEF IsJoined
  <2> HIDE DEF o, s, t
  <2>3. /\ Len(s \o t) = Len(s) + Len(t)
        /\ \A k \in 1..(Len(s) + Len(t)) : (s \o t)[k] = IF k <= Len(s) THEN s[k] ELSE t[k - Len(s)]
        /\ Len(s) \in Nat /\ Len(t) \in Nat
    BY <2>2, ConcatProperties
  <2> DEFINE a == Len(s)
             b == Len(t)
  <2>4. a \in Nat /\ b \in Nat
    BY <2>3
  <2> HIDE DEF a, b
  <2>5. /\ \A k \in 1..a : k \in 1..(a + b) /\ k <= a
        /\ \A k \in 1..b : a + k \in 1..(a + b) /\ ~(a + k <= a) /\ (a + k) - a = k
    BY <2>4
  <2>6. /\ \A k \in 1..a : (s \o t)[k] = s[k]
        /\ \A k \in 1..b : (s \o t)[a + k] = t[k]
    BY <2>3, <2>5 DEF a, b
  <2> QED
    BY <2>2, <2>3, <2>6 DEF a, b, s, t
<1> HIDE DEF o
<1>6. ASSUME NEW m \in 0..N
      PROVE  \A n \in 0..N : m <= n => /\ o[m] <= o[n]
                                       /\ \A k \in 1..o[m] : g[n][k] = g[m][k]
  <2> DEFINE good == {n \in 0..N : m <= n => /\ o[m] <= o[n]
                                             /\ \A k \in 1..o[m] : g[n][k] = g[m][k]}
  <2>1. 0 \in good
    <3>1. m <= 0 => m = 0
      OBVIOUS
    <3> QED
      BY <1>2, <1>3, <3>1
  <2>2. ASSUME NEW n \in 1..N, n - 1 \in good PROVE n \in good
    <3>1. n \in 0..N /\ n - 1 \in 0..N
      BY <1>2
    <3>2. CASE m = n
      BY <1>3, <3>1, <3>2
    <3>3. CASE m < n
      <4>1. m <= n - 1
        BY <3>3
      <4>2. o[m] <= o[n - 1] /\ \A k \in 1..o[m] : g[n - 1][k] = g[m][k]
        BY <2>2, <4>1
      <4>3. o[n - 1] <= o[n] /\ \A k \in 1..o[n - 1] : g[n][k] = g[n - 1][k]
        <5>1. o[n] = o[n - 1] + Len(lists[n]) /\ Len(lists[n]) \in Nat
          BY <1>2, <1>5
        <5>2. o[n] \in Nat /\ o[n - 1] \in Nat
          BY <1>3, <3>1
        <5>3. o[n - 1] <= o[n]
          BY <5>1, <5>2
        <5>4. \A k \in 1..o[n - 1] : g[n][k] = g[n - 1][k]
          BY <1>5
        <5> QED
          BY <5>3, <5>4
      <4>4. o[m] \in Nat /\ o[n - 1] \in Nat /\ o[n] \in Nat
        BY <1>3, <3>1
      <4>5. \A k \in 1..o[m] : k \in 1..o[n - 1]
        BY <4>2, <4>4
      <4>6. o[m] <= o[n] /\ \A k \in 1..o[m] : g[n][k] = g[m][k]
        BY <4>2, <4>3, <4>4, <4>5
      <4> QED
        BY <3>1, <4>6
    <3>4. CASE n < m
      BY <3>1, <3>4
    <3> QED
      BY <3>2, <3>3, <3>4
  <2> HIDE DEF good
  <2>3. \A n \in 0..N : n \in good
    BY <1>2, <2>1, <2>2, UpTo
  <2> QED
    BY <2>3 DEF good
<1>7. ASSUME NEW n \in 1..N, NEW k \in 1..Len(lists[n])
      PROVE  all[o[n - 1] + k] = lists[n][k]
  <2>1. n \in 0..N /\ n - 1 \in 0..N /\ N \in 0..N /\ n <= N
    BY <1>2
  <2>2. o[n - 1] + k \in 1..o[n]
    <3>1. o[n] = o[n - 1] + Len(lists[n]) /\ Len(lists[n]) \in Nat
      BY <1>2, <1>5
    <3>2. o[n] \in Nat /\ o[n - 1] \in Nat
      BY <1>3, <2>1
    <3> QED
      BY <3>1, <3>2
  <2>3. g[N][o[n - 1] + k] = g[n][o[n - 1] + k]
    BY <1>6, <2>1, <2>2
  <2> QED
    BY <1>1, <1>5, <2>3
<1>8. o \in [0..N -> Nat] /\ o[N] = Len(all)
  BY <1>1, <1>2, <1>3 DEF o
<1>9. EndsAt(lists, o)
  <2> HIDE DEF all
  <2>1. \A n \in 1..N : o[n] = o[n - 1] + Len(lists[n])
    BY <1>5
  <2> QED
    BY <1>4, <1>6, <1>7, <1>8, <2>1 DEF EndsAt, all
<1> QED
  BY <1>9

(* Row k is of list h. *)
IsFrom(lists, o, k, h) ==
  /\ h \in 1..Len(lists) /\ o[h - 1] < k /\ k <= o[h]
  /\ k - o[h - 1] \in 1..Len(lists[h])
  /\ FlattenSeq(lists)[k] = lists[h][k - o[h - 1]]

LEMMA WhichList ==
  ASSUME NEW T, NEW lists \in Seq(Seq(T)), NEW o, EndsAt(lists, o),
         NEW k \in 1..Len(FlattenSeq(lists))
  PROVE  \E h : IsFrom(lists, o, k, h)
<1> DEFINE N == Len(lists)
           reached == {n \in 0..N : k <= o[n]}
<1>1. /\ N \in Nat /\ o \in [0..N -> Nat] /\ o[0] = 0 /\ o[N] = Len(FlattenSeq(lists))
      /\ \A n \in 1..N : o[n] = o[n - 1] + Len(lists[n])
      /\ \A n \in 1..N : \A i \in 1..Len(lists[n]) :
           FlattenSeq(lists)[o[n - 1] + i] = lists[n][i]
  BY DEF EndsAt
<1> HIDE DEF N
<1>2. k \in Nat /\ k >= 1
  OBVIOUS
<1>3. N \in reached /\ reached \in SUBSET Nat
  <2>1. o[N] \in Nat /\ k <= o[N]
    BY <1>1
  <2> QED
    BY <1>1, <2>1
<1>4. PICK h \in reached : \A n \in reached : h <= n
  BY <1>3, Least
<1>5. h \in 0..N /\ k <= o[h]
  BY <1>4
<1>6. h # 0
  BY <1>1, <1>2, <1>5
<1>7. h \in 1..N /\ h - 1 \in 0..N /\ ~(h <= h - 1)
  BY <1>1, <1>5, <1>6
<1>8. o[h - 1] < k
  <2>1. h - 1 \notin reached
    BY <1>4, <1>7
  <2>2. ~(k <= o[h - 1]) /\ o[h - 1] \in Nat
    BY <1>1, <1>7, <2>1
  <2> QED
    BY <1>2, <2>2
<1> DEFINE i == k - o[h - 1]
<1>9. i \in 1..Len(lists[h]) /\ o[h - 1] + i = k
  <2>1. o[h] = o[h - 1] + Len(lists[h]) /\ o[h] \in Nat /\ o[h - 1] \in Nat
    BY <1>1, <1>7
  <2>2. Len(lists[h]) \in Nat
    BY <1>7, ElementOfSeq DEF N
  <2> DEFINE a == o[h - 1]
             b == o[h]
             l == Len(lists[h])
  <2>3. a \in Nat /\ b \in Nat /\ l \in Nat /\ b = a + l /\ a < k /\ k <= b
    BY <1>5, <1>8, <2>1, <2>2
  <2> HIDE DEF a, b, l
  <2>4. k - a \in 1..l /\ a + (k - a) = k
    BY <1>2, <2>3
  <2> QED
    BY <2>4 DEF a, l
<1>10. FlattenSeq(lists)[k] = lists[h][i]
  <2> HIDE DEF i
  <2> QED
    BY <1>1, <1>7, <1>9
<1> QED
  BY <1>5, <1>7, <1>8, <1>9, <1>10 DEF N, IsFrom

(* How much of list n has been handed out after k rows. *)
Done(lists, o, n, k) ==
  IF k <= o[n - 1] THEN 0 ELSE IF k >= o[n] THEN Len(lists[n]) ELSE k - o[n - 1]

LEMMA DoneStep ==
  ASSUME NEW T, NEW lists \in Seq(Seq(T)), NEW o, EndsAt(lists, o), NEW k \in Nat \ {0},
         NEW h, IsFrom(lists, o, k, h), NEW n \in 1..Len(lists)
  PROVE  /\ Done(lists, o, n, k) \in 0..Len(lists[n])
         /\ n = h => /\ Done(lists, o, n, k) = k - o[n - 1]
                     /\ Done(lists, o, n, k - 1) = (k - 1) - o[n - 1]
         /\ n # h => Done(lists, o, n, k) = Done(lists, o, n, k - 1)
<1> DEFINE N == Len(lists)
           a == o[n - 1]
           b == o[n]
           l == Len(lists[n])
<1>1. /\ N \in Nat /\ o \in [0..N -> Nat] /\ b = a + l /\ l \in Nat
      /\ \A i, j \in 0..N : i <= j => o[i] <= o[j]
  <2>1. l \in Nat
    <3>1. lists[n] \in Seq(T)
      BY ElementOfSeq
    <3> QED
      BY <3>1
  <2>2. N \in Nat /\ o \in [0..N -> Nat] /\ b = a + l
    BY DEF EndsAt
  <2>3. \A i, j \in 0..N : i <= j => o[i] <= o[j]
    BY DEF EndsAt
  <2> QED
    BY <2>1, <2>2, <2>3
<1>2. n \in 1..N /\ h \in 1..N /\ o[h - 1] < k /\ k <= o[h]
  BY DEF IsFrom
<1> HIDE DEF N
<1>3. n \in 0..N /\ n - 1 \in 0..N /\ h \in 0..N /\ h - 1 \in 0..N
  BY <1>1, <1>2
<1>4. a \in Nat /\ b \in Nat /\ o[h] \in Nat /\ o[h - 1] \in Nat
  BY <1>1, <1>3
<1>5. n < h => b <= o[h - 1]
  BY <1>1, <1>3
<1>6. h < n => o[h] <= a
  BY <1>1, <1>3
<1>7. n = h => a = o[h - 1] /\ b = o[h]
  OBVIOUS
<1> HIDE DEF a, b, l
<1>8. /\ Done(lists, o, n, k) = IF k <= a THEN 0 ELSE IF k >= b THEN l ELSE k - a
      /\ Done(lists, o, n, k - 1) = IF k - 1 <= a THEN 0 ELSE IF k - 1 >= b THEN l ELSE (k - 1) - a
  BY DEF Done, a, b, l
<1>9. Done(lists, o, n, k) \in 0..l
  BY <1>1, <1>4, <1>8
<1>10. CASE n = h
  <2>1. a < k /\ k <= b
    BY <1>2, <1>7, <1>10
  <2>2. Done(lists, o, n, k) = k - a
    BY <1>1, <1>4, <1>8, <2>1
  <2>3. Done(lists, o, n, k - 1) = (k - 1) - a
    BY <1>1, <1>4, <1>8, <2>1
  <2> QED
    BY <1>9, <1>10, <2>2, <2>3 DEF a, l
<1>11. CASE n # h
  <2>1. b <= k - 1 \/ k <= a
    <3>1. CASE n < h
      BY <1>2, <1>4, <1>5, <3>1
    <3>2. CASE h < n
      BY <1>2, <1>4, <1>6, <3>2
    <3> QED
      BY <1>1, <1>2, <1>11, <3>1, <3>2
  <2>2. Done(lists, o, n, k) = Done(lists, o, n, k - 1)
    <3>1. CASE k <= a
      BY <1>4, <1>8, <3>1
    <3>2. CASE ~(k <= a) /\ b <= k - 1
      BY <1>1, <1>4, <1>8, <3>2
    <3> QED
      BY <2>1, <3>1, <3>2
  <2> QED
    BY <1>9, <1>11, <2>2 DEF l
<1> QED
  BY <1>10, <1>11

(* Where no two headers have the same key, every list comes back whole. *)
LEMMA SharedOutAsStored ==
  ASSUME NEW X, NEW headers \in Seq(X), NEW R, NEW lists \in Seq(Seq(R)),
         Len(lists) = Len(headers),
         \A n \in 1..Len(lists) : \A k \in 1..Len(lists[n]) : Owners(headers, lists[n][k]) = {n}
  PROVE  EntriesOf(Join(headers, FlattenSeq(lists))) = lists
<1> DEFINE rows == FlattenSeq(lists)
           N == Len(lists)
           K == Len(rows)
<1>1. /\ N \in Nat /\ DOMAIN headers = 1..N /\ DOMAIN lists = 1..N
      /\ \A n \in 1..N : lists[n] \in Seq(R)
  BY ElementOfSeq
<1>2. rows \in Seq(R) /\ K \in Nat
  <2>1. PICK g \in [0..N -> Seq(R)] : IsJoined(lists, g) /\ rows = g[N]
    BY Flatten
  <2>2. rows \in Seq(R)
    BY <1>1, <2>1
  <2> QED
    BY <2>2
<1>3. PICK o : EndsAt(lists, o)
  BY Ends
<1>4. PICK J : AreJoined(headers, rows, R, J)
  BY <1>2, Joined
<1>5. /\ J \in [0..K -> Seq(Seq(R))]
      /\ \A k \in 0..K : Len(J[k]) = N
      /\ \A k \in 0..K : J[k] = JoinedBy(headers, rows, k, J[k - 1])
      /\ EntriesOf(Join(headers, rows)) = J[K]
  BY <1>4 DEF AreJoined
<1>6. /\ o \in [0..N -> Nat] /\ o[0] = 0 /\ o[N] = K
      /\ \A n \in 1..N : o[n] = o[n - 1] + Len(lists[n])
      /\ \A m, n \in 0..N : m <= n => o[m] <= o[n]
  BY <1>3 DEF EndsAt
<1> DEFINE Part(n, k) == [m \in 1..Done(lists, o, n, k) |-> lists[n][m]]
           good == {k \in 0..K : \A n \in 1..N : J[k][n] = Part(n, k)}
<1>7. 0 \in good
  <2>1. 0 \in 0..K
    BY <1>2
  <2>2. \E before : J[0] = JoinedBy(headers, rows, 0, before)
    BY <1>5, <2>1
  <2>3. ASSUME NEW n \in 1..N PROVE J[0][n] = <<>> /\ Part(n, 0) = <<>>
    <3>1. J[0][n] = <<>>
      BY <1>1, <2>2 DEF JoinedBy
    <3>2. n - 1 \in 0..N
      BY <1>1
    <3>3. 0 <= o[n - 1]
      BY <1>6, <3>2
    <3>4. Done(lists, o, n, 0) = 0
      BY <3>3 DEF Done
    <3> QED
      BY <3>1, <3>4
  <2> QED
    BY <2>1, <2>3
<1>8. ASSUME NEW k \in 1..K, k - 1 \in good PROVE k \in good
  <2>1. k \in 0..K /\ k - 1 \in 0..K /\ k # 0 /\ k \in Nat \ {0}
    BY <1>2
  <2>0. PICK h : IsFrom(lists, o, k, h)
    BY <1>3, WhichList
  <2>2. /\ h \in 1..N /\ k - o[h - 1] \in 1..Len(lists[h])
        /\ rows[k] = lists[h][k - o[h - 1]]
    BY <2>0 DEF IsFrom
  <2>3. Owners(headers, rows[k]) = {h}
    BY <2>2
  <2>4. \A n \in 1..N : J[k][n] = IF n = h THEN Append(J[k - 1][n], rows[k]) ELSE J[k - 1][n]
    <3> DEFINE before == J[k - 1]
    <3>1. J[k] = JoinedBy(headers, rows, k, before)
      BY <1>5, <2>1
    <3> HIDE DEF before, rows
    <3>2. JoinedBy(headers, rows, k, before)
            = [n \in 1..N |-> IF n = h THEN Append(before[n], rows[k]) ELSE before[n]]
      BY <1>1, <2>1, <2>3 DEF JoinedBy
    <3>3. \A n \in 1..N : J[k][n] = IF n = h THEN Append(before[n], rows[k]) ELSE before[n]
      BY <3>1, <3>2
    <3> QED
      BY <3>3 DEF before
  <2>5. \A n \in 1..N : J[k - 1][n] = Part(n, k - 1)
    BY <1>8
  <2>6. ASSUME NEW n \in 1..N, n # h PROVE J[k][n] = Part(n, k)
    <3>1. Done(lists, o, n, k) = Done(lists, o, n, k - 1)
      BY <1>3, <2>1, <2>0, <2>6, DoneStep
    <3> QED
      BY <2>4, <2>5, <2>6, <3>1
  <2>7. J[k][h] = Part(h, k)
    <3> DEFINE m == k - o[h - 1]
    <3>1. h - 1 \in 0..N
      BY <1>1, <2>2
    <3>2. o[h - 1] \in Nat
      BY <1>6, <3>1
    <3>3. /\ Done(lists, o, h, k) = m
          /\ Done(lists, o, h, k - 1) = (k - 1) - o[h - 1]
      BY <1>3, <2>1, <2>2, <2>0, DoneStep
    <3>4. m \in 1..Len(lists[h]) /\ rows[k] = lists[h][m]
      BY <2>2
    <3>5. (k - 1) - o[h - 1] = m - 1
      BY <2>1, <3>2
    <3> HIDE DEF m
    <3> DEFINE s == lists[h]
    <3>6. s \in Seq(R) /\ m \in 1..Len(s)
      BY <1>1, <2>2, <3>4
    <3> HIDE DEF s
    <3>7. Append([i \in 1..(m - 1) |-> s[i]], s[m]) = [i \in 1..m |-> s[i]]
      <4> DEFINE p == [i \in 1..(m - 1) |-> s[i]]
      <4>1. m \in Nat /\ m >= 1 /\ Len(s) \in Nat /\ \A i \in 1..Len(s) : s[i] \in R
        BY <3>6, ElementOfSeq
      <4>2. p \in Seq(R) /\ Len(p) = m - 1 /\ s[m] \in R
        BY <3>6, <4>1
      <4>3. \A i \in 1..(m - 1) : p[i] = s[i]
        OBVIOUS
      <4> HIDE DEF p
      <4> DEFINE x == s[m]
                 q == Append(p, x)
      <4>4. p \in Seq(R) /\ Len(p) = m - 1 /\ x \in R
        BY <4>2
      <4> HIDE DEF x
      <4>5. /\ q \in Seq(R) /\ Len(q) = m
            /\ \A i \in 1..(m - 1) : q[i] = p[i]
            /\ q[m] = x
        BY <4>1, <4>4, AppendProperties
      <4> HIDE DEF q
      <4>6. \A i \in 1..m : q[i] = s[i]
        <5> SUFFICES ASSUME NEW i \in 1..m PROVE q[i] = s[i]
          OBVIOUS
        <5>1. i = m \/ i \in 1..(m - 1)
          BY <4>1
        <5> QED
          BY <4>3, <4>5, <5>1 DEF x
      <4>7. q = [i \in 1..m |-> q[i]]
        BY <4>5
      <4> QED
        BY <4>6, <4>7 DEF q, p, x
    <3>8. J[k][h] = Append(Part(h, k - 1), rows[k])
      BY <2>2, <2>4, <2>5
    <3>9. Part(h, k - 1) = [i \in 1..(m - 1) |-> s[i]] /\ Part(h, k) = [i \in 1..m |-> s[i]]
      BY <3>3, <3>5 DEF s
    <3> QED
      BY <3>4, <3>7, <3>8, <3>9 DEF s
  <2> HIDE DEF Part
  <2> QED
    BY <2>1, <2>6, <2>7
<1>9. \A n \in 1..N : J[K][n] = Part(n, K)
  <2> HIDE DEF good
  <2>1. \A k \in 0..K : k \in good
    <3> HIDE DEF K, N
    <3> QED
      BY <1>2, <1>7, <1>8, UpTo
  <2>2. K \in good
    BY <1>2, <2>1
  <2> QED
    BY <2>2 DEF good
<1>10. ASSUME NEW n \in 1..N PROVE Part(n, K) = lists[n]
  <2>1. n \in 0..N /\ n - 1 \in 0..N /\ N \in 0..N /\ n <= N
    BY <1>1
  <2>2. o[n] <= K /\ o[n] \in Nat /\ o[n - 1] \in Nat /\ o[n] = o[n - 1] + Len(lists[n])
    <3>1. o[n] \in Nat /\ o[n - 1] \in Nat
      BY <1>6, <2>1
    <3>2. o[n] <= o[N]
      BY <1>6, <2>1
    <3>3. o[n] = o[n - 1] + Len(lists[n])
      BY <1>6
    <3> QED
      BY <1>6, <3>1, <3>2, <3>3
  <2>3. lists[n] \in Seq(R) /\ Len(lists[n]) \in Nat
    BY <1>1
  <2>4. Done(lists, o, n, K) = Len(lists[n])
    BY <1>2, <2>2, <2>3 DEF Done
  <2> QED
    BY <2>3, <2>4
<1>11. J[K] \in Seq(Seq(R)) /\ Len(J[K]) = N
  BY <1>2, <1>5
<1>12. \A n \in 1..N : J[K][n] = lists[n]
  BY <1>9, <1>10
<1>13. J[K] = lists
  BY <1>1, <1>11, <1>12
<1> QED
  BY <1>5, <1>13

-----------------------------------------------------------------------------
(* What is read from a file are statements. *)

IsSeq(s) == \E T : s \in Seq(T)

LEMMA SeqShape ==
  ASSUME NEW s, IsSeq(s)
  PROVE  Len(s) \in Nat /\ DOMAIN s = 1..Len(s) /\ s \in Seq({s[i] : i \in 1..Len(s)})
<1>1. PICK T : s \in Seq(T)
  BY DEF IsSeq
<1>2. s \in [1..Len(s) -> T] /\ Len(s) \in Nat /\ DOMAIN s = 1..Len(s)
  BY <1>1
<1>3. s \in [1..Len(s) -> {s[i] : i \in 1..Len(s)}]
  BY <1>2
<1> QED
  BY <1>2, <1>3

LEMMA SeqOfFunction ==
  ASSUME NEW N \in Nat, NEW s, DOMAIN s = 1..N, s = [i \in 1..N |-> s[i]]
  PROVE  IsSeq(s) /\ Len(s) = N
<1>1. s \in [1..N -> {s[i] : i \in 1..N}]
  OBVIOUS
<1>2. s \in Seq({s[i] : i \in 1..N}) /\ Len(s) = N
  BY <1>1
<1> QED
  BY <1>2 DEF IsSeq

LEMMA SeqOfConcat ==
  ASSUME NEW s, NEW t, IsSeq(s), IsSeq(t)
  PROVE  IsSeq(s \o t)
<1>1. PICK T : s \in Seq(T)
  BY DEF IsSeq
<1>2. PICK U : t \in Seq(U)
  BY DEF IsSeq
<1>3. s \in Seq(T \cup U) /\ t \in Seq(T \cup U)
  BY <1>1, <1>2, SeqMonotonic
<1>4. s \o t \in Seq(T \cup U)
  BY <1>3
<1> QED
  BY <1>4 DEF IsSeq

LEMMA SeqOfMore ==
  ASSUME NEW s, NEW x, IsSeq(s)
  PROVE  IsSeq(Append(s, x))
<1>1. PICK T : s \in Seq(T)
  BY DEF IsSeq
<1>2. s \in Seq(T \cup {x})
  BY <1>1, SeqMonotonic
<1>3. Append(s, x) \in Seq(T \cup {x})
  BY <1>2
<1> QED
  BY <1>3 DEF IsSeq

LEMMA ShortSeqs ==
  ASSUME NEW x, NEW y, NEW z
  PROVE  IsSeq(<<>>) /\ IsSeq(<<x>>) /\ IsSeq(<<x, y>>) /\ IsSeq(<<x, y, z>>)
<1> DEFINE T == {x, y, z}
<1>1. <<>> \in Seq(T) /\ <<x>> \in Seq(T) /\ <<x, y>> \in Seq(T) /\ <<x, y, z>> \in Seq(T)
  OBVIOUS
<1> QED
  BY <1>1 DEF IsSeq

LEMMA FirstIsIn ==
  ASSUME NEW N \in Nat, NEW S \in SUBSET (1..N), S # {}
  PROVE  First(S) \in S /\ First(S) \in 1..N
<1>1. S \in SUBSET Nat
  OBVIOUS
<1>2. \E i \in S : \A j \in S : i <= j
  BY <1>1, Least
<1> QED
  BY <1>2 DEF First

LEMMA PlacesAreIn ==
  ASSUME NEW s, IsSeq(s), NEW kinds
  PROVE  /\ Places(s, kinds) \in SUBSET (1..Len(s))
         /\ IsFiniteSet(Places(s, kinds)) /\ Cardinality(Places(s, kinds)) \in Nat
<1>1. Len(s) \in Nat /\ DOMAIN s = 1..Len(s)
  BY SeqShape
<1>2. Places(s, kinds) \in SUBSET (1..Len(s)) /\ 1 \in Int /\ Len(s) \in Int
  BY <1>1 DEF Places
<1> QED
  BY <1>2, Numbers

LEMMA FieldsAreMany ==
  ASSUME NEW message, IsSeq(message)
  PROVE  Len(Fields(message)) \in Nat
<1> DEFINE opens == Places(message, {"open", "ack"})
           closes == ClosesAfter(message, First(opens))
           text == TextBlock(message)
<1>1. Len(message) \in Nat
  BY SeqShape
<1>2. IsSeq(text)
  <2>1. CASE opens = {} \/ closes = {}
    BY <2>1, ShortSeqs DEF TextBlock
  <2>2. CASE opens # {} /\ closes # {}
    <3>1. opens \in SUBSET (1..Len(message)) /\ closes \in SUBSET (1..Len(message))
      BY PlacesAreIn DEF ClosesAfter
    <3> DEFINE a == First(opens) + 1
               b == First(closes) - 1
    <3>2. a \in Int /\ b \in Int /\ a >= 1 /\ b <= Len(message)
      <4> HIDE DEF opens, closes
      <4>1. First(opens) \in 1..Len(message) /\ First(closes) \in 1..Len(message)
        BY <1>1, <2>2, <3>1, FirstIsIn
      <4> QED
        BY <1>1, <4>1
    <3>3. text = SubSeq(message, a, b)
      BY <2>2 DEF TextBlock
    <3> HIDE DEF a, b
    <3>4. PICK T : message \in Seq(T)
      BY DEF IsSeq
    <3>5. SubSeq(message, a, b) \in Seq(T)
      BY <1>1, <3>2, <3>4, SubSeqProperties
    <3> QED
      BY <3>3, <3>5 DEF IsSeq
  <2> QED
    BY <2>1, <2>2
<1> DEFINE lines == Places(text, {"line"})
<1>3. Cardinality(lines) \in Nat
  <2> HIDE DEF text
  <2> QED
    BY <1>2, PlacesAreIn
<1>4. DOMAIN InOrder(lines) = 1..Cardinality(lines)
  BY DEF InOrder
<1>5. DOMAIN FieldsIn(text) = 1..Cardinality(lines)
  BY <1>4 DEF FieldsIn
<1>6. FieldsIn(text) = [n \in 1..Cardinality(lines) |-> FieldsIn(text)[n]]
  BY <1>4 DEF FieldsIn
<1> HIDE DEF lines, text
<1>7. Len(FieldsIn(text)) = Cardinality(lines)
  BY <1>3, <1>5, <1>6, SeqOfFunction
<1> QED
  BY <1>3, <1>7 DEF Fields, text

(* A statement being read has the entries that were read so far. *)
ReadingOf(source, id, opening, closing, entries, any, after) ==
  [statement |-> Statement(source, id, opening, closing, entries),
   any |-> any, afterEntry |-> after]

IsReading(r) ==
  \E source, id, opening, closing, entries, any, after :
    /\ IsSeq(entries) /\ any \in BOOLEAN /\ after \in BOOLEAN
    /\ r = ReadingOf(source, id, opening, closing, entries, any, after)

LEMMA ReadingStarts == IsReading(Reading)
<1>1. Reading = ReadingOf("swift", 0, {}, {}, <<>>, FALSE, FALSE)
  BY DEF Reading, ReadingOf
<1> QED
  BY <1>1, ShortSeqs DEF IsReading

LEMMA NoEntryBefore ==
  ASSUME NEW statement, NEW any, NEW after, NEW r,
         r = [statement |-> statement, any |-> any, afterEntry |-> after],
         NEW s, s = [r EXCEPT !.afterEntry = FALSE]
  PROVE  s = [statement |-> statement, any |-> any, afterEntry |-> FALSE]
OBVIOUS

WithText(entries, text) == [entries EXCEPT ![Len(entries)].info = text]

Informed(entries, after, text) == IF after THEN WithText(entries, text) ELSE entries

(* t is what the reading is after that field. *)
IsTaken(t, field, source, id, opening, closing, entries, any, after) ==
  /\ field.tag = "20" =>
       t = ReadingOf(source, IF id = 0 THEN field.value.text ELSE id, opening, closing, entries,
                     TRUE, FALSE)
  /\ field.tag = "25" => t = ReadingOf(source, id, opening, closing, entries, TRUE, FALSE)
  /\ field.tag = "60" =>
       t = ReadingOf(source, id, BalanceIn(field), closing, entries, any, FALSE)
  /\ field.tag = "62" =>
       t = ReadingOf(source, id, opening, BalanceIn(field), entries, any, FALSE)
  /\ field.tag = "61" /\ ~field.value.readable =>
       t = ReadingOf(source, id, opening, closing, entries, any, after)
  /\ field.tag = "61" /\ field.value.readable =>
       t = ReadingOf(source, id, opening, closing,
                     Append(entries, Entry(field.value, IF field.whole THEN 0 ELSE Supplement)),
                     TRUE, TRUE)
  /\ field.tag = "86" =>
       t = ReadingOf(source, id, opening, closing,
                     Informed(entries, after, field.value.text), any, FALSE)
  /\ field.tag \notin {"20", "25", "60", "61", "86", "62"} =>
       t = ReadingOf(source, id, opening, closing, entries, any, FALSE)

LEMMA WhatTakeDoes ==
  ASSUME NEW source, NEW id, NEW opening, NEW closing, NEW entries, NEW any, NEW after,
         NEW r, r = ReadingOf(source, id, opening, closing, entries, any, after),
         after \in BOOLEAN, NEW field
  PROVE  IsTaken(Take(r, field), field, source, id, opening, closing, entries, any, after)
<1> DEFINE s == [r EXCEPT !.afterEntry = FALSE]
           value == field.value
<1>2. s = ReadingOf(source, id, opening, closing, entries, any, FALSE)
  <2>1. \E t : t = s
    OBVIOUS
  <2>2. PICK t : t = s
    BY <2>1
  <2>3. t = [r EXCEPT !.afterEntry = FALSE]
    BY <2>2
  <2> HIDE DEF s
  <2>4. r = [statement |-> Statement(source, id, opening, closing, entries),
             any |-> any, afterEntry |-> after]
    BY DEF ReadingOf
  <2>5. t = ReadingOf(source, id, opening, closing, entries, any, FALSE)
    BY <2>3, <2>4, NoEntryBefore DEF ReadingOf
  <2> QED
    BY <2>2, <2>5
<1>3. ASSUME field.tag = "20"
      PROVE  Take(r, field) = ReadingOf(source, IF id = 0 THEN value.text ELSE id,
                                        opening, closing, entries, TRUE, FALSE)
  <2>1. Take(r, field) = [s EXCEPT !.any = TRUE,
                            !.statement.id = IF @ = 0 THEN value.text ELSE @]
    BY <1>3 DEF Take
  <2> HIDE DEF s, value
  <2> QED
    BY <1>2, <2>1 DEF ReadingOf, Statement
<1>4. ASSUME field.tag = "25"
      PROVE  Take(r, field) = ReadingOf(source, id, opening, closing, entries, TRUE, FALSE)
  <2>1. Take(r, field) = [s EXCEPT !.any = TRUE]
    BY <1>4 DEF Take
  <2> HIDE DEF s
  <2> QED
    BY <1>2, <2>1 DEF ReadingOf
<1>5. ASSUME field.tag = "60"
      PROVE  Take(r, field) = ReadingOf(source, id, BalanceIn(field), closing, entries, any, FALSE)
  <2>1. Take(r, field) = [s EXCEPT !.statement.opening = BalanceIn(field)]
    BY <1>5 DEF Take
  <2> HIDE DEF s
  <2> QED
    BY <1>2, <2>1 DEF ReadingOf, Statement
<1>6. ASSUME field.tag = "62"
      PROVE  Take(r, field) = ReadingOf(source, id, opening, BalanceIn(field), entries, any, FALSE)
  <2>1. Take(r, field) = [s EXCEPT !.statement.closing = BalanceIn(field)]
    BY <1>6 DEF Take
  <2> HIDE DEF s
  <2> QED
    BY <1>2, <2>1 DEF ReadingOf, Statement
<1>7. ASSUME field.tag = "61", ~value.readable PROVE Take(r, field) = r
  BY <1>7 DEF Take, AddEntry
<1>8. ASSUME field.tag = "61", value.readable
      PROVE  Take(r, field) =
               ReadingOf(source, id, opening, closing,
                         Append(entries, Entry(value, IF field.whole THEN 0 ELSE Supplement)),
                         TRUE, TRUE)
  <2> DEFINE x == Entry(value, IF field.whole THEN 0 ELSE Supplement)
  <2>1. Take(r, field) = [r EXCEPT !.statement.entries = Append(@, x),
                                   !.any = TRUE, !.afterEntry = TRUE]
    BY <1>8 DEF Take, AddEntry
  <2> HIDE DEF x
  <2>2. Take(r, field) = ReadingOf(source, id, opening, closing, Append(entries, x), TRUE, TRUE)
    BY <2>1 DEF ReadingOf, Statement
  <2> QED
    BY <2>2 DEF x
<1>9. ASSUME field.tag = "86"
      PROVE  Take(r, field) =
               ReadingOf(source, id, opening, closing,
                         Informed(entries, after, value.text), any, FALSE)
  <2> DEFINE text == value.text
             n == Len(entries)
             more == [entries EXCEPT ![n].info = text]
  <2>1. Take(r, field) = Inform(r, text)
    BY <1>9 DEF Take
  <2>2. r.statement.entries = entries /\ r.afterEntry = after
    BY DEF ReadingOf, Statement
  <2>3. CASE ~after
    <3>1. after = FALSE
      BY <2>3
    <3> QED
      BY <2>1, <2>2, <3>1 DEF Inform, Informed
  <2>4. CASE after
    <3>1. Take(r, field) = [r EXCEPT !.statement.entries[n].info = text, !.afterEntry = FALSE]
      BY <2>1, <2>2, <2>4 DEF Inform
    <3> HIDE DEF n, text
    <3>2. Take(r, field) = ReadingOf(source, id, opening, closing, more, any, FALSE)
      BY <3>1, ZenonT(60) DEF ReadingOf, Statement
    <3>3. more = WithText(entries, text)
      BY DEF WithText, n
    <3> QED
      BY <2>4, <3>2, <3>3 DEF text, Informed
  <2> QED
    BY <2>3, <2>4
<1>10. ASSUME field.tag \notin {"20", "25", "60", "61", "86", "62"}
       PROVE  Take(r, field) = ReadingOf(source, id, opening, closing, entries, any, FALSE)
  <2>1. Take(r, field) = s
    BY <1>10 DEF Take
  <2> HIDE DEF s
  <2> QED
    BY <1>2, <2>1
<1> QED
  BY <1>3, <1>4, <1>5, <1>6, <1>7, <1>8, <1>9, <1>10 DEF IsTaken

LEMMA TextIsKept ==
  ASSUME NEW entries, IsSeq(entries), NEW text
  PROVE  /\ IsSeq(WithText(entries, text)) /\ Len(WithText(entries, text)) = Len(entries)
         /\ Len(entries) \in Nat
<1> DEFINE more == WithText(entries, text)
<1>1. Len(entries) \in Nat /\ DOMAIN entries = 1..Len(entries)
  BY SeqShape
<1>2. DOMAIN more = 1..Len(entries) /\ more = [i \in 1..Len(entries) |-> more[i]]
  BY <1>1 DEF WithText
<1> HIDE DEF more
<1>3. IsSeq(more) /\ Len(more) = Len(entries)
  BY <1>1, <1>2, SeqOfFunction
<1> QED
  BY <1>1, <1>3 DEF more

LEMMA ReadingGoesOn ==
  ASSUME NEW r, IsReading(r), NEW field
  PROVE  IsReading(Take(r, field))
<1>1. PICK source, id, opening, closing, entries, any, after :
        /\ IsSeq(entries) /\ any \in BOOLEAN /\ after \in BOOLEAN
        /\ r = ReadingOf(source, id, opening, closing, entries, any, after)
  BY DEF IsReading
<1> DEFINE x == Entry(field.value, IF field.whole THEN 0 ELSE Supplement)
           more == Append(entries, x)
           text == Informed(entries, after, field.value.text)
           t == Take(r, field)
<1>2. IsSeq(more) /\ IsSeq(text)
  BY <1>1, SeqOfMore, TextIsKept DEF Informed
<1>3. IsTaken(t, field, source, id, opening, closing, entries, any, after)
  BY <1>1, WhatTakeDoes
<1> HIDE DEF t, more, text
<1>4. ASSUME field.tag \notin {"61", "86"} PROVE IsReading(t)
  BY <1>1, <1>3, <1>4 DEF IsTaken, IsReading
<1>5. ASSUME field.tag = "61" /\ ~field.value.readable PROVE IsReading(t)
  BY <1>1, <1>3, <1>5 DEF IsTaken, IsReading
<1>6. ASSUME field.tag = "61" /\ field.value.readable PROVE IsReading(t)
  <2>1. t = ReadingOf(source, id, opening, closing, more, TRUE, TRUE)
    BY <1>3, <1>6 DEF IsTaken, more
  <2> QED
    BY <1>2, <2>1 DEF IsReading
<1>7. ASSUME field.tag = "86" PROVE IsReading(t)
  <2>1. t = ReadingOf(source, id, opening, closing, text, any, FALSE)
    BY <1>3, <1>7 DEF IsTaken, text
  <2> QED
    BY <1>1, <1>2, <2>1 DEF IsReading
<1>8. IsReading(t)
  BY <1>4, <1>5, <1>6, <1>7
<1> QED
  BY <1>8 DEF t

(* Statements, each with a list of entries. *)
AreStatements(statements) ==
  \E S : statements \in Seq(S) /\ \A s \in S : IsSeq(s.entries)

LEMMA StatementsOneByOne ==
  ASSUME NEW st, IsSeq(st), \A n \in 1..Len(st) : IsSeq(st[n].entries)
  PROVE  AreStatements(st)
<1>1. st \in Seq({st[i] : i \in 1..Len(st)})
  BY SeqShape
<1> QED
  BY <1>1 DEF AreStatements

(* The readings of a text after each of its fields. *)
IsReadingUp(fields, N, f) ==
  f = [n \in 0..N |-> IF n = 0 THEN Reading ELSE Take(f[n - 1], fields[n])]

LEMMA ReadingsExist ==
  ASSUME NEW fields, NEW N \in Nat
  PROVE  \E f : IsReadingUp(fields, N, f)
<1> DEFINE good == {n \in 0..N : \E f : IsReadingUp(fields, n, f)}
<1>1. 0 \in good
  <2> DEFINE f == [n \in 0..0 |-> Reading]
  <2>1. f = [n \in 0..0 |-> IF n = 0 THEN Reading ELSE Take(f[n - 1], fields[n])]
    OBVIOUS
  <2> HIDE DEF f
  <2>2. IsReadingUp(fields, 0, f)
    BY <2>1, Zenon DEF IsReadingUp
  <2>3. 0 \in 0..N
    OBVIOUS
  <2> QED
    BY <2>2, <2>3
<1>2. ASSUME NEW n \in 1..N, n - 1 \in good PROVE n \in good
  <2>1. PICK f : IsReadingUp(fields, n - 1, f)
    BY <1>2
  <2> DEFINE g == [k \in 0..n |-> IF k < n THEN f[k] ELSE Take(f[k - 1], fields[k])]
  <2>2. ASSUME NEW k \in 0..n
        PROVE  g[k] = IF k = 0 THEN Reading ELSE Take(g[k - 1], fields[k])
    <3>1. k # 0 => k - 1 \in 0..n /\ k - 1 < n
      OBVIOUS
    <3>2. k # 0 => g[k - 1] = f[k - 1]
      BY <3>1
    <3>3. CASE k < n
      <4>1. k \in 0..(n - 1) /\ g[k] = f[k]
        BY <3>3
      <4>2. f[k] = IF k = 0 THEN Reading ELSE Take(f[k - 1], fields[k])
        BY <2>1, <4>1 DEF IsReadingUp
      <4> QED
        BY <3>2, <4>1, <4>2
    <3>4. CASE ~(k < n)
      BY <3>2, <3>4
    <3> QED
      BY <3>3, <3>4
  <2>3. g = [k \in 0..n |-> g[k]]
    OBVIOUS
  <2> HIDE DEF g
  <2>4. IsReadingUp(fields, n, g)
    BY <2>2, <2>3, Zenon DEF IsReadingUp
  <2>5. n \in 0..N
    OBVIOUS
  <2> QED
    BY <2>4, <2>5
<1>3. N \in good
  <2> HIDE DEF good
  <2>1. \A n \in 0..N : n \in good
    BY <1>1, <1>2, UpTo
  <2> QED
    BY <2>1
<1> QED
  BY <1>3

LEMMA Mt940IsStatements ==
  ASSUME IsSeq(file)
  PROVE  AreStatements(ReadMt940(file))
<1> DEFINE fields == Fields(file)
           N == Len(fields)
           read == CHOOSE f : IsReadingUp(fields, N, f)
           last == read[N]
<1>1. N \in Nat
  BY FieldsAreMany
<1>2. IsReadingUp(fields, N, read)
  <2> HIDE DEF fields, N
  <2> QED
    BY <1>1, ReadingsExist
<1>3. ReadMt940(file) = IF last.any THEN <<last.statement>> ELSE <<>>
  BY Zenon DEF ReadMt940, IsReadingUp
<1> HIDE DEF read, N, fields
<1> DEFINE good == {n \in 0..N : IsReading(read[n])}
<1>4. 0 \in good
  <2>1. 0 \in 0..N
    BY <1>1
  <2>2. read[0] = Reading
    BY <1>2, <2>1 DEF IsReadingUp
  <2> QED
    BY <2>1, <2>2, ReadingStarts
<1>5. ASSUME NEW n \in 1..N, n - 1 \in good PROVE n \in good
  <2>1. n \in 0..N /\ n # 0
    BY <1>1
  <2>2. read[n] = Take(read[n - 1], fields[n])
    BY <1>2, <2>1 DEF IsReadingUp
  <2>3. IsReading(read[n - 1])
    BY <1>5
  <2> QED
    BY <2>1, <2>2, <2>3, ReadingGoesOn
<1>6. IsReading(last)
  <2> HIDE DEF good
  <2>1. \A n \in 0..N : n \in good
    BY <1>1, <1>4, <1>5, UpTo
  <2>2. N \in good
    BY <1>1, <2>1
  <2> QED
    BY <2>2 DEF good
<1>7. IsSeq(last.statement.entries)
  <2> HIDE DEF last
  <2>1. PICK source, id, opening, closing, entries, any, after :
          IsSeq(entries) /\ last = ReadingOf(source, id, opening, closing, entries, any, after)
    BY <1>6 DEF IsReading
  <2>2. last.statement.entries = entries
    BY <2>1 DEF ReadingOf, Statement
  <2> QED
    BY <2>1, <2>2
<1> DEFINE s == last.statement
<1> HIDE DEF last
<1>8. IsSeq(s.entries)
  BY <1>7
<1> HIDE DEF s
<1>9. AreStatements(<<s>>) /\ AreStatements(<<>>)
  <2>1. <<s>> \in Seq({s}) /\ <<>> \in Seq({s}) /\ \A x \in {s} : x = s
    OBVIOUS
  <2>2. \A x \in {s} : IsSeq(x.entries)
    BY <1>8, <2>1
  <2> DEFINE S == {s}
  <2>3. /\ <<s>> \in Seq(S) /\ <<>> \in Seq(S)
        /\ \A x \in S : IsSeq(x.entries)
    BY <2>1, <2>2
  <2> HIDE DEF S
  <2>4. \E T : <<s>> \in Seq(T) /\ \A x \in T : IsSeq(x.entries)
    BY <2>3, Zenon
  <2>5. \E T : <<>> \in Seq(T) /\ \A x \in T : IsSeq(x.entries)
    BY <2>3, Zenon
  <2> QED
    BY <2>4, <2>5, Zenon DEF AreStatements
<1> QED
  BY <1>3, <1>9 DEF s

LEMMA CamtIsStatements ==
  ASSUME IsSeq(file)
  PROVE  AreStatements(ReadCamt(file))
<1> DEFINE starts == Places(file, {"stmt"})
           from == InOrder(starts)
           N == Cardinality(starts)
           read == ReadCamt(file)
<1>1. N \in Nat
  BY PlacesAreIn
<1>2. DOMAIN from = 1..N
  BY DEF InOrder
<1>3. read = [n \in 1..N |->
               Statement("mx", CamtId(file, from[n], n),
                         CodedBalance(file, from[n], {"OPBD", "PRCD"}),
                         CodedBalance(file, from[n], {"CLBD"}), CamtEntries(file, from[n]))]
  BY <1>2 DEF ReadCamt
<1> HIDE DEF from, N, starts
<1>4. DOMAIN read = 1..N /\ read = [n \in 1..N |-> read[n]]
      /\ \A n \in 1..N : read[n].entries = CamtEntries(file, from[n])
  BY <1>3 DEF Statement
<1> HIDE DEF read
<1>5. IsSeq(read) /\ Len(read) = N
  BY <1>1, <1>4, SeqOfFunction
<1>6. ASSUME NEW i PROVE IsSeq(CamtEntries(file, i))
  <2> DEFINE entries == Elements(file, i, {"ntry"})
             M == Cardinality(entries)
             e == CamtEntries(file, i)
  <2>1. M \in Nat
    <3>1. Len(file) \in Nat /\ Places(file, {"ntry"}) \in SUBSET (1..Len(file))
      BY SeqShape, PlacesAreIn
    <3>2. entries \in SUBSET (1..Len(file)) /\ 1 \in Int /\ Len(file) \in Int
      BY <3>1 DEF Elements
    <3> HIDE DEF entries
    <3> QED
      BY <3>2, Numbers
  <2>2. DOMAIN InOrder(entries) = 1..M
    BY DEF InOrder
  <2>3. DOMAIN e = 1..M /\ e = [n \in 1..M |-> e[n]]
    BY <2>2 DEF CamtEntries
  <2> HIDE DEF M, e
  <2>4. IsSeq(e)
    BY <2>1, <2>3, SeqOfFunction
  <2> QED
    BY <2>4 DEF e
<1>7. \A n \in 1..Len(read) : IsSeq(read[n].entries)
  BY <1>4, <1>5, <1>6
<1> QED
  BY <1>5, <1>7, StatementsOneByOne DEF read

(* The file is a sequence, it is read once or twice, and what was stored   *)
(* before is the old statement or nothing.                                 *)
FileInv ==
  /\ IsSeq(file)
  /\ copies \in {1, 2}
  /\ earlier \in {<<>>, <<OldStatement>>}

(* The bank appends. *)
IsAppended == \E tokens : IsSeq(tokens) /\ Write(tokens)

LEMMA ReferenceIsAppended ==
  ASSUME NEW before, IsSeq(before), WriteReference(before)
  PROVE  IsAppended
<1>1. PICK v \in ValuesOf("20") : Write(before \o <<Token("line", "20", v)>>)
  BY DEF WriteReference
<1>2. IsSeq(<<Token("line", "20", v)>>)
  BY ShortSeqs
<1>3. IsSeq(before \o <<Token("line", "20", v)>>)
  BY <1>2, SeqOfConcat
<1> QED
  BY <1>1, <1>3 DEF IsAppended

LEMMA OneIsAppended ==
  ASSUME NEW token, Write(<<token>>)
  PROVE  IsAppended
BY ShortSeqs DEF IsAppended

LEMMA BankAppends ==
  ASSUME BankWrites
  PROVE  IsAppended
<1>1. CASE WriteField
  <2>1. PICK tag, v : Write(<<Token("line", tag, v)>>)
    BY <1>1 DEF WriteField
  <2> QED
    BY <2>1, OneIsAppended
<1>2. CASE WriteMessage
  <2>1. PICK type, ack : /\ ack \in {<<>>, <<Block("basic"), Block("ack")>>}
                         /\ WriteReference(ack \o Envelope(type))
    BY <1>2 DEF WriteMessage
  <2>2. IsSeq(ack) /\ IsSeq(Envelope(type))
    BY <2>1, ShortSeqs DEF Envelope
  <2>3. IsSeq(ack \o Envelope(type))
    BY <2>2, SeqOfConcat
  <2> QED
    BY <2>1, <2>3, ReferenceIsAppended
<1>3. CASE WriteEnd
  BY <1>3, OneIsAppended DEF WriteEnd
<1>4. CASE WriteBetween
  BY <1>4, OneIsAppended DEF WriteBetween
<1>5. CASE WriteWords
  BY <1>5, OneIsAppended DEF WriteWords
<1>6. CASE WriteBare
  BY <1>6, ShortSeqs, ReferenceIsAppended DEF WriteBare
<1>7. CASE WriteStatement
  <2>1. PICK tag, v : Write(<<Token("stmt", tag, v)>>)
    BY <1>7 DEF WriteStatement
  <2> QED
    BY <2>1, OneIsAppended
<1>8. CASE WriteElement
  <2>1. PICK kind, tag, v : Write(<<Token(kind, tag, v)>>)
    BY <1>8 DEF WriteElement
  <2> QED
    BY <2>1, OneIsAppended
<1> QED
  BY <1>1, <1>2, <1>3, <1>4, <1>5, <1>6, <1>7, <1>8 DEF BankWrites

LEMMA FileHolds == Spec => []FileInv
<1>1. Init => FileInv
  BY ShortSeqs DEF Init, FileInv
<1>2. FileInv /\ [Next]_vars => FileInv'
  <2> SUFFICES ASSUME FileInv, [Next]_vars PROVE FileInv'
    OBVIOUS
  <2>1. CASE BankWrites
    <3>1. PICK tokens : IsSeq(tokens) /\ file' = file \o tokens
      BY <2>1, BankAppends DEF IsAppended, Write
    <3>2. IsSeq(file \o tokens)
      BY <3>1, SeqOfConcat DEF FileInv
    <3>3. UNCHANGED <<copies, earlier>>
      BY <2>1 DEF BankWrites
    <3> QED
      BY <3>1, <3>2, <3>3 DEF FileInv
  <2>2. CASE Arrive
    <3>1. file' = file /\ copies' \in {1, 2} /\ earlier' \in {<<>>, <<OldStatement>>}
      BY <2>2 DEF Arrive
    <3> QED
      BY <3>1 DEF FileInv
  <2>3. CASE UNCHANGED <<file, copies, earlier>>
    BY <2>3 DEF FileInv
  <2> QED
    BY <2>1, <2>2, <2>3
       DEF Next, vars, LoadFile, StartStore, CreateTable, CloseTable, StopStore, Ask, ReadTable
<1> QED
  BY <1>1, <1>2, PTL DEF Spec

LEMMA StoredAreStatements ==
  ASSUME FileInv, NEW run \in {None, Earlier, Latest}
  PROVE  AreStatements(RowsOf(run))
<1>1. IsSeq(file) /\ copies \in {1, 2} /\ earlier \in {<<>>, <<OldStatement>>}
  BY DEF FileInv
<1>2. AreStatements(<<>>)
  <2>1. IsSeq(<<>>) /\ Len(<<>>) = 0
    BY ShortSeqs
  <2> QED
    BY <2>1, StatementsOneByOne
<1>3. AreStatements(earlier)
  <2>1. CASE earlier = <<OldStatement>>
    <3> DEFINE st == <<OldStatement>>
    <3>1. IsSeq(st) /\ Len(st) = 1 /\ st[1] = OldStatement
      BY ShortSeqs
    <3>2. OldStatement.entries = <<>>
      BY DEF OldStatement, Statement
    <3>3. IsSeq(st[1].entries)
      BY <3>1, <3>2, ShortSeqs
    <3> HIDE DEF st
    <3>4. \A n \in 1..Len(st) : IsSeq(st[n].entries)
      <4> SUFFICES ASSUME NEW n \in 1..Len(st) PROVE IsSeq(st[n].entries)
        OBVIOUS
      <4>1. n = 1
        BY <3>1
      <4> QED
        BY <3>3, <4>1
    <3>5. AreStatements(st)
      BY <3>1, <3>4, StatementsOneByOne
    <3> QED
      BY <2>1, <3>5 DEF st
  <2> QED
    BY <1>1, <1>2, <2>1
<1>4. AreStatements(Read)
  BY <1>1, Mt940IsStatements, CamtIsStatements DEF Read
<1>5. AreStatements(FlattenSeq([c \in 1..copies |-> Read]))
  <2>1. PICK S : Read \in Seq(S) /\ \A s \in S : IsSeq(s.entries)
    BY <1>4 DEF AreStatements
  <2> DEFINE lists == [c \in 1..copies |-> Read]
  <2>2. lists \in Seq(Seq(S))
    BY <1>1, <2>1
  <2> HIDE DEF lists
  <2>3. PICK g \in [0..Len(lists) -> Seq(S)] : FlattenSeq(lists) = g[Len(lists)]
    BY <2>2, Flatten
  <2>4. Len(lists) \in Nat
    BY <2>2
  <2>5. FlattenSeq(lists) \in Seq(S)
    BY <2>3, <2>4
  <2> DEFINE all == FlattenSeq(lists)
  <2>6. all \in Seq(S)
    BY <2>5
  <2> HIDE DEF all
  <2>7. AreStatements(all)
    BY <2>1, <2>6 DEF AreStatements
  <2> QED
    BY <2>7 DEF all, lists
<1> QED
  BY <1>2, <1>3, <1>5 DEF RowsOf, Stored, None, Earlier, Latest

-----------------------------------------------------------------------------
(* The lists of entry rows of the statements stored. *)
StoredLists(st) ==
  [n \in DOMAIN st |-> [k \in DOMAIN st[n].entries |-> EntryRow(st[n], st[n].entries[k])]]

(* A list for every statement, of rows with its key. *)
AreLists(st, R, lists) ==
  /\ lists \in Seq(Seq(R)) /\ Len(lists) = Len(st)
  /\ \A n \in 1..Len(st) : \A k \in 1..Len(lists[n]) : SameKey(st[n], lists[n][k])

LEMMA ListsStored ==
  ASSUME NEW st, AreStatements(st)
  PROVE  \E R : AreLists(st, R, StoredLists(st))
<1> DEFINE N == Len(st)
           R == {EntryRow(st[n], st[n].entries[k]) : n \in 1..N, k \in Nat}
           list(n) == [k \in DOMAIN st[n].entries |-> EntryRow(st[n], st[n].entries[k])]
           lists == StoredLists(st)
<1>1. PICK S : st \in Seq(S) /\ \A s \in S : IsSeq(s.entries)
  BY DEF AreStatements
<1>2. N \in Nat /\ DOMAIN st = 1..N /\ \A n \in 1..N : IsSeq(st[n].entries)
  <2>1. \A n \in 1..N : st[n] \in S
    BY <1>1, ElementOfSeq
  <2> QED
    BY <1>1, <2>1
<1>3. ASSUME NEW n \in 1..N
      PROVE  list(n) \in Seq(R) /\ \A k \in 1..Len(list(n)) : SameKey(st[n], list(n)[k])
  <2> DEFINE M == Len(st[n].entries)
             l == list(n)
  <2>1. M \in Nat /\ DOMAIN st[n].entries = 1..M
    BY <1>2, SeqShape
  <2>2. \A k \in 1..M : /\ EntryRow(st[n], st[n].entries[k]) \in R
                        /\ l[k] = EntryRow(st[n], st[n].entries[k])
    BY <2>1
  <2> HIDE DEF M, R
  <2>3. l = [k \in 1..M |-> EntryRow(st[n], st[n].entries[k])]
    BY <2>1
  <2>4. l \in [1..M -> R]
    BY <2>2, <2>3
  <2>5. l \in Seq(R) /\ Len(l) = M
    BY <2>1, <2>4
  <2>6. ASSUME NEW k \in 1..M PROVE SameKey(st[n], l[k])
    <3> DEFINE e == EntryRow(st[n], st[n].entries[k])
    <3>1. l[k] = e
      BY <2>2
    <3>2. e.source = st[n].source /\ e.id = st[n].id
      BY DEF EntryRow
    <3> HIDE DEF e, l
    <3> QED
      BY <3>1, <3>2 DEF SameKey
  <2> QED
    BY <2>5, <2>6
<1>4. DOMAIN lists = 1..N /\ \A n \in 1..N : lists[n] = list(n)
  BY <1>2 DEF StoredLists
<1>5. lists = [n \in 1..N |-> lists[n]]
  BY <1>2 DEF StoredLists
<1> HIDE DEF N, R, list, lists
<1>6. \A n \in 1..N : lists[n] \in Seq(R)
  BY <1>3, <1>4
<1>7. lists \in [1..N -> Seq(R)]
  BY <1>5, <1>6
<1>8. lists \in Seq(Seq(R)) /\ Len(lists) = N
  BY <1>2, <1>7
<1>9. \A n \in 1..N : \A k \in 1..Len(lists[n]) : SameKey(st[n], lists[n][k])
  BY <1>3, <1>4
<1>10. AreLists(st, R, lists)
  BY <1>8, <1>9, Zenon DEF AreLists, N
<1> QED
  BY <1>10 DEF lists

LEMMA HeadersStored ==
  ASSUME NEW st, IsSeq(st)
  PROVE  /\ IsSeq(HeaderRows(st)) /\ Len(HeaderRows(st)) = Len(st)
         /\ \A n \in 1..Len(st) : /\ HeaderRows(st)[n].source = st[n].source
                                  /\ HeaderRows(st)[n].id = st[n].id
<1>1. Len(st) \in Nat /\ DOMAIN st = 1..Len(st)
  BY SeqShape
<1>2. /\ DOMAIN HeaderRows(st) = 1..Len(st)
      /\ HeaderRows(st) = [n \in 1..Len(st) |-> HeaderRows(st)[n]]
  BY <1>1 DEF HeaderRows
<1>3. \A n \in 1..Len(st) : /\ HeaderRows(st)[n].source = st[n].source
                            /\ HeaderRows(st)[n].id = st[n].id
  BY <1>1 DEF HeaderRows
<1>4. IsSeq(HeaderRows(st)) /\ Len(HeaderRows(st)) = Len(st)
  BY <1>1, <1>2, SeqOfFunction
<1> QED
  BY <1>3, <1>4

LEMMA CountsAreTimes ==
  ASSUME NEW lists
  PROVE  EntryCounts(lists)
           = [e \in Range(FlattenSeq(lists)) |-> Times(e, FlattenSeq(lists))]
BY Zenon DEF EntryCounts, Times

(* What is shown of the statements that were stored. *)
ShownOf(st) == EntriesOf(Join(HeaderRows(st), EntryRows(st)))

LEMMA EveryEntryIsShown ==
  ASSUME NEW st, AreStatements(st)
  PROVE  /\ Len(ShownOf(st)) = Len(StoredLists(st))
         /\ EntryCounts(ShownOf(st)) = EntryCounts(StoredLists(st))
         /\ Distinct(st) => ShownOf(st) = StoredLists(st)
<1> DEFINE headers == HeaderRows(st)
           lists == StoredLists(st)
           rows == FlattenSeq(lists)
           shown == ShownOf(st)
           N == Len(st)
<1>1. IsSeq(st) /\ N \in Nat /\ DOMAIN st = 1..N
  <2>1. IsSeq(st)
    BY DEF AreStatements, IsSeq
  <2> QED
    BY <2>1, SeqShape
<1>2. PICK R : AreLists(st, R, lists)
  BY ListsStored
<1>3. /\ IsSeq(headers) /\ Len(headers) = N
      /\ \A n \in 1..N : headers[n].source = st[n].source /\ headers[n].id = st[n].id
  BY <1>1, HeadersStored
<1>4. PICK X : headers \in Seq(X)
  BY <1>3 DEF IsSeq
<1>5. shown = EntriesOf(Join(headers, rows))
  <2>1. EntryRows(st) = rows
    BY Zenon DEF EntryRows, StoredLists
  <2> QED
    BY <2>1 DEF ShownOf
<1> HIDE DEF headers, lists, shown
<1>6. /\ lists \in Seq(Seq(R)) /\ Len(lists) = N
      /\ \A n \in 1..N : \A k \in 1..Len(lists[n]) : SameKey(st[n], lists[n][k])
  BY <1>2 DEF AreLists
<1> HIDE DEF N
<1>7. rows \in Seq(R)
  <2>1. PICK g \in [0..N -> Seq(R)] : rows = g[N]
    BY <1>6, Flatten
  <2> QED
    BY <1>1, <2>1
<1>8. \A n \in 1..N : \A k \in 1..Len(lists[n]) : SameKey(headers[n], lists[n][k])
  BY <1>3, <1>6 DEF SameKey
<1>9. \A k \in 1..Len(rows) : \E n \in 1..Len(headers) : SameKey(headers[n], rows[k])
  <2> SUFFICES ASSUME NEW k \in 1..Len(rows)
               PROVE  \E n \in 1..Len(headers) : SameKey(headers[n], rows[k])
    OBVIOUS
  <2>1. PICK o : EndsAt(lists, o)
    BY <1>6, Ends
  <2>0. PICK h : IsFrom(lists, o, k, h)
    BY <1>6, <2>1, WhichList
  <2>2. /\ h \in 1..Len(lists) /\ k - o[h - 1] \in 1..Len(lists[h])
        /\ rows[k] = lists[h][k - o[h - 1]]
    BY <2>0 DEF IsFrom
  <2>3. SameKey(headers[h], rows[k])
    BY <1>6, <1>8, <2>2
  <2> QED
    BY <1>3, <1>6, <2>2, <2>3
<1> HIDE DEF rows
<1>10. PICK J : AreJoined(headers, rows, R, J)
  BY <1>4, <1>7, Joined
<1>11. shown \in Seq(Seq(R)) /\ Len(shown) = N
  <2>1. Len(rows) \in Nat /\ Len(rows) \in 0..Len(rows)
    BY <1>7
  <2>2. J[Len(rows)] \in Seq(Seq(R)) /\ Len(J[Len(rows)]) = Len(headers)
    BY <1>10, <2>1 DEF AreJoined
  <2>3. shown = J[Len(rows)]
    BY <1>5, <1>10 DEF AreJoined
  <2> QED
    BY <1>3, <2>2, <2>3
<1>12. EntryCounts(shown) = EntryCounts(lists)
  <2> DEFINE all == FlattenSeq(shown)
  <2>1. all \in Seq(R)
    <3>1. PICK g \in [0..N -> Seq(R)] : all = g[N]
      BY <1>11, Flatten
    <3> QED
      BY <1>1, <3>1
  <2>2. ASSUME NEW e PROVE Times(e, all) = Times(e, rows)
    BY <1>4, <1>5, <1>7, <1>9, SharedOut
  <2>3. EntryCounts(shown) = [e \in Range(all) |-> Times(e, all)]
    BY CountsAreTimes
  <2>4. EntryCounts(lists) = [e \in Range(rows) |-> Times(e, rows)]
    BY CountsAreTimes DEF rows
  <2> HIDE DEF all
  <2>5. Range(all) = Range(rows)
    <3>1. ASSUME NEW e PROVE e \in Range(all) <=> e \in Range(rows)
      <4>1. e \in Range(all) <=> Times(e, all) # 0
        BY <2>1, Occurring
      <4>2. e \in Range(rows) <=> Times(e, rows) # 0
        BY <1>7, Occurring
      <4> QED
        BY <2>2, <4>1, <4>2
    <3> QED
      BY <3>1
  <2> QED
    BY <2>2, <2>3, <2>4, <2>5
<1>13. ASSUME Distinct(st) PROVE shown = lists
  <2>1. ASSUME NEW n \in 1..N, NEW k \in 1..Len(lists[n])
        PROVE  Owners(headers, lists[n][k]) = {n}
    <3>1. SameKey(headers[n], lists[n][k])
      BY <1>8
    <3>2. PICK h \in 1..Len(headers) : /\ Owners(headers, lists[n][k]) = {h}
                                       /\ SameKey(headers[h], lists[n][k])
      BY <1>3, <1>4, <3>1, OneOwner
    <3>3. SameKey(st[h], st[n])
      BY <1>3, <3>1, <3>2 DEF SameKey
    <3>4. h = n
      BY <1>1, <1>3, <1>13, <3>2, <3>3 DEF Distinct
    <3> QED
      BY <3>2, <3>4
  <2> QED
    BY <1>3, <1>4, <1>5, <1>6, <2>1, SharedOutAsStored DEF rows
<1> QED
  BY <1>6, <1>11, <1>12, <1>13 DEF shown, lists

-----------------------------------------------------------------------------
(* A request that "ingest store" does not overlap is answered from one run *)
(* only, and its answer shows every entry of that run as often as it was   *)
(* stored, under the statement it was stored with where no two statements  *)
(* share a reference (read_statements, run_store).                         *)
THEOREM AnswersAreTrue == Spec => []AnswersShowTheStore
<1>1. ASSUME ProtocolInv, FileInv PROVE AnswersShowTheStore
  <2> DEFINE run == IF writer = "done" THEN Latest ELSE IF earlier = <<>> THEN None ELSE Earlier
             shown == [n \in DOMAIN Answer |-> Answer[n].entries]
             stored == [n \in DOMAIN RowsOf(run) |->
                         [k \in DOMAIN RowsOf(run)[n].entries |->
                           EntryRow(RowsOf(run)[n], RowsOf(run)[n].entries[k])]]
             goal == /\ Range(request.got) = {run}
                     /\ request.kind = "recon" =>
                          /\ Len(shown) = Len(stored)
                          /\ EntryCounts(shown) = EntryCounts(stored)
                          /\ Distinct(RowsOf(run)) => shown = stored
  <2>1. run = RunSeen
    BY DEF RunSeen, Previous
  <2>2. shown = EntriesOf(Answer)
    BY Zenon DEF EntriesOf
  <2>3. stored = StoredLists(RowsOf(run))
    BY Zenon DEF StoredLists
  <2>4. SUFFICES ASSUME request.state # "reading", request.state # "none",
                        request.begun = writer, writer \in {"file", "done"}
                 PROVE  request.state = "answered" /\ goal
    BY Zenon DEF AnswersShowTheStore
  <2> HIDE DEF run, shown, stored
  <2>5. /\ request.state = "answered" /\ Range(request.got) = {run}
        /\ request.kind = "recon" => request.got[1] = run /\ request.got[2] = run
    BY <1>1, <2>1, <2>4, AnsweredFromOneRun
  <2>6. AreStatements(RowsOf(run))
    <3>1. RunSeen \in {None, Earlier, Latest}
      BY DEF RunSeen, Previous
    <3> QED
      BY <1>1, <2>1, <3>1, StoredAreStatements
  <2>7. ASSUME request.kind = "recon" PROVE shown = ShownOf(RowsOf(run))
    BY <2>2, <2>5, <2>7 DEF Answer, ShownOf
  <2> QED
    BY <2>3, <2>5, <2>6, <2>7, EveryEntryIsShown
<1> QED
  BY <1>1, ProtocolHolds, FileHolds, PTL

-----------------------------------------------------------------------------
(* Sets of places in their order. *)

LEMMA FirstIs ==
  ASSUME NEW S \in SUBSET Int, NEW m \in S, \A i \in S : m <= i
  PROVE  First(S) = m
<1>1. \A i \in S : (\A j \in S : i <= j) => i = m
  <2> SUFFICES ASSUME NEW i \in S, \A j \in S : i <= j PROVE i = m
    OBVIOUS
  <2>1. i <= m /\ m <= i /\ i \in Int /\ m \in Int
    OBVIOUS
  <2> QED
    BY <2>1
<1> QED
  BY <1>1 DEF First

LEMMA FinalIs ==
  ASSUME NEW S \in SUBSET Int, NEW m \in S, \A i \in S : i <= m
  PROVE  Final(S) = m
<1>1. \A i \in S : (\A j \in S : j <= i) => i = m
  <2> SUFFICES ASSUME NEW i \in S, \A j \in S : j <= i PROVE i = m
    OBVIOUS
  <2>1. i <= m /\ m <= i /\ i \in Int /\ m \in Int
    OBVIOUS
  <2> QED
    BY <2>1
<1> QED
  BY <1>1 DEF Final

Below(S, i) == {j \in S : j < i}

LEMMA BelowIsFinite ==
  ASSUME NEW N \in Nat, NEW S \in SUBSET (1..N), NEW i
  PROVE  IsFiniteSet(Below(S, i)) /\ Cardinality(Below(S, i)) \in Nat
<1> DEFINE T == Below(S, i)
<1>1. T \subseteq S
  BY DEF Below
<1> HIDE DEF T
<1>2. T \in SUBSET (1..N) /\ 1 \in Int /\ N \in Int
  BY <1>1
<1>3. IsFiniteSet(T) /\ Cardinality(T) \in Nat
  BY <1>2, Numbers
<1> QED
  BY <1>3 DEF T

(* The n-th place is one that has n - 1 before it. *)
LEMMA NthExists ==
  ASSUME NEW N \in Nat, NEW S \in SUBSET (1..N), NEW n \in 1..Cardinality(S)
  PROVE  \E i \in S : Cardinality(Below(S, i)) = n - 1
<1> DEFINE good == {m \in 0..N : \A k \in 1..Cardinality(Below(S, m + 1)) :
                                   \E i \in S : Cardinality(Below(S, i)) = k - 1}
<1>1. 0 \in good
  <2>1. Below(S, 1) = {}
    <3>1. \A j \in S : ~(j < 1)
      OBVIOUS
    <3> QED
      BY <3>1 DEF Below
  <2>2. Cardinality(Below(S, 0 + 1)) = 0
    BY <2>1, FS_EmptySet
  <2> QED
    BY <2>2
<1>2. ASSUME NEW m \in 1..N, m - 1 \in good PROVE m \in good
  <2> DEFINE old == Below(S, m)
             new == Below(S, m + 1)
  <2>1. IsFiniteSet(old) /\ Cardinality(old) \in Nat /\ m - 1 + 1 = m
    BY BelowIsFinite
  <2>2. \A k \in 1..Cardinality(old) : \E i \in S : Cardinality(Below(S, i)) = k - 1
    BY <1>2, <2>1
  <2>3. CASE m \notin S
    <3>1. new = old
      <4>1. \A j \in S : j < m + 1 <=> j < m
        BY <2>3
      <4> QED
        BY <4>1 DEF Below
    <3> QED
      BY <2>2, <3>1
  <2>4. CASE m \in S
    <3>1. new = old \cup {m} /\ m \notin old
      <4>1. (\A j \in S : j < m + 1 <=> j < m \/ j = m) /\ ~(m < m)
        OBVIOUS
      <4> QED
        BY <2>4, <4>1, Zenon DEF Below
    <3> HIDE DEF old, new
    <3>2. Cardinality(new) = Cardinality(old) + 1
      BY <2>1, <3>1, FS_AddElement
    <3>3. ASSUME NEW k \in 1..Cardinality(new)
          PROVE  \E i \in S : Cardinality(Below(S, i)) = k - 1
      <4>1. k \in 1..Cardinality(old) \/ k - 1 = Cardinality(old)
        BY <2>1, <3>2
      <4>2. CASE k - 1 = Cardinality(old)
        BY <2>4, <4>2 DEF old
      <4> QED
        BY <2>2, <4>1, <4>2
    <3> QED
      BY <3>3 DEF new
  <2> QED
    BY <2>3, <2>4
<1> HIDE DEF good
<1>3. N \in good
  <2>1. \A m \in 0..N : m \in good
    BY <1>1, <1>2, UpTo
  <2> QED
    BY <2>1
<1>4. Below(S, N + 1) = S
  <2>1. \A j \in S : j < N + 1
    OBVIOUS
  <2> QED
    BY <2>1 DEF Below
<1> QED
  BY <1>3, <1>4 DEF good

LEMMA NthIsIn ==
  ASSUME NEW N \in Nat, NEW S \in SUBSET (1..N)
  PROVE  /\ Cardinality(S) \in Nat
         /\ DOMAIN InOrder(S) = 1..Cardinality(S)
         /\ \A n \in 1..Cardinality(S) : InOrder(S)[n] \in S
<1>1. Cardinality(S) \in Nat
  <2>1. 1 \in Int /\ N \in Int
    OBVIOUS
  <2> QED
    BY <2>1, Numbers
<1>2. DOMAIN InOrder(S) = 1..Cardinality(S)
  BY DEF InOrder
<1>3. ASSUME NEW n \in 1..Cardinality(S) PROVE InOrder(S)[n] \in S
  <2>1. \E i \in S : Cardinality({j \in S : j < i}) = n - 1
    BY NthExists DEF Below
  <2>2. InOrder(S)[n] = CHOOSE i \in S : Cardinality({j \in S : j < i}) = n - 1
    BY DEF InOrder
  <2> QED
    BY <2>1, <2>2
<1> QED
  BY <1>1, <1>2, <1>3

(* A run of places from the first on. *)
BeginsWith(S, a, b) == (\A p \in a..b : p \in S) /\ \A p \in S : a <= p

LEMMA RunInOrder ==
  ASSUME NEW N \in Nat, NEW S \in SUBSET (1..N),
         NEW a \in 1..N, NEW b \in 0..N, a <= b + 1, BeginsWith(S, a, b)
  PROVE  /\ b - a + 1 <= Cardinality(S)
         /\ \A n \in 1..(b - a + 1) : InOrder(S)[n] = a + n - 1
<1> USE DEF BeginsWith
<1>1. IsFiniteSet(S) /\ Cardinality(S) \in Nat
  <2>1. 1 \in Int /\ N \in Int
    OBVIOUS
  <2> QED
    BY <2>1, Numbers
<1>2. ASSUME NEW i \in a..b PROVE Cardinality(Below(S, i)) = i - a
  <2>1. Below(S, i) = a..(i - 1)
    <3>1. \A j \in S : j < i <=> j \in a..(i - 1)
      OBVIOUS
    <3>2. \A j \in a..(i - 1) : j \in a..b
      OBVIOUS
    <3>3. \A j \in a..(i - 1) : j \in S
      BY <3>2
    <3> QED
      BY <3>1, <3>3 DEF Below
  <2>2. Cardinality(a..(i - 1)) = IF a > i - 1 THEN 0 ELSE (i - 1) - a + 1
    BY FS_Interval
  <2> QED
    BY <2>1, <2>2
<1>3. b - a + 1 <= Cardinality(S)
  <2>1. (a..b) \in SUBSET S
    OBVIOUS
  <2>2. Cardinality(a..b) <= Cardinality(S)
    BY <1>1, <2>1, FS_Subset
  <2>3. Cardinality(a..b) = IF a > b THEN 0 ELSE b - a + 1
    BY FS_Interval
  <2> QED
    BY <2>2, <2>3
<1>4. ASSUME NEW n \in 1..(b - a + 1) PROVE InOrder(S)[n] = a + n - 1
  <2> DEFINE i == a + n - 1
  <2>1. i \in a..b /\ i - a = n - 1
    OBVIOUS
  <2>2. i \in S /\ Cardinality(Below(S, i)) = n - 1
    BY <1>2, <2>1
  <2>3. ASSUME NEW k \in S, Cardinality(Below(S, k)) = n - 1 PROVE k = i
    <3>1. CASE k \in a..b
      <4>1. Cardinality(Below(S, k)) = k - a
        BY <1>2, <3>1
      <4> QED
        BY <2>3, <3>1, <4>1
    <3>2. CASE k \notin a..b
      <4>1. k > b /\ a <= k
        BY <3>2
      <4>2. (a..b) \in SUBSET Below(S, k)
        <5>1. \A p \in a..b : p < k
          BY <4>1
        <5> QED
          BY <5>1 DEF Below
      <4>3. IsFiniteSet(Below(S, k))
        BY BelowIsFinite
      <4>4. Cardinality(a..b) <= Cardinality(Below(S, k))
        BY <4>2, <4>3, FS_Subset
      <4>5. Cardinality(a..b) = IF a > b THEN 0 ELSE b - a + 1
        BY FS_Interval
      <4> QED
        BY <2>3, <4>4, <4>5
    <3> QED
      BY <3>1, <3>2
  <2>4. n \in 1..Cardinality(S)
    BY <1>1, <1>3
  <2>5. InOrder(S)[n] = CHOOSE k \in S : Cardinality(Below(S, k)) = n - 1
    BY <2>4 DEF InOrder, Below
  <2> HIDE DEF i
  <2>6. InOrder(S)[n] = i
    BY <2>2, <2>3, <2>5
  <2> QED
    BY <2>6 DEF i
<1> QED
  BY <1>3, <1>4

-----------------------------------------------------------------------------
(* What the bank writes: which token follows which. *)

KindBefore(f, p) == IF p = 1 THEN "start" ELSE f[p - 1].kind

MayFollow(before, kind) ==
  \/ kind = "words" /\ before = "start"
  \/ kind = "basic" /\ before \in {"start", "words", "ack", "line", "close", "gap"}
  \/ kind \in {"app", "ack"} /\ before = "basic"
  \/ kind = "open" /\ before = "app"
  \/ kind = "line" /\ before \in {"open", "line"}
  \/ kind = "close" /\ before = "line"
  \/ kind = "gap" /\ before = "close"

(* Messages in envelopes, and none that ends before its first line. *)
IsEnveloped(f) ==
  /\ \A p \in 1..Len(f) : MayFollow(KindBefore(f, p), f[p].kind)
  /\ Len(f) > 0 => f[Len(f)].kind \in {"words", "line", "close", "gap"}

IsOther(token) == token.kind = "line" /\ token.tag \notin {"20", "25"}

(* Lines only, an account right after every reference, and a dash only     *)
(* after another line and before a reference.                              *)
IsBareAt(f, p) ==
  \/ f[p].kind = "words" /\ p = 1
  \/ f[p].kind = "line" /\ f[p].tag = "20"
     /\ (p = 1 \/ f[p - 1].kind \in {"words", "dash"} \/ IsOther(f[p - 1]))
  \/ f[p].kind = "line" /\ f[p].tag = "25"
     /\ p > 1 /\ f[p - 1].kind = "line" /\ f[p - 1].tag = "20"
  \/ IsOther(f[p]) /\ p > 1 /\ f[p - 1].kind = "line" /\ f[p - 1].tag # "20"
  \/ f[p].kind = "dash" /\ p > 1 /\ IsOther(f[p - 1])

IsBare(f) == \A p \in 1..Len(f) : IsBareAt(f, p)

WrittenInv ==
  /\ form = "fin" => IsEnveloped(file)
  /\ form = "bare" => IsBare(file)

LEMMA Joining ==
  ASSUME NEW s, NEW t, IsSeq(s), IsSeq(t)
  PROVE  /\ IsSeq(s \o t) /\ Len(s \o t) = Len(s) + Len(t)
         /\ \A p \in 1..Len(s) : (s \o t)[p] = s[p]
         /\ \A q \in 1..Len(t) : (s \o t)[Len(s) + q] = t[q]
<1>1. PICK T : s \in Seq(T)
  BY DEF IsSeq
<1>2. PICK U : t \in Seq(U)
  BY DEF IsSeq
<1> DEFINE V == T \cup U
<1>3. s \in Seq(V) /\ t \in Seq(V)
  BY <1>1, <1>2, SeqMonotonic
<1> HIDE DEF V
<1>4. /\ s \o t \in Seq(V) /\ Len(s \o t) = Len(s) + Len(t)
      /\ \A p \in 1..Len(s) : (s \o t)[p] = s[p]
  BY <1>3
<1>5. ASSUME NEW q \in 1..Len(t) PROVE (s \o t)[Len(s) + q] = t[q]
  BY <1>3
<1> QED
  BY <1>4, <1>5 DEF IsSeq

LEMMA EnvelopedGoesOn ==
  ASSUME NEW s, NEW t, IsSeq(s), IsSeq(t), Len(t) > 0, IsEnveloped(s),
         MayFollow(KindBefore(s, Len(s) + 1), t[1].kind),
         \A q \in 2..Len(t) : MayFollow(t[q - 1].kind, t[q].kind),
         t[Len(t)].kind \in {"words", "line", "close", "gap"}
  PROVE  IsEnveloped(s \o t)
<1> DEFINE u == s \o t
           a == Len(s)
           b == Len(t)
<1>1. a \in Nat /\ b \in Nat /\ b > 0 /\ Len(u) = a + b
      /\ (\A p \in 1..a : u[p] = s[p]) /\ (\A q \in 1..b : u[a + q] = t[q])
  BY SeqShape, Joining
<1> HIDE DEF u
<1>2. ASSUME NEW p \in 1..a PROVE MayFollow(KindBefore(u, p), u[p].kind)
  <2>1. u[p] = s[p] /\ (p # 1 => u[p - 1] = s[p - 1])
    BY <1>1
  <2>2. MayFollow(KindBefore(s, p), s[p].kind)
    BY DEF IsEnveloped
  <2> QED
    BY <2>1, <2>2 DEF KindBefore
<1>3. ASSUME NEW q \in 1..b PROVE MayFollow(KindBefore(u, a + q), u[a + q].kind)
  <2>1. CASE q = 1
    <3>1. u[a + 1] = t[1] /\ a + 1 - 1 = a
      BY <1>1
    <3>2. a # 0 => u[a] = s[a] /\ a + 1 # 1
      BY <1>1
    <3>3. KindBefore(u, a + 1) = KindBefore(s, a + 1)
      BY <1>1, <3>1, <3>2 DEF KindBefore
    <3> QED
      BY <2>1, <3>1, <3>3
  <2>2. CASE q # 1
    <3>1. q \in 2..b /\ q - 1 \in 1..b /\ a + q - 1 = a + (q - 1) /\ a + q # 1
      BY <1>1, <2>2
    <3>2. u[a + q] = t[q] /\ u[a + q - 1] = t[q - 1]
      BY <1>1, <3>1
    <3> QED
      BY <3>1, <3>2 DEF KindBefore
  <2> QED
    BY <2>1, <2>2
<1>4. \A p \in 1..Len(u) : MayFollow(KindBefore(u, p), u[p].kind)
  <2> SUFFICES ASSUME NEW p \in 1..Len(u), p \notin 1..a
               PROVE  MayFollow(KindBefore(u, p), u[p].kind)
    BY <1>2
  <2>1. p - a \in 1..b /\ a + (p - a) = p
    BY <1>1
  <2> QED
    BY <1>3, <2>1
<1>5. u[Len(u)] = t[b]
  BY <1>1
<1> QED
  BY <1>4, <1>5 DEF IsEnveloped, u

LEMMA BareGoesOn ==
  ASSUME NEW s, NEW x, IsSeq(s), IsBare(s), IsBareAt(s \o <<x>>, Len(s) + 1)
  PROVE  IsBare(s \o <<x>>)
<1> DEFINE u == s \o <<x>>
           a == Len(s)
<1>1. IsSeq(<<x>>) /\ Len(<<x>>) = 1
  BY ShortSeqs
<1>2. a \in Nat /\ Len(u) = a + 1 /\ \A p \in 1..a : u[p] = s[p]
  BY <1>1, SeqShape, Joining
<1> HIDE DEF u
<1>3. ASSUME NEW p \in 1..a PROVE IsBareAt(u, p)
  <2>1. u[p] = s[p] /\ (p # 1 => u[p - 1] = s[p - 1])
    BY <1>2
  <2>2. IsBareAt(s, p)
    BY DEF IsBare
  <2> QED
    BY <2>1, <2>2 DEF IsBareAt
<1> QED
  BY <1>2, <1>3 DEF IsBare, u

LEMMA OneMoreToken ==
  ASSUME NEW x, IsSeq(file), IsEnveloped(file),
         MayFollow(KindBefore(file, Len(file) + 1), x.kind),
         x.kind \in {"words", "line", "close", "gap"}
  PROVE  IsEnveloped(file \o <<x>>)
<1>1. IsSeq(<<x>>) /\ Len(<<x>>) = 1 /\ <<x>>[1] = x
  BY ShortSeqs
<1> DEFINE t == <<x>>
<1>2. IsSeq(t) /\ Len(t) > 0 /\ t[1] = x /\ t[Len(t)] = x /\ \A q \in 2..Len(t) : FALSE
  BY <1>1
<1> HIDE DEF t
<1>3. IsEnveloped(file \o t)
  BY <1>2, EnvelopedGoesOn
<1> QED
  BY <1>3 DEF t

LEMMA LastOne ==
  ASSUME IsSeq(file)
  PROVE  /\ Len(file) \in Nat
         /\ LastTag # "" => /\ Len(file) > 0 /\ file[Len(file)].kind = "line"
                            /\ file[Len(file)].tag = LastTag
         /\ file # <<>> => Len(file) > 0
         /\ file = <<>> => Len(file) = 0
<1>1. Len(file) \in Nat
  BY SeqShape
<1>2. file # <<>> => Len(file) > 0
  <2>1. PICK T : file \in Seq(T)
    BY DEF IsSeq
  <2> QED
    BY <2>1
<1>3. ASSUME LastTag # ""
      PROVE  file # <<>> /\ file[Len(file)].kind = "line" /\ file[Len(file)].tag = LastTag
  <2>1. ~(file = <<>> \/ file[Len(file)].kind # "line")
    BY <1>3, Zenon DEF LastTag
  <2>2. LastTag = file[Len(file)].tag
    BY <2>1 DEF LastTag
  <2> QED
    BY <2>1, <2>2
<1>4. file = <<>> => Len(file) = 0
  OBVIOUS
<1> QED
  BY <1>1, <1>2, <1>3, <1>4

LEMMA KindAtEnd ==
  ASSUME Len(file) \in Nat, Len(file) > 0
  PROVE  KindBefore(file, Len(file) + 1) = file[Len(file)].kind
<1>1. Len(file) + 1 # 1 /\ Len(file) + 1 - 1 = Len(file)
  OBVIOUS
<1> QED
  BY <1>1 DEF KindBefore

LEMMA JoinedLast ==
  ASSUME NEW s, NEW t, IsSeq(s), IsSeq(t), Len(t) = 1
  PROVE  (s \o t)[Len(s) + 1] = t[1]
<1>1. 1 \in 1..Len(t)
  OBVIOUS
<1> QED
  BY <1>1, Joining

LEMMA JoinedAfter ==
  ASSUME NEW s, NEW t, IsSeq(s), IsSeq(t), NEW q \in 1..Len(t), NEW p, p = Len(s) + q
  PROVE  (s \o t)[p] = t[q]
BY Joining

LEMMA Acknowledged ==
  ASSUME NEW b, NEW a, NEW p, NEW o, NEW x
  PROVE  LET t == (<<b, a>> \o <<b, p, o>>) \o <<x>>
         IN /\ IsSeq(t) /\ Len(t) = 6 /\ t[1] = b /\ t[2] = a
            /\ t[3] = b /\ t[4] = p /\ t[5] = o /\ t[6] = x
<1> DEFINE S == {a, b, p, o, x}
           t == (<<b, a>> \o <<b, p, o>>) \o <<x>>
<1>1. <<b, a>> \in Seq(S) /\ <<b, p, o>> \in Seq(S) /\ <<x>> \in Seq(S)
  OBVIOUS
<1>2. t \in Seq(S)
  <2> HIDE DEF S
  <2> QED
    BY <1>1
<1>3. Len(t) = 6 /\ t[1] = b /\ t[2] = a /\ t[3] = b /\ t[4] = p /\ t[5] = o /\ t[6] = x
  OBVIOUS
<1> QED
  BY <1>2, <1>3 DEF IsSeq

LEMMA FieldKeepsShape ==
  ASSUME FileInv, WrittenInv, BankWrites, WriteField
  PROVE  WrittenInv'
<1>0. PICK tag \in IF LastTag \in DOMAIN Follows THEN Follows[LastTag] ELSE {} :
        \E v : file' = file \o <<Token("line", tag, v)>>
  BY DEF WriteField, Write
<1>1. PICK v : file' = file \o <<Token("line", tag, v)>>
  BY <1>0
<1> DEFINE x == Token("line", tag, v)
<1>2. form' = form /\ IsSeq(file)
  BY DEF BankWrites, FileInv
<1>3. LastTag \in {"20", "25", "60", "34F", "61", "86", "62"} /\ tag \in Follows[LastTag]
  BY <1>1 DEF Follows
<1>4. x.kind = "line" /\ x.tag = tag
  BY DEF Token
<1>5. Len(file) \in Nat /\ Len(file) > 0 /\ file[Len(file)].kind = "line"
      /\ file[Len(file)].tag = LastTag
  BY <1>2, <1>3, LastOne
<1> HIDE DEF x
<1>6. ASSUME form = "fin" PROVE IsEnveloped(file')
  <2>1. KindBefore(file, Len(file) + 1) = "line"
    BY <1>5 DEF KindBefore
  <2>2. MayFollow(KindBefore(file, Len(file) + 1), x.kind)
    BY <1>4, <2>1 DEF MayFollow
  <2>3. IsEnveloped(file)
    BY <1>6 DEF WrittenInv
  <2> QED
    BY <1>1, <1>2, <1>4, <2>2, <2>3, OneMoreToken DEF x
<1>7. ASSUME form = "bare" PROVE IsBare(file')
  <2> DEFINE u == file \o <<x>>
  <2>1. u[Len(file) + 1] = x /\ u[Len(file)] = file[Len(file)] /\ Len(file) + 1 > 1
    <3>1. IsSeq(<<x>>) /\ Len(<<x>>) = 1 /\ <<x>>[1] = x
      BY ShortSeqs
    <3> QED
      BY <1>2, <1>5, <3>1, Joining
  <2>2. (LastTag = "20" /\ tag = "25") \/ (LastTag # "20" /\ tag \notin {"20", "25"})
    BY <1>3 DEF Follows
  <2> HIDE DEF u
  <2>3. IsBareAt(u, Len(file) + 1)
    <3>1. u[Len(file) + 1 - 1] = file[Len(file)]
      BY <1>5, <2>1
    <3> QED
      BY <1>4, <1>5, <2>1, <2>2, <3>1 DEF IsBareAt, IsOther
  <2>4. IsBare(file)
    BY <1>7 DEF WrittenInv
  <2>5. IsBare(u)
    BY <1>2, <2>3, <2>4, BareGoesOn DEF u
  <2> QED
    BY <1>1, <2>5 DEF u, x
<1> QED
  BY <1>2, <1>6, <1>7 DEF WrittenInv

(* A message as it is written, with an acknowledgement or without. *)
IsNewMessage(t, type, v) ==
  /\ IsSeq(t) /\ type \in {"940", "999"}
  /\ \/ /\ Len(t) = 4 /\ t[1] = Block("basic") /\ t[2] = Token("app", type, NoValue)
        /\ t[3] = Block("open") /\ t[4] = Token("line", "20", v)
     \/ /\ Len(t) = 6 /\ t[1] = Block("basic") /\ t[2] = Block("ack")
        /\ t[3] = Block("basic") /\ t[4] = Token("app", type, NoValue)
        /\ t[5] = Block("open") /\ t[6] = Token("line", "20", v)

LEMMA NewMessage ==
  ASSUME WriteMessage
  PROVE  \E type, v, t : file' = file \o t /\ IsNewMessage(t, type, v)
<1>1. PICK type \in {"940", "999"} : \E ack \in {<<>>, <<Block("basic"), Block("ack")>>} :
        WriteReference(ack \o Envelope(type))
  BY Zenon DEF WriteMessage
<1> PICK ack \in {<<>>, <<Block("basic"), Block("ack")>>} : WriteReference(ack \o Envelope(type))
  BY <1>1
<1>2. PICK v : file' = file \o ((ack \o Envelope(type)) \o <<Token("line", "20", v)>>)
  BY DEF WriteReference, Write
<1> DEFINE t == (ack \o Envelope(type)) \o <<Token("line", "20", v)>>
           b == Block("basic")
           a == Block("ack")
           p == Token("app", type, NoValue)
           o == Block("open")
           x == Token("line", "20", v)
<1>3. Envelope(type) = <<b, p, o>>
  BY DEF Envelope
<1>4. /\ b = Block("basic") /\ a = Block("ack") /\ o = Block("open")
      /\ p = Token("app", type, NoValue) /\ x = Token("line", "20", v)
  OBVIOUS
<1>5. ack = <<>> \/ ack = <<b, a>>
  OBVIOUS
<1> HIDE DEF b, a, p, o, x
<1> DEFINE e == <<b, p, o>>
           y == <<x>>
           s == ack \o e
<1>6. t = s \o y
  BY <1>3 DEF x
<1>7. s = ack \o e
  OBVIOUS
<1>8. /\ IsSeq(e) /\ Len(e) = 3 /\ e[1] = b /\ e[2] = p /\ e[3] = o
      /\ IsSeq(y) /\ Len(y) = 1 /\ y[1] = x
  BY ShortSeqs
<1> HIDE DEF e, y, t
<1>9. ASSUME ack = <<>> PROVE IsNewMessage(t, type, v)
  <2>1. s = e
    <3>1. PICK T : e \in Seq(T)
      BY <1>8 DEF IsSeq
    <3> QED
      BY <1>9, <3>1
  <2> HIDE DEF s
  <2>2. t = e \o y
    BY <1>6, <2>1
  <2>3. IsSeq(e \o y) /\ Len(e \o y) = Len(e) + Len(y) /\ \A k \in 1..Len(e) : (e \o y)[k] = e[k]
    <3>1. IsSeq(e) /\ IsSeq(y)
      BY <1>8
    <3> QED
      BY <3>1, Joining
  <2>4. (e \o y)[Len(e) + 1] = x
    BY <1>8, JoinedLast
  <2>5. IsSeq(t) /\ Len(t) = 4 /\ t[1] = b /\ t[2] = p /\ t[3] = o /\ t[4] = x
    BY <1>8, <2>2, <2>3, <2>4
  <2> QED
    BY <1>4, <2>5 DEF IsNewMessage
<1>10. ASSUME ack = <<b, a>> PROVE IsNewMessage(t, type, v)
  <2>1. t = (<<b, a>> \o <<b, p, o>>) \o <<x>>
    BY <1>6, <1>7, <1>10 DEF e, y
  <2>2. /\ IsSeq(t) /\ Len(t) = 6 /\ t[1] = b /\ t[2] = a
        /\ t[3] = b /\ t[4] = p /\ t[5] = o /\ t[6] = x
    BY <2>1, Acknowledged
  <2> QED
    BY <1>4, <2>2 DEF IsNewMessage
<1>11. IsNewMessage(t, type, v)
  BY <1>5, <1>9, <1>10
<1> QED
  BY <1>2, <1>11 DEF t

LEMMA MessageKeepsShape ==
  ASSUME FileInv, WrittenInv, BankWrites, WriteMessage
  PROVE  WrittenInv'
<1>1. PICK type, v, t : file' = file \o t /\ IsNewMessage(t, type, v)
  BY NewMessage
<1>2. form = "fin" /\ form' = form /\ IsSeq(file) /\ IsEnveloped(file)
  BY DEF BankWrites, FileInv, WrittenInv, WriteMessage
<1>3. /\ Block("basic").kind = "basic" /\ Block("ack").kind = "ack"
      /\ Block("open").kind = "open" /\ Token("app", type, NoValue).kind = "app"
      /\ Token("line", "20", v).kind = "line"
  BY DEF Block, Token
<1>4. KindBefore(file, Len(file) + 1) \in {"start", "words", "line", "close", "gap"}
  <2>1. Len(file) \in Nat
    BY <1>2, SeqShape
  <2>2. Len(file) + 1 # 1 => Len(file) > 0 /\ Len(file) + 1 - 1 = Len(file)
    BY <2>1
  <2> QED
    BY <1>2, <2>2 DEF KindBefore, IsEnveloped
<1>5. /\ IsSeq(t) /\ Len(t) > 0 /\ t[1].kind = "basic"
      /\ \A q \in 2..Len(t) : MayFollow(t[q - 1].kind, t[q].kind)
      /\ t[Len(t)].kind = "line"
  <2>1. CASE Len(t) = 4
    <3>1. /\ IsSeq(t) /\ t[1].kind = "basic" /\ t[2].kind = "app" /\ t[3].kind = "open"
          /\ t[4].kind = "line"
      BY <1>1, <1>3, <2>1 DEF IsNewMessage
    <3>2. \A q \in 2..Len(t) : q \in {2, 3, 4}
      BY <2>1
    <3>3. /\ MayFollow(t[1].kind, t[2].kind) /\ MayFollow(t[2].kind, t[3].kind)
          /\ MayFollow(t[3].kind, t[4].kind)
      BY <3>1 DEF MayFollow
    <3> QED
      BY <2>1, <3>1, <3>2, <3>3
  <2>2. CASE Len(t) = 6
    <3>1. /\ IsSeq(t) /\ t[1].kind = "basic" /\ t[2].kind = "ack" /\ t[3].kind = "basic"
          /\ t[4].kind = "app" /\ t[5].kind = "open" /\ t[6].kind = "line"
      BY <1>1, <1>3, <2>2 DEF IsNewMessage
    <3>2. \A q \in 2..Len(t) : q \in {2, 3, 4, 5, 6}
      BY <2>2
    <3>3. /\ MayFollow(t[1].kind, t[2].kind) /\ MayFollow(t[2].kind, t[3].kind)
          /\ MayFollow(t[3].kind, t[4].kind) /\ MayFollow(t[4].kind, t[5].kind)
          /\ MayFollow(t[5].kind, t[6].kind)
      BY <3>1 DEF MayFollow
    <3> QED
      BY <2>2, <3>1, <3>2, <3>3
  <2> QED
    BY <1>1, <2>1, <2>2 DEF IsNewMessage
<1>6. MayFollow(KindBefore(file, Len(file) + 1), t[1].kind)
  BY <1>4, <1>5 DEF MayFollow
<1>7. IsEnveloped(file \o t)
  BY <1>2, <1>5, <1>6, EnvelopedGoesOn
<1> QED
  BY <1>1, <1>2, <1>7 DEF WrittenInv

LEMMA EndKeepsShape ==
  ASSUME FileInv, WrittenInv, BankWrites, WriteEnd
  PROVE  WrittenInv'
<1> DEFINE x == Block("close")
<1>1. form = "fin" /\ form' = form /\ IsSeq(file) /\ IsEnveloped(file) /\ file' = file \o <<x>>
  BY DEF BankWrites, FileInv, WrittenInv, WriteEnd, Write
<1>2. LastTag # ""
  BY DEF WriteEnd
<1>3. KindBefore(file, Len(file) + 1) = "line"
  BY <1>1, <1>2, LastOne, KindAtEnd
<1>4. x.kind = "close"
  BY DEF Block, Token
<1> HIDE DEF x
<1>5. MayFollow(KindBefore(file, Len(file) + 1), x.kind)
  BY <1>3, <1>4 DEF MayFollow
<1> QED
  BY <1>1, <1>4, <1>5, OneMoreToken DEF WrittenInv

LEMMA BetweenKeepsShape ==
  ASSUME FileInv, WrittenInv, BankWrites, WriteBetween
  PROVE  WrittenInv'
<1>1. form' = form /\ IsSeq(file)
  BY DEF BankWrites, FileInv
<1>2. CASE form = "fin"
  <2> DEFINE x == Block("gap")
  <2>1. /\ file # <<>> /\ file[Len(file)].kind = "close" /\ file' = file \o <<x>>
        /\ IsEnveloped(file)
    BY <1>2 DEF WriteBetween, Write, WrittenInv
  <2>2. KindBefore(file, Len(file) + 1) = "close"
    BY <1>1, <2>1, LastOne, KindAtEnd
  <2>3. x.kind = "gap"
    BY DEF Block, Token
  <2> HIDE DEF x
  <2>4. MayFollow(KindBefore(file, Len(file) + 1), x.kind)
    BY <2>2, <2>3 DEF MayFollow
  <2>5. IsEnveloped(file')
    BY <1>1, <2>1, <2>3, <2>4, OneMoreToken
  <2> QED
    BY <1>1, <1>2, <2>5 DEF WrittenInv
<1>3. CASE form = "bare"
  <2> DEFINE x == Block("dash")
             u == file \o <<x>>
  <2>1. IsBare(file) /\ u = file'
    BY <1>3 DEF WriteBetween, Write, WrittenInv
  <2>2. x.kind = "dash"
    BY DEF Block, Token
  <2>3. LastTag \in {"62", "86"} \/ (file # <<>> /\ file[Len(file)].kind = "close")
    BY <1>3 DEF WriteBetween
  <2> HIDE DEF x
  <2>4. Len(file) \in Nat /\ Len(file) > 0 /\ IsOther(file[Len(file)])
    <3>1. Len(file) \in Nat /\ Len(file) > 0
      BY <1>1, <2>3, LastOne
    <3>2. ~(file[Len(file)].kind = "close")
      <4>1. IsBareAt(file, Len(file))
        BY <2>1, <3>1 DEF IsBare
      <4> QED
        BY <4>1 DEF IsBareAt, IsOther
    <3>3. LastTag \in {"62", "86"}
      BY <2>3, <3>2
    <3>4. file[Len(file)].kind = "line" /\ file[Len(file)].tag = LastTag
      BY <1>1, <3>3, LastOne
    <3> QED
      BY <3>1, <3>3, <3>4 DEF IsOther
  <2>5. u[Len(file) + 1] = x /\ u[Len(file)] = file[Len(file)] /\ Len(file) + 1 > 1
    <3>1. IsSeq(<<x>>) /\ Len(<<x>>) = 1 /\ <<x>>[1] = x
      BY ShortSeqs
    <3> QED
      BY <1>1, <2>4, <3>1, Joining
  <2> HIDE DEF u
  <2>6. IsBareAt(u, Len(file) + 1)
    <3>1. u[Len(file) + 1 - 1] = file[Len(file)]
      BY <2>4, <2>5
    <3> QED
      BY <2>2, <2>4, <2>5, <3>1 DEF IsBareAt
  <2>7. IsBare(u)
    BY <1>1, <2>1, <2>6, BareGoesOn DEF u
  <2> QED
    BY <1>1, <1>3, <2>1, <2>7 DEF WrittenInv
<1> QED
  BY <1>1, <1>2, <1>3 DEF WrittenInv

LEMMA WordsKeepShape ==
  ASSUME FileInv, WrittenInv, BankWrites, WriteWords
  PROVE  WrittenInv'
<1> DEFINE x == Block("words")
           u == file \o <<x>>
<1>1. form' = form /\ IsSeq(file) /\ file = <<>> /\ file' = u
  BY DEF BankWrites, FileInv, WriteWords, Write
<1>2. x.kind = "words"
  BY DEF Block, Token
<1> HIDE DEF x
<1>3. u = <<x>>
  BY <1>1
<1> HIDE DEF u
<1>4. Len(u) = 1 /\ u[1] = x
  BY <1>3
<1>5. IsEnveloped(u)
  <2>1. \A p \in 1..Len(u) : MayFollow(KindBefore(u, p), u[p].kind)
    BY <1>2, <1>4 DEF MayFollow, KindBefore
  <2> QED
    BY <1>2, <1>4, <2>1 DEF IsEnveloped
<1>6. IsBare(u)
  BY <1>2, <1>4 DEF IsBare, IsBareAt
<1> QED
  BY <1>1, <1>5, <1>6 DEF WrittenInv

LEMMA BareKeepsShape ==
  ASSUME FileInv, WrittenInv, BankWrites, WriteBare
  PROVE  WrittenInv'
<1>1. PICK v : file' = file \o (<<>> \o <<Token("line", "20", v)>>)
  BY DEF WriteBare, WriteReference, Write
<1> DEFINE x == Token("line", "20", v)
           u == file \o <<x>>
<1>2. /\ form = "bare" /\ form' = form /\ IsSeq(file) /\ IsBare(file)
      /\ LastTag \in {"", "61", "86", "62"}
  BY DEF BankWrites, FileInv, WriteBare, WrittenInv
<1>3. file' = u
  BY <1>1
<1>4. x.kind = "line" /\ x.tag = "20"
  BY DEF Token
<1> HIDE DEF x
<1>5. Len(file) \in Nat /\ u[Len(file) + 1] = x /\ (Len(file) > 0 => u[Len(file)] = file[Len(file)])
  <2>1. IsSeq(<<x>>) /\ Len(<<x>>) = 1 /\ <<x>>[1] = x
    BY ShortSeqs
  <2>2. Len(file) \in Nat
    BY <1>2, SeqShape
  <2> DEFINE y == <<x>>
  <2>3. u[Len(file) + 1] = x
    <3>1. IsSeq(y) /\ Len(y) = 1 /\ y[1] = x
      BY <2>1
    <3> HIDE DEF y
    <3> QED
      BY <1>2, <2>2, <3>1, JoinedLast DEF y
  <2>4. Len(file) > 0 => Len(file) \in 1..Len(file)
    BY <2>2
  <2>5. Len(file) > 0 => u[Len(file)] = file[Len(file)]
    BY <1>2, <2>1, <2>4, Joining
  <2> QED
    BY <2>2, <2>3, <2>5
<1> HIDE DEF u
<1>6. IsBareAt(u, Len(file) + 1)
  <2>1. CASE Len(file) = 0
    BY <1>4, <1>5, <2>1 DEF IsBareAt
  <2>2. CASE Len(file) > 0
    <3>1. IsBareAt(file, Len(file))
      <4>1. Len(file) \in 1..Len(file)
        BY <1>5, <2>2
      <4> QED
        BY <1>2, <4>1 DEF IsBare
    <3>2. file[Len(file)].kind = "line" => IsOther(file[Len(file)])
      <4>1. file[Len(file)].kind = "line" => LastTag = file[Len(file)].tag
        <5>1. file # <<>>
          BY <2>2
        <5> QED
          BY <5>1, Zenon DEF LastTag
      <4> QED
        BY <1>2, <4>1 DEF IsOther
    <3>3. file[Len(file)].kind \in {"words", "line", "dash"}
      BY <3>1 DEF IsBareAt, IsOther
    <3>4. u[Len(file) + 1 - 1] = file[Len(file)]
      BY <1>5, <2>2
    <3> QED
      BY <1>4, <1>5, <3>2, <3>3, <3>4 DEF IsBareAt
  <2> QED
    BY <1>5, <2>1, <2>2
<1>7. IsBare(u)
  BY <1>2, <1>6, BareGoesOn DEF u
<1> QED
  BY <1>2, <1>3, <1>7 DEF WrittenInv

LEMMA WrittenHolds == Spec => []WrittenInv
<1>1. Init => WrittenInv
  <2> SUFFICES ASSUME Init PROVE WrittenInv
    OBVIOUS
  <2>1. file = <<>> /\ Len(file) = 0
    BY DEF Init
  <2> QED
    BY <2>1 DEF WrittenInv, IsEnveloped, IsBare
<1>2. FileInv /\ WrittenInv /\ [Next]_vars => WrittenInv'
  <2> SUFFICES ASSUME FileInv, WrittenInv, [Next]_vars PROVE WrittenInv'
    OBVIOUS
  <2>1. CASE BankWrites
    <3>1. CASE WriteStatement \/ WriteElement
      <4>1. form' = "camt"
        BY <2>1, <3>1 DEF BankWrites, WriteStatement, WriteElement
      <4> QED
        BY <4>1 DEF WrittenInv
    <3> QED
      BY <2>1, <3>1, FieldKeepsShape, MessageKeepsShape, EndKeepsShape, BetweenKeepsShape,
         WordsKeepShape, BareKeepsShape DEF BankWrites
  <2>2. CASE UNCHANGED <<file, form>>
    BY <2>2 DEF WrittenInv
  <2> QED
    BY <2>1, <2>2
       DEF Next, vars, LoadFile, Arrive, StartStore, CreateTable, CloseTable, StopStore, Ask, ReadTable
<1> QED
  BY <1>1, <1>2, FileHolds, PTL DEF Spec

(* What was loaded is what Load makes of the file. *)
LoadedInv == loaded # <<>> => form # "camt" /\ loaded = Load(file)

LEMMA LoadedHolds == Spec => []LoadedInv
<1>1. Init => LoadedInv
  BY DEF Init, LoadedInv
<1>2. LoadedInv /\ [Next]_vars => LoadedInv'
  <2> SUFFICES ASSUME LoadedInv, [Next]_vars PROVE LoadedInv'
    OBVIOUS
  <2>1. CASE BankWrites
    BY <2>1 DEF BankWrites, LoadedInv
  <2>2. CASE LoadFile
    BY <2>2 DEF LoadFile, LoadedInv
  <2>3. CASE UNCHANGED <<file, form, loaded>>
    BY <2>3 DEF LoadedInv
  <2> QED
    BY <2>1, <2>2, <2>3
       DEF Next, vars, Arrive, StartStore, CreateTable, CloseTable, StopStore, Ask, ReadTable
<1> QED
  BY <1>1, <1>2, PTL DEF Spec

-----------------------------------------------------------------------------
(* Files of messages in envelopes. *)

LEMMA WhatStandsBefore ==
  ASSUME IsSeq(file), IsEnveloped(file), NEW p \in 1..Len(file)
  PROVE  /\ file[p].kind = "basic" =>
              p = 1 \/ file[p - 1].kind \in {"words", "ack", "line", "close", "gap"}
         /\ file[p].kind \in {"app", "ack"} => p > 1 /\ file[p - 1].kind = "basic"
         /\ file[p].kind = "open" => p > 1 /\ file[p - 1].kind = "app"
         /\ file[p].kind = "line" => p > 1 /\ file[p - 1].kind \in {"open", "line"}
         /\ file[p].kind = "close" => p > 1 /\ file[p - 1].kind = "line"
         /\ file[p].kind = "gap" => p > 1 /\ file[p - 1].kind = "close"
         /\ file[p].kind = "words" => p = 1
<1>1. MayFollow(KindBefore(file, p), file[p].kind)
  BY DEF IsEnveloped
<1>2. CASE p = 1
  BY <1>1, <1>2 DEF MayFollow, KindBefore
<1>3. CASE p # 1
  <2>1. KindBefore(file, p) = file[p - 1].kind /\ p > 1
    BY <1>3 DEF KindBefore
  <2> DEFINE before == file[p - 1].kind
             kind == file[p].kind
  <2>2. MayFollow(before, kind)
    BY <1>1, <2>1
  <2> HIDE DEF before, kind
  <2>3. /\ kind = "basic" => before \in {"words", "ack", "line", "close", "gap"} \/ before = "start"
        /\ kind \in {"app", "ack"} => before = "basic"
        /\ kind = "open" => before = "app"
        /\ kind = "line" => before \in {"open", "line"}
        /\ kind = "close" => before = "line"
        /\ kind = "gap" => before = "close"
        /\ kind = "words" => before = "start"
    BY <2>2 DEF MayFollow
  <2>4. before # "start"
    <3> DEFINE q == p - 1
    <3>1. q \in 1..Len(file)
      <4>1. Len(file) \in Nat
        BY SeqShape
      <4> QED
        BY <2>1, <4>1
    <3> HIDE DEF q
    <3>2. MayFollow(KindBefore(file, q), file[q].kind)
      BY <3>1 DEF IsEnveloped
    <3>3. file[q].kind # "start"
      BY <3>2 DEF MayFollow
    <3> QED
      BY <3>3 DEF before, q
  <2> QED
    BY <2>1, <2>3, <2>4 DEF before, kind
<1> QED
  BY <1>2, <1>3

LEMMA WhatStandsAfter ==
  ASSUME IsSeq(file), IsEnveloped(file), NEW p \in 1..Len(file)
  PROVE  /\ file[p].kind = "basic" =>
              p + 1 \in 1..Len(file) /\ file[p + 1].kind \in {"app", "ack"}
         /\ file[p].kind = "app" => p + 1 \in 1..Len(file) /\ file[p + 1].kind = "open"
         /\ file[p].kind = "open" => p + 1 \in 1..Len(file) /\ file[p + 1].kind = "line"
         /\ file[p].kind = "ack" => p + 1 \in 1..Len(file) /\ file[p + 1].kind = "basic"
         /\ file[p].kind = "line" /\ p + 1 \in 1..Len(file) =>
              file[p + 1].kind \in {"line", "close", "basic"}
<1>1. Len(file) \in Nat
  BY SeqShape
<1>2. CASE p = Len(file)
  <2>1. file[p].kind \in {"words", "line", "close", "gap"} /\ p + 1 \notin 1..Len(file)
    BY <1>1, <1>2 DEF IsEnveloped
  <2> QED
    BY <2>1
<1>3. CASE p # Len(file)
  <2> DEFINE q == p + 1
  <2>1. q \in 1..Len(file) /\ q # 1 /\ q - 1 = p
    BY <1>1, <1>3
  <2> HIDE DEF q
  <2>2. MayFollow(file[p].kind, file[q].kind)
    BY <2>1 DEF IsEnveloped, KindBefore
  <2>3. /\ file[p].kind = "basic" => file[q].kind \in {"app", "ack"}
        /\ file[p].kind = "app" => file[q].kind = "open"
        /\ file[p].kind = "open" => file[q].kind = "line"
        /\ file[p].kind = "ack" => file[q].kind = "basic"
        /\ file[p].kind = "line" => file[q].kind \in {"line", "close", "basic"}
    BY <2>2 DEF MayFollow
  <2> QED
    BY <2>1, <2>3 DEF q
<1> QED
  BY <1>2, <1>3

IsStart(i) ==
  file[i].kind = "basic" /\ (i = 1 \/ file[i - 1].kind \in {"ack", "close", "gap"})

LEMMA WhereMessagesStart ==
  ASSUME IsSeq(file), IsEnveloped(file)
  PROVE  Starts(file) = {i \in 1..Len(file) : IsStart(i)}
<1>1. Len(file) \in Nat /\ DOMAIN file = 1..Len(file)
  BY SeqShape
<1>2. ASSUME NEW i \in 1..Len(file), file[i].kind = "basic"
      PROVE  LET before == {j \in DOMAIN file : j < i /\ file[j].kind # "gap"}
             IN (before = {} \/ file[Final(before)].kind \in EndsInBrace) <=> IsStart(i)
  <2> DEFINE before == {j \in DOMAIN file : j < i /\ file[j].kind # "gap"}
  <2>1. before \in SUBSET Int
    BY <1>1
  <2>2. CASE i = 1
    <3>1. before = {}
      BY <1>1, <2>2
    <3> QED
      BY <1>2, <2>2, <3>1 DEF IsStart
  <2>3. CASE i # 1
    <3> DEFINE p == i - 1
    <3>1. p \in 1..Len(file) /\ p < i /\ \A j \in before : j <= p
      BY <1>1, <2>3
    <3>2. file[p].kind \in {"words", "ack", "line", "close", "gap"}
      BY <1>2, <2>3, WhatStandsBefore
    <3>3. CASE file[p].kind # "gap"
      <4>1. p \in before
        BY <1>1, <3>1, <3>3
      <4> HIDE DEF before, p
      <4>2. Final(before) = p
        BY <2>1, <3>1, <4>1, FinalIs
      <4>3. before # {}
        BY <4>1
      <4>4. file[p].kind \in EndsInBrace <=> file[p].kind \in {"ack", "close", "gap"}
        BY <3>2, <3>3 DEF EndsInBrace
      <4> QED
        BY <1>2, <2>3, <4>2, <4>3, <4>4 DEF IsStart, before, p
    <3>4. CASE file[p].kind = "gap"
      <4> DEFINE c == p - 1
      <4>1. p > 1 /\ file[c].kind = "close"
        BY <3>1, <3>4, WhatStandsBefore
      <4>2. c \in 1..Len(file) /\ c < i /\ c \in Int
        BY <1>1, <4>1
      <4>3. c \in before
        BY <1>1, <4>1, <4>2
      <4>4. \A j \in before : j <= c
        <5> SUFFICES ASSUME NEW j \in before, ~(j <= c) PROVE FALSE
          OBVIOUS
        <5>1. j = p
          BY <3>1, <4>2
        <5> QED
          BY <3>4, <5>1
      <4> HIDE DEF before, c
      <4>5. Final(before) = c
        BY <2>1, <4>3, <4>4, FinalIs
      <4>6. file[Final(before)].kind \in EndsInBrace
        BY <4>1, <4>5 DEF EndsInBrace
      <4> QED
        BY <1>2, <2>3, <3>4, <4>6 DEF IsStart, before
    <3> QED
      BY <3>3, <3>4
  <2> QED
    BY <2>2, <2>3
<1>3. \A i \in 1..Len(file) : i \in Starts(file) <=> IsStart(i)
  <2> SUFFICES ASSUME NEW i \in 1..Len(file) PROVE i \in Starts(file) <=> IsStart(i)
    OBVIOUS
  <2>1. CASE file[i].kind = "basic"
    BY <1>1, <1>2, <2>1 DEF Starts, Places
  <2>2. CASE file[i].kind # "basic"
    BY <2>2 DEF Starts, Places, IsStart
  <2> QED
    BY <2>1, <2>2
<1>4. Starts(file) \subseteq 1..Len(file)
  BY <1>1 DEF Starts, Places
<1> QED
  BY <1>3, <1>4

(* From the message at m on there are lines up to p. *)
IsLinesFrom(m, p) ==
  m \in Messages /\ m + 3 <= p /\ \A q \in (m + 3)..(p - 1) : file[q].kind = "line"

LEMMA MessageHeads ==
  ASSUME IsSeq(file), IsEnveloped(file), NEW m \in Messages
  PROVE  /\ Len(file) \in Nat /\ m \in 1..Len(file) /\ m + 3 \in 1..Len(file)
         /\ file[m].kind = "basic" /\ file[m + 1].kind = "app" /\ file[m + 2].kind = "open"
         /\ file[m + 3].kind = "line"
<1>1. Len(file) \in Nat /\ DOMAIN file = 1..Len(file)
  BY SeqShape
<1>2. m \in 1..Len(file) /\ file[m].kind = "basic" /\ file[m + 1].kind = "app"
      /\ m + 1 \in 1..Len(file)
  BY <1>1 DEF Messages, Places
<1> DEFINE a == m + 1
           b == m + 2
<1>3. a \in 1..Len(file) /\ file[a].kind = "app" /\ a + 1 = b /\ b + 1 = m + 3
  BY <1>2
<1> HIDE DEF a, b
<1>4. b \in 1..Len(file) /\ file[b].kind = "open"
  BY <1>3, WhatStandsAfter
<1>5. b + 1 \in 1..Len(file) /\ file[b + 1].kind = "line"
  BY <1>4, WhatStandsAfter
<1> QED
  BY <1>1, <1>2, <1>3, <1>4, <1>5 DEF b

LEMMA InMessage ==
  ASSUME IsSeq(file), IsEnveloped(file),
         NEW p \in 1..Len(file), file[p].kind \in {"line", "close"}
  PROVE  \E m : IsLinesFrom(m, p)
<1> DEFINE N == Len(file)
           good == {q \in 0..N : q = 0 \/ (file[q].kind \in {"line", "close"} =>
                                             \E m : IsLinesFrom(m, q))}
<1>1. N \in Nat /\ DOMAIN file = 1..N
  BY SeqShape
<1>2. 0 \in good
  BY <1>1
<1>3. ASSUME NEW q \in 1..N, q - 1 \in good PROVE q \in good
  <2> SUFFICES ASSUME file[q].kind \in {"line", "close"} PROVE \E m : IsLinesFrom(m, q)
    BY <1>1
  <2> DEFINE r == q - 1
  <2>1. q > 1 /\ file[r].kind \in {"open", "line"} /\ r \in 1..N /\ r # 0
    <3>1. q > 1 /\ file[r].kind \in {"open", "line"}
      BY WhatStandsBefore
    <3> QED
      BY <1>1, <3>1
  <2>2. CASE file[r].kind = "line"
    <3>1. PICK m : IsLinesFrom(m, r)
      BY <1>3, <2>1, <2>2
    <3>2. IsLinesFrom(m, q)
      <4>1. m \in Messages /\ m + 3 <= r /\ m \in Int
        BY <1>1, <3>1 DEF IsLinesFrom, Messages, Places
      <4>2. \A x \in (m + 3)..(q - 1) : x \in (m + 3)..(r - 1) \/ x = r
        BY <2>1, <4>1
      <4>3. m + 3 <= q
        BY <2>1, <4>1
      <4> HIDE DEF r
      <4> QED
        BY <2>2, <3>1, <4>1, <4>2, <4>3 DEF IsLinesFrom
    <3> QED
      BY <3>2
  <2>3. CASE file[r].kind = "open"
    <3> DEFINE a == r - 1
               b == a - 1
    <3>1. r > 1 /\ file[a].kind = "app"
      BY <2>1, <2>3, WhatStandsBefore
    <3>2. a \in 1..N
      BY <2>1, <3>1
    <3>3. a > 1 /\ file[b].kind = "basic"
      <4> HIDE DEF a
      <4> QED
        BY <3>1, <3>2, WhatStandsBefore
    <3>4. b \in 1..N /\ b + 1 = a /\ b < N /\ b + 3 = q /\ b + 3 <= q
          /\ \A x \in (b + 3)..(q - 1) : FALSE
      BY <1>1, <2>1, <3>2, <3>3
    <3>5. b \in Messages
      <4> HIDE DEF a, b
      <4> QED
        BY <1>1, <3>1, <3>3, <3>4 DEF Messages, Places
    <3>6. IsLinesFrom(b, q)
      <4> HIDE DEF b
      <4> QED
        BY <3>4, <3>5 DEF IsLinesFrom
    <3> QED
      BY <3>6
  <2> QED
    BY <2>1, <2>2, <2>3
<1> HIDE DEF good, N
<1>4. \A q \in 0..N : q \in good
  BY <1>1, <1>2, <1>3, UpTo
<1>5. p \in 0..N /\ p # 0
  BY <1>1 DEF N
<1> QED
  BY <1>4, <1>5 DEF good

LEMMA WhereMessagesEnd ==
  ASSUME IsSeq(file), IsEnveloped(file), NEW m, NEW p \in 1..Len(file),
         IsLinesFrom(m, p), file[p].kind \in {"basic", "close"}
  PROVE  EndOf(m) = p
<1> DEFINE later == {j \in Places(file, {"basic", "close"}) : j > m}
<1>1. Len(file) \in Nat /\ DOMAIN file = 1..Len(file)
  BY SeqShape
<1>2. m \in Messages /\ m + 3 <= p /\ \A q \in (m + 3)..(p - 1) : file[q].kind = "line"
  BY DEF IsLinesFrom
<1>3. m \in 1..Len(file) /\ file[m + 1].kind = "app" /\ file[m + 2].kind = "open"
  BY <1>2, MessageHeads
<1>4. later \in SUBSET Int /\ p \in later
  BY <1>1, <1>2, <1>3 DEF Places
<1>5. \A j \in later : p <= j
  <2> SUFFICES ASSUME NEW j \in later, j < p PROVE FALSE
    BY <1>1 DEF Places
  <2>1. j \in 1..Len(file) /\ j > m /\ file[j].kind \in {"basic", "close"}
    BY <1>1 DEF Places
  <2>2. j = m + 1 \/ j = m + 2 \/ j \in (m + 3)..(p - 1)
    BY <1>2, <1>3, <2>1
  <2> QED
    BY <1>2, <1>3, <2>1, <2>2
<1> HIDE DEF later
<1>6. First(later) = p /\ later # {}
  BY <1>4, <1>5, FirstIs
<1> QED
  BY <1>6 DEF EndOf, later

(* The lines of the message at i are those up to s. *)
IsStop(i, s) ==
  /\ s \in (i + 4)..(Len(file) + 1)
  /\ \A q \in (i + 3)..(s - 1) : file[q].kind = "line"
  /\ s <= Len(file) => file[s].kind \in {"basic", "close"}

LEMMA LinesStop ==
  ASSUME IsSeq(file), IsEnveloped(file), NEW i \in Messages
  PROVE  \E s : IsStop(i, s)
<1> DEFINE N == Len(file)
           others == {j \in 1..N : j >= i + 3 /\ file[j].kind # "line"}
<1>1. /\ N \in Nat /\ i \in 1..N /\ i + 3 \in 1..N /\ file[i + 3].kind = "line"
  BY MessageHeads
<1>2. CASE others = {}
  <2>1. \A q \in (i + 3)..(N + 1 - 1) : file[q].kind = "line"
    BY <1>1, <1>2
  <2>2. N + 1 \in (i + 4)..(N + 1) /\ ~(N + 1 <= N)
    BY <1>1
  <2>3. IsStop(i, N + 1)
    BY <2>1, <2>2 DEF IsStop
  <2> QED
    BY <2>3
<1>3. CASE others # {}
  <2>1. others \in SUBSET Nat
    BY <1>1
  <2>2. PICK s \in others : \A j \in others : s <= j
    BY <1>3, <2>1, Least
  <2>3. s \in 1..N /\ s >= i + 3 /\ file[s].kind # "line" /\ s # i + 3
    BY <1>1, <2>2
  <2>4. \A q \in (i + 3)..(s - 1) : file[q].kind = "line"
    <3> SUFFICES ASSUME NEW q \in (i + 3)..(s - 1), file[q].kind # "line" PROVE FALSE
      OBVIOUS
    <3>1. q \in others /\ ~(s <= q)
      BY <1>1, <2>3
    <3> QED
      BY <2>2, <3>1
  <2> DEFINE p == s - 1
  <2>5. p \in 1..N /\ p \in (i + 3)..(s - 1) /\ p + 1 = s
    BY <1>1, <2>3
  <2> HIDE DEF p, others
  <2>6. file[p].kind = "line"
    BY <2>4, <2>5
  <2>7. file[s].kind \in {"basic", "close"}
    <3>1. p + 1 \in 1..N
      BY <2>3, <2>5
    <3>2. file[p + 1].kind \in {"line", "close", "basic"}
      BY <2>5, <2>6, <3>1, WhatStandsAfter
    <3> QED
      BY <2>3, <2>5, <3>2
  <2>8. s \in (i + 4)..(N + 1)
    BY <1>1, <2>3
  <2>9. IsStop(i, s)
    BY <2>4, <2>7, <2>8 DEF IsStop
  <2> QED
    BY <2>9
<1> QED
  BY <1>2, <1>3

LEMMA StopsAreEnds ==
  ASSUME IsSeq(file), IsEnveloped(file), NEW i \in Messages, NEW s, IsStop(i, s)
  PROVE  /\ EndOf(i) = IF s <= Len(file) THEN s ELSE Len(file)
         /\ Complete(i) <=> s <= Len(file) /\ file[s].kind = "close"
<1> DEFINE N == Len(file)
<1>1. /\ N \in Nat /\ i \in 1..N /\ DOMAIN file = 1..N
      /\ file[i + 1].kind = "app" /\ file[i + 2].kind = "open"
  BY MessageHeads, SeqShape
<1>2. /\ s \in (i + 4)..(N + 1) /\ \A q \in (i + 3)..(s - 1) : file[q].kind = "line"
      /\ s <= N => file[s].kind \in {"basic", "close"}
  BY DEF IsStop
<1>3. CASE s <= N
  <2>1. s \in 1..N /\ i + 3 <= s
    BY <1>1, <1>2, <1>3
  <2>2. IsLinesFrom(i, s)
    BY <1>2, <2>1 DEF IsLinesFrom
  <2>3. EndOf(i) = s
    BY <1>2, <1>3, <2>1, <2>2, WhereMessagesEnd
  <2> QED
    BY <1>3, <2>3 DEF Complete
<1>4. CASE ~(s <= N)
  <2>1. s = N + 1
    BY <1>1, <1>2, <1>4
  <2>2. {j \in Places(file, {"basic", "close"}) : j > i} = {}
    <3> SUFFICES ASSUME NEW j \in 1..N, file[j].kind \in {"basic", "close"}, j > i PROVE FALSE
      BY <1>1 DEF Places
    <3>1. j = i + 1 \/ j = i + 2 \/ j \in (i + 3)..(s - 1)
      BY <1>1, <2>1
    <3> QED
      BY <1>1, <1>2, <3>1
  <2>3. EndOf(i) = N
    BY <2>2 DEF EndOf
  <2>4. file[N].kind = "line"
    <3>1. N \in (i + 3)..(s - 1)
      BY <1>1, <1>2, <2>1
    <3> QED
      BY <1>2, <3>1
  <2> QED
    BY <1>4, <2>3, <2>4 DEF Complete
<1> QED
  BY <1>3, <1>4

(* The last message before a place it has its lines up to. *)
LEMMA LastMessage ==
  ASSUME IsSeq(file), IsEnveloped(file), NEW m, NEW p \in 1..Len(file), IsLinesFrom(m, p),
         NEW i \in (p + 1)..(p + 2), file[p].kind \in {"line", "close"},
         i = p + 2 => file[p + 1].kind = "gap"
  PROVE  LET before == {j \in Messages : j < i}
         IN before # {} /\ Final(before) = m
<1> DEFINE before == {j \in Messages : j < i}
<1>1. Len(file) \in Nat /\ DOMAIN file = 1..Len(file)
  BY SeqShape
<1>2. m \in Messages /\ m + 3 <= p /\ \A q \in (m + 3)..(p - 1) : file[q].kind = "line"
  BY DEF IsLinesFrom
<1>3. m \in 1..Len(file) /\ file[m + 1].kind = "app" /\ file[m + 2].kind = "open"
  BY <1>2, MessageHeads
<1>4. before \in SUBSET Int /\ m \in before
  BY <1>1, <1>2, <1>3 DEF Messages, Places
<1>5. \A j \in before : j <= m
  <2> SUFFICES ASSUME NEW j \in Messages, j < i, j > m PROVE FALSE
    BY <1>1, <1>3 DEF Messages, Places
  <2>1. j \in 1..Len(file) /\ file[j].kind = "basic"
    BY <1>1 DEF Messages, Places
  <2>2. j = m + 1 \/ j = m + 2 \/ j \in (m + 3)..(p - 1) \/ j = p \/ (j = p + 1 /\ i = p + 2)
    BY <1>2, <1>3, <2>1
  <2> QED
    BY <1>2, <1>3, <2>1, <2>2
<1> HIDE DEF before
<1>6. Final(before) = m /\ before # {}
  BY <1>4, <1>5, FinalIs
<1> QED
  BY <1>6 DEF before

(* Nothing is left open before a message exactly if split_messages starts  *)
(* it.                                                                     *)
LEMMA CleanOnesStart ==
  ASSUME IsSeq(file), IsEnveloped(file), NEW i \in Messages
  PROVE  BeginsClean(i) <=> IsStart(i)
<1> DEFINE N == Len(file)
           before == {j \in Messages : j < i}
<1>1. N \in Nat /\ i \in 1..N /\ file[i].kind = "basic" /\ DOMAIN file = 1..N
  BY MessageHeads, SeqShape
<1>2. BeginsClean(i) <=> \/ i > 1 /\ file[i - 1].kind = "ack"
                         \/ before = {} /\ file[1].kind # "words"
                         \/ before # {} /\ Complete(Final(before))
  BY Zenon DEF BeginsClean
<1>3. CASE i = 1
  <2>1. before = {}
    BY <1>1, <1>3 DEF Messages, Places
  <2> HIDE DEF before
  <2> QED
    BY <1>1, <1>2, <1>3, <2>1 DEF IsStart
<1>4. CASE i # 1
  <2> DEFINE p == i - 1
  <2>1. p \in 1..N /\ i > 1 /\ i = p + 1 /\ i \in (p + 1)..(p + 2) /\ i # p + 2
    BY <1>1, <1>4
  <2>2. file[p].kind \in {"words", "ack", "line", "close", "gap"}
    BY <1>1, <1>4, WhatStandsBefore
  <2> HIDE DEF before, p
  <2>3. IsStart(i) <=> file[p].kind \in {"ack", "close", "gap"}
    BY <1>1, <1>4 DEF IsStart, p
  <2>4. CASE file[p].kind = "ack"
    BY <1>2, <2>1, <2>3, <2>4 DEF p
  <2>5. CASE file[p].kind = "words"
    <3>1. p = 1
      BY <2>1, <2>5, WhatStandsBefore
    <3>2. before = {}
      <4> SUFFICES ASSUME NEW j \in Messages, j < i PROVE FALSE
        BY DEF before
      <4>1. j = 1 /\ file[j].kind = "basic"
        BY <1>1, <2>1, <3>1 DEF Messages, Places
      <4> QED
        BY <2>5, <3>1, <4>1
    <3>3. file[1].kind = "words" /\ file[i - 1].kind # "ack"
      BY <2>5, <3>1 DEF p
    <3> QED
      BY <1>2, <2>3, <2>5, <3>2, <3>3
  <2>6. CASE file[p].kind = "line"
    <3>1. PICK m : IsLinesFrom(m, p)
      BY <2>1, <2>6, InMessage
    <3>2. before # {} /\ Final(before) = m
      BY <2>1, <2>6, <3>1, LastMessage DEF before
    <3>3. IsLinesFrom(m, i)
      <4>1. m \in Messages /\ m + 3 <= p /\ m \in Int
        BY <1>1, <3>1 DEF IsLinesFrom, Messages, Places
      <4>2. (\A x \in (m + 3)..(i - 1) : x \in (m + 3)..(p - 1) \/ x = p) /\ m + 3 <= i
        BY <2>1, <4>1
      <4> QED
        BY <2>6, <3>1, <4>1, <4>2 DEF IsLinesFrom
    <3>4. EndOf(m) = i
      BY <1>1, <3>3, WhereMessagesEnd
    <3>5. ~Complete(m)
      BY <1>1, <3>4 DEF Complete
    <3>6. file[i - 1].kind # "ack"
      BY <2>6 DEF p
    <3> QED
      BY <1>2, <2>3, <2>6, <3>2, <3>5, <3>6
  <2>7. ASSUME NEW c \in 1..N, file[c].kind = "close", i \in (c + 1)..(c + 2),
               i = c + 2 => file[c + 1].kind = "gap"
        PROVE  before # {} /\ Complete(Final(before))
    <3>1. PICK m : IsLinesFrom(m, c)
      BY <2>7, InMessage
    <3>2. before # {} /\ Final(before) = m
      BY <2>7, <3>1, LastMessage DEF before
    <3>3. EndOf(m) = c
      BY <2>7, <3>1, WhereMessagesEnd
    <3> QED
      BY <2>7, <3>2, <3>3 DEF Complete
  <2>8. CASE file[p].kind = "close"
    BY <1>2, <2>1, <2>3, <2>7, <2>8
  <2>9. CASE file[p].kind = "gap"
    <3> DEFINE c == p - 1
    <3>1. p > 1 /\ file[c].kind = "close"
      BY <2>1, <2>9, WhatStandsBefore
    <3>2. c \in 1..N /\ i \in (c + 1)..(c + 2) /\ c + 1 = p
      BY <1>1, <2>1, <3>1
    <3> HIDE DEF c
    <3>3. before # {} /\ Complete(Final(before))
      BY <2>7, <2>9, <3>1, <3>2
    <3> QED
      BY <1>2, <2>3, <2>9, <3>3
  <2> QED
    BY <2>2, <2>4, <2>5, <2>6, <2>8, <2>9
<1> QED
  BY <1>3, <1>4

-----------------------------------------------------------------------------
(* The fields of a run of lines. *)

LEMMA PartOf ==
  ASSUME NEW s, IsSeq(s), NEW a \in Int, NEW b \in Int, 1 <= a, a <= b + 1, b <= Len(s)
  PROVE  /\ IsSeq(SubSeq(s, a, b)) /\ Len(SubSeq(s, a, b)) = b - a + 1
         /\ \A q \in 1..(b - a + 1) : SubSeq(s, a, b)[q] = s[a + q - 1]
<1>1. PICK T : s \in Seq(T)
  BY DEF IsSeq
<1>2. \A q \in a..b : s[q] \in T
  <2>1. Len(s) \in Nat /\ \A q \in a..b : q \in 1..Len(s)
    BY <1>1
  <2> QED
    BY <1>1, <2>1, ElementOfSeq
<1>3. /\ SubSeq(s, a, b) \in Seq(T)
      /\ Len(SubSeq(s, a, b)) = IF a <= b THEN b - a + 1 ELSE 0
      /\ \A q \in 1..(b - a + 1) : SubSeq(s, a, b)[q] = s[a + q - 1]
  BY <1>2, SubSeqProperties
<1>4. (IF a <= b THEN b - a + 1 ELSE 0) = b - a + 1
  OBVIOUS
<1> DEFINE u == SubSeq(s, a, b)
<1>5. u \in Seq(T) /\ Len(u) = b - a + 1 /\ \A q \in 1..(b - a + 1) : u[q] = s[a + q - 1]
  BY <1>3, <1>4
<1> HIDE DEF u
<1>6. IsSeq(u)
  BY <1>5, Zenon DEF IsSeq
<1> QED
  BY <1>5, <1>6 DEF u

(* The fields of the lines from the one after a place on. *)
LinesAfter(at, L) ==
  [n \in 1..L |-> [tag |-> file[at + n].tag, value |-> file[at + n].value, whole |-> TRUE]]

(* A text that ends with those lines. *)
EndsWithLines(text, h, at, L) ==
  /\ \A q \in 1..h : text[q].kind # "line"
  /\ \A n \in 1..L : text[h + n] = file[at + n] /\ file[at + n].kind = "line"

LEMMA FieldsOfEnd ==
  ASSUME NEW text, IsSeq(text), NEW at \in Nat, NEW h \in Nat, NEW L \in Nat \ {0},
         Len(text) = h + L, EndsWithLines(text, h, at, L)
  PROVE  FieldsIn(text) = LinesAfter(at, L)
<1> DEFINE places == Places(text, {"line"})
           lines == InOrder(places)
           a == h + 1
           b == h + L
<1>1. DOMAIN text = 1..b
  BY SeqShape
<1>2. \A n \in 1..L : text[h + n] = file[at + n] /\ text[h + n].kind = "line"
  BY DEF EndsWithLines
<1>3. places = a..b
  <2>1. ASSUME NEW q \in 1..b, text[q].kind = "line" PROVE q \in a..b
    <3>1. q \notin 1..h
      BY <2>1 DEF EndsWithLines
    <3> QED
      BY <3>1
  <2>2. ASSUME NEW q \in a..b PROVE q \in 1..b /\ text[q].kind = "line"
    <3> DEFINE n == q - h
    <3>1. n \in 1..L /\ h + n = q /\ q \in 1..b
      OBVIOUS
    <3> HIDE DEF n
    <3> QED
      BY <1>2, <3>1
  <2> QED
    BY <1>1, <2>1, <2>2 DEF Places
<1>4. Cardinality(places) = L
  <2>1. Cardinality(a..b) = IF a > b THEN 0 ELSE b - a + 1
    BY FS_Interval
  <2> QED
    BY <1>3, <2>1
<1>5. DOMAIN lines = 1..L
  BY <1>4 DEF InOrder
<1>6. \A n \in 1..L : lines[n] = h + n
  <2> DEFINE S == a..b
  <2>1. /\ S \in SUBSET (1..b) /\ a \in 1..b /\ b \in 0..b /\ a <= b + 1 /\ b \in Nat
        /\ BeginsWith(S, a, b) /\ b - a + 1 = L
    BY DEF BeginsWith
  <2>2. \A n \in 1..L : a + n - 1 = h + n
    OBVIOUS
  <2> HIDE DEF S, a, b
  <2>3. \A n \in 1..(b - a + 1) : InOrder(S)[n] = a + n - 1
    BY <2>1, RunInOrder
  <2> QED
    BY <1>3, <2>1, <2>2, <2>3 DEF S
<1>7. FieldsIn(text) = [n \in DOMAIN lines |->
        [tag |-> text[lines[n]].tag, value |-> text[lines[n]].value,
         whole |-> lines[n] + 1 \notin (DOMAIN text \ places)]]
  BY DEF FieldsIn
<1> HIDE DEF lines, places
<1>8. ASSUME NEW n \in 1..L
      PROVE  [tag |-> text[lines[n]].tag, value |-> text[lines[n]].value,
              whole |-> lines[n] + 1 \notin (DOMAIN text \ places)]
             = [tag |-> file[at + n].tag, value |-> file[at + n].value, whole |-> TRUE]
  <2>1. lines[n] = h + n /\ text[h + n] = file[at + n]
    BY <1>2, <1>6
  <2>2. h + n + 1 \notin (1..b) \ (a..b)
    OBVIOUS
  <2>3. (lines[n] + 1 \notin (DOMAIN text \ places)) = TRUE
    BY <1>1, <1>3, <2>1, <2>2
  <2> QED
    BY <2>1, <2>3
<1> QED
  BY <1>5, <1>7, <1>8, Zenon DEF LinesAfter


AreLinesOf(text, at, L) ==
  \A n \in 1..L : text[n] = file[at + n] /\ file[at + n].kind = "line"

LEMMA FieldsOfLines ==
  ASSUME NEW text, IsSeq(text), NEW at \in Nat, NEW L \in Nat \ {0}, Len(text) = L,
         AreLinesOf(text, at, L)
  PROVE  FieldsIn(text) = LinesAfter(at, L)
<1>1. \A n \in 1..L : 0 + n = n
  OBVIOUS
<1>2. EndsWithLines(text, 0, at, L)
  BY <1>1 DEF EndsWithLines, AreLinesOf
<1>3. Len(text) = 0 + L
  OBVIOUS
<1> QED
  BY <1>2, <1>3, FieldsOfEnd

LEMMA FieldsOfPlaces ==
  ASSUME IsSeq(file), NEW i \in Int, NEW j \in Int, NEW at \in Nat, NEW L \in Nat \ {0},
         at + L <= Len(file),
         {k \in Places(file, {"line"}) : i <= k /\ k <= j} = (at + 1)..(at + L)
  PROVE  FieldsBetween(i, j) = LinesAfter(at, L)
<1> DEFINE a == at + 1
           b == at + L
           S == a..b
           lines == InOrder(S)
<1>1. /\ a \in 1..Len(file) /\ b \in 0..Len(file) /\ a <= b + 1 /\ Len(file) \in Nat
      /\ S \in SUBSET (1..Len(file)) /\ BeginsWith(S, a, b)
      /\ b - a + 1 = L
  BY SeqShape DEF BeginsWith
<1>2. DOMAIN lines = 1..L
  <2>1. Cardinality(a..b) = IF a > b THEN 0 ELSE b - a + 1
    BY FS_Interval
  <2> QED
    BY <1>1, <2>1 DEF InOrder
<1>3. \A n \in 1..L : lines[n] = at + n
  <2> HIDE DEF S, a, b
  <2>1. \A n \in 1..(b - a + 1) : InOrder(S)[n] = a + n - 1
    BY <1>1, RunInOrder
  <2> QED
    BY <1>1, <2>1 DEF a
<1>4. FieldsBetween(i, j) =
        [n \in DOMAIN lines |-> [tag |-> file[lines[n]].tag, value |-> file[lines[n]].value,
                                 whole |-> TRUE]]
  BY Zenon DEF FieldsBetween
<1> HIDE DEF lines
<1> QED
  BY <1>2, <1>3, <1>4 DEF LinesAfter

LEMMA LinesAreSeq ==
  ASSUME NEW at, NEW L \in Nat
  PROVE  IsSeq(LinesAfter(at, L)) /\ Len(LinesAfter(at, L)) = L
<1> DEFINE s == LinesAfter(at, L)
<1>1. DOMAIN s = 1..L /\ s = [n \in 1..L |-> s[n]]
  BY DEF LinesAfter
<1> HIDE DEF s
<1>2. IsSeq(s) /\ Len(s) = L
  BY <1>1, SeqOfFunction
<1> QED
  BY <1>2 DEF s

(* A block 4 reaches up to the first end after it. *)
LEMMA TextUpToEnd ==
  ASSUME NEW m, IsSeq(m), NEW o \in 1..Len(m), NEW c \in 1..Len(m), o < c,
         m[o].kind \in {"open", "ack"}, \A q \in 1..(o - 1) : m[q].kind \notin {"open", "ack"},
         m[c].kind = "close", \A q \in (o + 1)..(c - 1) : m[q].kind # "close"
  PROVE  TextBlock(m) = SubSeq(m, o + 1, c - 1)
<1> DEFINE opens == Places(m, {"open", "ack"})
           closes == ClosesAfter(m, o)
<1>1. Len(m) \in Nat /\ DOMAIN m = 1..Len(m)
  BY SeqShape
<1>2. First(opens) = o
  <2>1. opens \in SUBSET Int /\ o \in opens
    BY <1>1 DEF Places
  <2>2. \A q \in opens : o <= q
    <3> SUFFICES ASSUME NEW q \in opens, ~(o <= q) PROVE FALSE
      OBVIOUS
    <3>1. q \in 1..(o - 1) /\ m[q].kind \in {"open", "ack"}
      BY <1>1 DEF Places
    <3> QED
      BY <3>1
  <2> HIDE DEF opens
  <2> QED
    BY <2>1, <2>2, FirstIs
<1>3. First(closes) = c /\ closes # {}
  <2>1. closes \in SUBSET Int /\ c \in closes
    BY <1>1 DEF Places, ClosesAfter
  <2>2. \A q \in closes : c <= q
    <3> SUFFICES ASSUME NEW q \in closes, ~(c <= q) PROVE FALSE
      OBVIOUS
    <3>1. q \in (o + 1)..(c - 1) /\ m[q].kind = "close"
      BY <1>1 DEF Places, ClosesAfter
    <3> QED
      BY <3>1
  <2> HIDE DEF closes
  <2> QED
    BY <2>1, <2>2, FirstIs
<1>4. opens # {}
  BY <1>1 DEF Places
<1> QED
  BY <1>2, <1>3, <1>4 DEF TextBlock

-----------------------------------------------------------------------------
(* What is made of a message in its envelope. *)

LEMMA PieceOfMessage ==
  ASSUME IsSeq(file), IsEnveloped(file), NEW i \in Messages, NEW s, IsStop(i, s)
  PROVE  \E e \in (s - 1)..Len(file) :
           /\ Piece(file, Starts(file), i) = SubSeq(file, i, e)
           /\ s <= Len(file) => s <= e
<1> DEFINE N == Len(file)
           later == {j \in Starts(file) : j > i}
<1>1. /\ N \in Nat /\ i \in 1..N
      /\ file[i + 1].kind = "app" /\ file[i + 2].kind = "open"
  BY MessageHeads
<1>2. /\ s \in (i + 4)..(N + 1) /\ \A q \in (i + 3)..(s - 1) : file[q].kind = "line"
  BY DEF IsStop
<1>3. Piece(file, Starts(file), i) = SubSeq(file, i, IF later = {} THEN N ELSE First(later) - 1)
  BY DEF Piece
<1>4. later \in SUBSET (1..N) /\ \A j \in later : IsStart(j) /\ j > i
  BY WhereMessagesStart
<1>5. CASE later = {}
  BY <1>1, <1>2, <1>3, <1>5
<1>6. CASE later # {}
  <2> DEFINE f == First(later)
  <2> HIDE DEF later
  <2>1. f \in later /\ f \in 1..N
    BY <1>1, <1>4, <1>6, FirstIsIn
  <2>2. IsStart(f) /\ f > i
    BY <1>4, <2>1
  <2> HIDE DEF f
  <2>3. file[f].kind = "basic" /\ (f = 1 \/ file[f - 1].kind \in {"ack", "close", "gap"})
    BY <2>2 DEF IsStart
  <2>4. f >= s
    <3>1. f # i + 1 /\ f # i + 2 /\ f \notin (i + 3)..(s - 1)
      BY <1>1, <1>2, <2>3
    <3> QED
      BY <1>1, <1>2, <2>1, <2>2, <3>1
  <2>5. f # s
    <3> SUFFICES ASSUME f = s PROVE FALSE
      OBVIOUS
    <3>1. s - 1 \in (i + 3)..(s - 1) /\ s # 1
      BY <1>1, <1>2
    <3>2. file[s - 1].kind = "line"
      BY <1>2, <3>1
    <3> QED
      BY <2>3, <3>1, <3>2
  <2>6. f - 1 \in (s - 1)..N /\ s <= f - 1
    BY <1>1, <1>2, <2>1, <2>4, <2>5
  <2> QED
    BY <1>3, <1>6, <2>6 DEF f
<1> QED
  BY <1>5, <1>6

(* Everything about the piece that its fields depend on. *)
IsMessage(m, i, s, e) ==
  /\ IsSeq(m) /\ Len(m) = e - i + 1
  /\ \A q \in 1..(e - i + 1) : m[q] = file[i + q - 1]
  /\ i \in 1..Len(file) /\ s \in (i + 4)..(Len(file) + 1) /\ e \in (s - 1)..Len(file)
  /\ s <= Len(file) => s <= e
  /\ m[1].kind = "basic" /\ m[2].kind = "app" /\ m[3].kind = "open"
  /\ AreLinesOf(SubSeq(m, 4, s - i), i + 2, s - i - 3)
  /\ \A q \in 4..(s - i) : m[q].kind = "line"
  /\ m[2].tag = file[i + 1].tag
  /\ s <= Len(file) => m[s - i + 1].kind = file[s].kind

LEMMA PieceIsMessage ==
  ASSUME IsSeq(file), IsEnveloped(file), NEW i \in Messages, NEW s, IsStop(i, s)
  PROVE  \E e : IsMessage(Piece(file, Starts(file), i), i, s, e)
<1> DEFINE N == Len(file)
           m == Piece(file, Starts(file), i)
<1>1. PICK e \in (s - 1)..N : m = SubSeq(file, i, e) /\ (s <= N => s <= e)
  BY PieceOfMessage
<1>2. /\ N \in Nat /\ i \in 1..N /\ file[i].kind = "basic"
      /\ file[i + 1].kind = "app" /\ file[i + 2].kind = "open"
  BY MessageHeads
<1>3. /\ s \in (i + 4)..(N + 1) /\ \A q \in (i + 3)..(s - 1) : file[q].kind = "line"
  BY DEF IsStop
<1> HIDE DEF m
<1>4. /\ i \in Int /\ e \in Int /\ 1 <= i /\ i <= e + 1 /\ e <= N /\ e \in Nat
      /\ 1 \in 1..(e - i + 1) /\ 2 \in 1..(e - i + 1) /\ 3 \in 1..(e - i + 1)
      /\ i + 1 - 1 = i /\ i + 2 - 1 = i + 1 /\ i + 3 - 1 = i + 2
  BY <1>1, <1>2, <1>3
<1>5. /\ IsSeq(m) /\ Len(m) = e - i + 1
      /\ \A q \in 1..(e - i + 1) : m[q] = file[i + q - 1]
  BY <1>1, <1>4, PartOf
<1>6. m[1] = file[i] /\ m[2] = file[i + 1] /\ m[3] = file[i + 2]
  BY <1>4, <1>5
<1>7. \A q \in 4..(s - i) : q \in 1..(e - i + 1) /\ m[q] = file[i + q - 1] /\ m[q].kind = "line"
  <2> SUFFICES ASSUME NEW q \in 4..(s - i)
               PROVE  q \in 1..(e - i + 1) /\ m[q] = file[i + q - 1] /\ m[q].kind = "line"
    OBVIOUS
  <2>1. q \in 1..(e - i + 1) /\ i + q - 1 \in (i + 3)..(s - 1)
    BY <1>1, <1>2, <1>3
  <2> QED
    BY <1>3, <1>5, <2>1
<1>8. AreLinesOf(SubSeq(m, 4, s - i), i + 2, s - i - 3)
  <2> DEFINE L == s - i
             text == SubSeq(m, 4, L)
  <2>1. L \in Int /\ 1 <= 4 /\ 4 <= L + 1 /\ L <= Len(m)
    BY <1>1, <1>2, <1>3, <1>5
  <2> HIDE DEF L
  <2>2. \A q \in 1..(L - 4 + 1) : text[q] = m[4 + q - 1]
    BY <1>5, <2>1, PartOf
  <2> HIDE DEF text
  <2>3. ASSUME NEW n \in 1..(L - 3) PROVE text[n] = file[i + 2 + n] /\ file[i + 2 + n].kind = "line"
    <3>1. n \in 1..(L - 4 + 1) /\ 4 + n - 1 = 3 + n /\ 3 + n \in 4..L /\ i + (3 + n) - 1 = i + 2 + n
      BY <1>2, <2>1
    <3>2. text[n] = m[3 + n]
      BY <2>2, <3>1
    <3>3. m[3 + n] = file[i + (3 + n) - 1] /\ m[3 + n].kind = "line"
      BY <1>7, <3>1 DEF L
    <3> QED
      BY <3>1, <3>2, <3>3
  <2> QED
    BY <2>3 DEF AreLinesOf, text, L
<1>9. s <= N => m[s - i + 1] = file[s]
  <2> SUFFICES ASSUME s <= N PROVE m[s - i + 1] = file[s]
    OBVIOUS
  <2>1. s - i + 1 \in 1..(e - i + 1) /\ i + (s - i + 1) - 1 = s
    BY <1>1, <1>2, <1>3
  <2>2. m[s - i + 1] = file[i + (s - i + 1) - 1]
    BY <1>5, <2>1
  <2> QED
    BY <2>1, <2>2
<1>10. IsMessage(m, i, s, e)
  BY <1>1, <1>2, <1>3, <1>5, <1>6, <1>7, <1>8, <1>9 DEF IsMessage
<1> QED
  BY <1>10 DEF m

LEMMA HeadOfMessage ==
  ASSUME NEW m, NEW i, NEW s, NEW e, IsMessage(m, i, s, e)
  PROVE  HasHeader(m) /\ TypeOf(m) = file[i + 1].tag
<1> DEFINE apps == Places(m, {"app"})
<1>1. /\ DOMAIN m = 1..Len(m) /\ Len(m) = e - i + 1 /\ Len(m) \in Nat
  BY SeqShape DEF IsMessage
<1>2. /\ i \in Int /\ s \in Int /\ e \in Int /\ s >= i + 4 /\ e >= s - 1
      /\ m[1].kind = "basic" /\ m[2].kind = "app" /\ m[2].tag = file[i + 1].tag
  <2>1. i \in 1..Len(file) /\ s \in (i + 4)..(Len(file) + 1) /\ e \in (s - 1)..Len(file)
    BY DEF IsMessage
  <2>2. m[1].kind = "basic" /\ m[2].kind = "app" /\ m[2].tag = file[i + 1].tag
    BY DEF IsMessage
  <2> QED
    BY <2>1, <2>2
<1>3. 2 \in apps /\ apps \in SUBSET Int /\ \A q \in apps : 2 <= q
  <2>1. 2 \in 1..Len(m) /\ \A q \in 1..Len(m) : q = 1 \/ 2 <= q
    BY <1>1, <1>2
  <2> QED
    BY <1>1, <1>2, <2>1 DEF Places
<1> HIDE DEF apps
<1>4. First(apps) = 2 /\ apps # {}
  BY <1>3, FirstIs
<1> QED
  BY <1>2, <1>4 DEF HasHeader, TypeOf, apps

LEMMA OwnFields ==
  ASSUME IsSeq(file), IsEnveloped(file), NEW i \in Messages, NEW s, IsStop(i, s)
  PROVE  Own(i) = LinesAfter(i + 2, s - i - 3)
<1> DEFINE N == Len(file)
           at == i + 2
           L == s - i - 3
           end == EndOf(i)
<1>1. /\ N \in Nat /\ i \in 1..N /\ DOMAIN file = 1..N /\ file[i].kind = "basic"
      /\ file[i + 1].kind = "app" /\ file[i + 2].kind = "open"
  BY MessageHeads, SeqShape
<1>2. /\ s \in (i + 4)..(N + 1) /\ \A q \in (i + 3)..(s - 1) : file[q].kind = "line"
      /\ s <= N => file[s].kind \in {"basic", "close"}
  BY DEF IsStop
<1>3. /\ end \in Int /\ end <= N /\ end <= s /\ s - 1 <= end
      /\ end = s => file[s].kind \in {"basic", "close"}
  <2>1. end = IF s <= N THEN s ELSE N
    BY StopsAreEnds
  <2> HIDE DEF end
  <2>2. s \in Int /\ s <= N + 1
    BY <1>1, <1>2
  <2>3. CASE s <= N
    BY <1>1, <1>2, <2>1, <2>2, <2>3
  <2>4. CASE ~(s <= N)
    <3>1. s = N + 1 /\ end = N /\ N \in Nat
      BY <1>1, <2>1, <2>2, <2>4
    <3> HIDE DEF N
    <3>2. end \in Int /\ end <= N /\ end <= s /\ s - 1 <= end /\ end # s
      BY <3>1
    <3> QED
      BY <3>2
  <2> QED
    BY <2>3, <2>4
<1> HIDE DEF end
<1>7. s \in Int /\ i \in Int /\ i >= 1 /\ i + 4 <= s
  BY <1>1, <1>2
<1>4. {k \in Places(file, {"line"}) : i <= k /\ k <= end} = (at + 1)..(at + L)
  <2>1. ASSUME NEW k \in 1..N, file[k].kind = "line", i <= k, k <= end
        PROVE  k \in (at + 1)..(at + L)
    <3>1. k # i /\ k # i + 1 /\ k # i + 2 /\ k # s
      BY <1>1, <1>3, <2>1
    <3>2. k \in Int /\ i + 3 <= k /\ k <= s - 1
      BY <1>3, <1>7, <2>1, <3>1
    <3> QED
      BY <1>7, <3>2
  <2>2. ASSUME NEW k \in (at + 1)..(at + L)
        PROVE  k \in 1..N /\ file[k].kind = "line" /\ i <= k /\ k <= end
    <3>1. k \in (i + 3)..(s - 1)
      BY <1>7
    <3>2. k \in 1..N /\ i <= k /\ k <= end
      BY <1>1, <1>3, <1>7, <3>1
    <3> QED
      BY <1>2, <3>1, <3>2
  <2> QED
    BY <1>1, <2>1, <2>2 DEF Places
<1>5. at \in Nat /\ L \in Nat \ {0} /\ at + L <= N /\ i \in Int /\ end \in Int
  <2>1. at + L = s - 1
    BY <1>7
  <2>2. s - 1 <= N
    BY <1>1, <1>3, <1>7
  <2> QED
    BY <1>3, <1>7, <2>1, <2>2
<1> HIDE DEF at, L
<1>6. FieldsBetween(i, end) = LinesAfter(at, L)
  BY <1>4, <1>5, FieldsOfPlaces
<1> QED
  BY <1>6 DEF Own, at, L, end

LEMMA FieldsOfComplete ==
  ASSUME IsSeq(file), NEW i, NEW s, NEW e, NEW m, IsMessage(m, i, s, e),
         s <= Len(file), file[s].kind = "close"
  PROVE  Fields(m) = LinesAfter(i + 2, s - i - 3)
<1> DEFINE c == s - i + 1
           L == s - i - 3
           text == SubSeq(m, 4, s - i)
<1>1. /\ i \in 1..Len(file) /\ s \in (i + 4)..(Len(file) + 1) /\ e \in (s - 1)..Len(file)
      /\ s <= e /\ IsSeq(m) /\ Len(m) = e - i + 1 /\ m[c].kind = "close"
      /\ (\A q \in 4..(s - i) : m[q].kind = "line") /\ m[3].kind = "open"
      /\ m[1].kind = "basic" /\ m[2].kind = "app"
      /\ AreLinesOf(text, i + 2, L)
  BY DEF IsMessage
<1>2. Len(file) \in Nat
  BY SeqShape
<1>3. /\ 3 \in 1..Len(m) /\ c \in 1..Len(m) /\ 3 < c /\ c - 1 = s - i /\ L \in Nat \ {0}
      /\ i + 2 \in Nat /\ 4 \in Int /\ s - i \in Int /\ 1 <= 4 /\ 4 <= s - i + 1
      /\ s - i <= Len(m) /\ s - i - 4 + 1 = L
  BY <1>1, <1>2
<1>4. \A q \in 1..(3 - 1) : m[q].kind \notin {"open", "ack"}
  <2>1. \A q \in 1..(3 - 1) : q = 1 \/ q = 2
    OBVIOUS
  <2> QED
    BY <1>1, <2>1
<1>5. \A q \in (3 + 1)..(c - 1) : m[q].kind # "close"
  <2>1. \A q \in (3 + 1)..(c - 1) : q \in 4..(s - i)
    BY <1>3
  <2> QED
    BY <1>1, <2>1
<1> HIDE DEF c
<1>6. TextBlock(m) = SubSeq(m, 3 + 1, c - 1)
  BY <1>1, <1>3, <1>4, <1>5, TextUpToEnd
<1>7. TextBlock(m) = text
  BY <1>3, <1>6
<1>8. IsSeq(text) /\ Len(text) = L
  <2> DEFINE b == s - i
  <2>1. b \in Int /\ 4 <= b + 1 /\ b <= Len(m) /\ b - 4 + 1 = L
    BY <1>3
  <2> HIDE DEF b, L
  <2>2. IsSeq(SubSeq(m, 4, b)) /\ Len(SubSeq(m, 4, b)) = b - 4 + 1
    BY <1>1, <2>1, PartOf
  <2> QED
    BY <2>1, <2>2 DEF b
<1> DEFINE at == i + 2
<1> HIDE DEF text, L, at
<1>9. FieldsIn(text) = LinesAfter(at, L)
  BY <1>1, <1>3, <1>8, FieldsOfLines DEF at
<1> QED
  BY <1>7, <1>9 DEF Fields, at, L

LEMMA SameSeq ==
  ASSUME NEW s, NEW t, IsSeq(s), IsSeq(t), Len(s) = Len(t), \A n \in 1..Len(s) : s[n] = t[n]
  PROVE  s = t
<1>1. PICK T : s \in Seq(T)
  BY DEF IsSeq
<1>2. PICK U : t \in Seq(U)
  BY DEF IsSeq
<1>3. s \in Seq(T \cup U) /\ t \in Seq(T \cup U)
  BY <1>1, <1>2, SeqMonotonic
<1> QED
  BY <1>3, SeqEqual

LEMMA PrefixIs ==
  ASSUME NEW s, NEW t, IsSeq(s), IsSeq(t), Len(s) <= Len(t), \A n \in 1..Len(s) : s[n] = t[n]
  PROVE  IsPrefix(s, t)
<1> DEFINE L == Len(s)
           u == SubSeq(s, 1, L)
           v == SubSeq(t, 1, L)
<1>1. L \in Nat /\ Len(t) \in Nat /\ 1 \in Int /\ L \in Int /\ 1 <= 1 /\ 1 <= L + 1 /\ L <= Len(s)
  BY SeqShape
<1>2. L <= Len(t) /\ L - 1 + 1 = L
  BY <1>1
<1>3. IsSeq(u) /\ Len(u) = L - 1 + 1 /\ \A q \in 1..(L - 1 + 1) : u[q] = s[1 + q - 1]
  <2> HIDE DEF L
  <2> QED
    BY <1>1, PartOf
<1>4. IsSeq(v) /\ Len(v) = L - 1 + 1 /\ \A q \in 1..(L - 1 + 1) : v[q] = t[1 + q - 1]
  <2> HIDE DEF L
  <2> QED
    BY <1>1, <1>2, PartOf
<1>5. \A n \in 1..L : u[n] = v[n]
  <2> SUFFICES ASSUME NEW n \in 1..L PROVE u[n] = v[n]
    OBVIOUS
  <2> HIDE DEF u, v
  <2>1. n \in 1..(L - 1 + 1) /\ 1 + n - 1 = n
    BY <1>1
  <2> QED
    BY <1>3, <1>4, <2>1
<1> HIDE DEF u, v
<1>6. u = v
  <2> HIDE DEF L
  <2>1. Len(u) = L /\ Len(v) = L
    BY <1>1, <1>3, <1>4
  <2> QED
    BY <1>3, <1>4, <1>5, <2>1, SameSeq
<1> QED
  BY <1>6 DEF IsPrefix, u, v

LEMMA PrefixOfLines ==
  ASSUME NEW text, IsSeq(text), NEW at \in Nat, NEW L \in Nat \ {0}, L <= Len(text),
         AreLinesOf(text, at, L)
  PROVE  IsPrefix(LinesAfter(at, L), AsWritten(FieldsIn(text)))
<1> DEFINE places == Places(text, {"line"})
           lines == InOrder(places)
           C == Cardinality(places)
           fields == FieldsIn(text)
           written == AsWritten(fields)
           own == LinesAfter(at, L)
<1>1. Len(text) \in Nat /\ DOMAIN text = 1..Len(text) /\ places \in SUBSET (1..Len(text)) /\ C \in Nat
  BY SeqShape, PlacesAreIn
<1>2. BeginsWith(places, 1, L) /\ 1 \in 1..Len(text) /\ L \in 0..Len(text) /\ 1 <= L + 1
  <2>1. \A q \in 1..L : q \in 1..Len(text)
    BY <1>1
  <2>2. \A q \in 1..L : q \in places
    BY <1>1, <2>1 DEF AreLinesOf, Places
  <2> HIDE DEF places
  <2> QED
    BY <1>1, <2>2 DEF BeginsWith
<1>3. L <= C /\ \A n \in 1..L : lines[n] = n
  <2> HIDE DEF places
  <2>1. L - 1 + 1 <= Cardinality(places) /\ \A n \in 1..(L - 1 + 1) : InOrder(places)[n] = 1 + n - 1
    BY <1>1, <1>2, RunInOrder
  <2> QED
    BY <2>1
<1>4. DOMAIN lines = 1..C
  BY DEF InOrder
<1> DEFINE whole(n) == lines[n] + 1 \notin (DOMAIN text \ places)
<1>5. fields = [n \in 1..C |-> [tag |-> text[lines[n]].tag, value |-> text[lines[n]].value,
                                whole |-> whole(n)]]
  BY <1>4 DEF FieldsIn
<1> HIDE DEF lines, places, C, whole
<1>6. DOMAIN fields = 1..C
  BY <1>5
<1>7. ASSUME NEW n \in 1..L
      PROVE  [tag |-> fields[n].tag, value |-> fields[n].value, whole |-> TRUE]
             = [tag |-> file[at + n].tag, value |-> file[at + n].value, whole |-> TRUE]
  <2>1. n \in 1..C
    BY <1>1, <1>3
  <2>2. fields[n] = [tag |-> text[lines[n]].tag, value |-> text[lines[n]].value, whole |-> whole(n)]
    BY <1>5, <2>1
  <2>3. lines[n] = n /\ text[n] = file[at + n]
    BY <1>3 DEF AreLinesOf
  <2> HIDE DEF fields
  <2>4. fields[n].tag = text[lines[n]].tag /\ fields[n].value = text[lines[n]].value
    BY <2>2
  <2> QED
    BY <2>3, <2>4
<1>8. DOMAIN written = 1..C /\ written = [n \in 1..C |-> written[n]]
      /\ \A n \in 1..C : written[n] = [tag |-> fields[n].tag, value |-> fields[n].value, whole |-> TRUE]
  BY <1>6 DEF AsWritten
<1>9. IsSeq(own) /\ Len(own) = L
  BY LinesAreSeq
<1>10. \A n \in 1..L : own[n] = [tag |-> file[at + n].tag, value |-> file[at + n].value, whole |-> TRUE]
  BY DEF LinesAfter
<1> HIDE DEF written, own, fields
<1>11. IsSeq(written) /\ Len(written) = C
  BY <1>1, <1>8, SeqOfFunction
<1>12. \A n \in 1..L : own[n] = written[n]
  <2> SUFFICES ASSUME NEW n \in 1..L PROVE own[n] = written[n]
    OBVIOUS
  <2>1. n \in 1..C
    BY <1>1, <1>3
  <2> QED
    BY <1>7, <1>8, <1>10, <2>1
<1>13. IsPrefix(own, written)
  BY <1>3, <1>9, <1>11, <1>12, PrefixIs
<1> QED
  BY <1>13 DEF own, written, fields

LEMMA NothingInOrder == DOMAIN InOrder({}) = {}
<1>1. Cardinality({}) = 0
  BY FS_EmptySet
<1> QED
  BY <1>1 DEF InOrder

LEMMA NoFieldsInNothing == FieldsIn(<<>>) = <<>>
<1> DEFINE places == Places(<<>>, {"line"})
<1>1. places = {}
  BY DEF Places
<1> HIDE DEF places
<1>2. DOMAIN InOrder(places) = {}
  BY <1>1, NothingInOrder
<1> QED
  BY <1>2 DEF FieldsIn, places

LEMMA FieldsOfCut ==
  ASSUME IsSeq(file), NEW i, NEW s, NEW e, NEW m, IsMessage(m, i, s, e),
         s <= Len(file) => file[s].kind = "basic"
  PROVE  Fields(m) = <<>> \/ IsPrefix(LinesAfter(i + 2, s - i - 3), AsWritten(Fields(m)))
<1> DEFINE N == Len(file)
           L == s - i - 3
           opens == Places(m, {"open", "ack"})
           closes == ClosesAfter(m, 3)
<1>1. /\ i \in 1..N /\ s \in (i + 4)..(N + 1) /\ e \in (s - 1)..N
      /\ s <= N => s <= e
      /\ IsSeq(m) /\ Len(m) = e - i + 1
      /\ s <= N => m[s - i + 1].kind = "basic"
      /\ (\A q \in 4..(s - i) : m[q].kind = "line") /\ m[3].kind = "open"
      /\ m[1].kind = "basic" /\ m[2].kind = "app"
      /\ AreLinesOf(SubSeq(m, 4, s - i), i + 2, L)
  BY DEF IsMessage
<1>2. N \in Nat /\ DOMAIN m = 1..Len(m)
  BY <1>1, SeqShape
<1>3. /\ i \in Int /\ s \in Int /\ e \in Int /\ i >= 1 /\ s >= i + 4 /\ s <= N + 1
      /\ s - 1 <= e /\ e <= N
  BY <1>1, <1>2
<1>4. First(opens) = 3 /\ opens # {}
  <2>1. 3 \in opens /\ opens \in SUBSET Int
    BY <1>1, <1>2, <1>3 DEF Places
  <2>2. \A q \in opens : 3 <= q
    <3> SUFFICES ASSUME NEW q \in opens, ~(3 <= q) PROVE FALSE
      OBVIOUS
    <3>1. q \in Int /\ q >= 1 /\ m[q].kind \in {"open", "ack"}
      BY <1>1, <1>2, <1>3 DEF Places
    <3>2. q = 1 \/ q = 2
      BY <3>1
    <3> QED
      BY <1>1, <3>1, <3>2
  <2> HIDE DEF opens
  <2> QED
    BY <2>1, <2>2, FirstIs
<1>5. TextBlock(m) = IF closes = {} THEN <<>> ELSE SubSeq(m, 4, First(closes) - 1)
  <2>1. First(opens) + 1 = 4
    BY <1>4
  <2> HIDE DEF opens
  <2>2. TextBlock(m) = IF ClosesAfter(m, First(opens)) = {} THEN <<>>
                       ELSE SubSeq(m, First(opens) + 1, First(ClosesAfter(m, First(opens))) - 1)
    BY <1>4 DEF TextBlock, opens
  <2> QED
    BY <1>4, <2>1, <2>2
<1>6. CASE closes = {}
  BY <1>5, <1>6, NoFieldsInNothing DEF Fields
<1>7. CASE closes # {}
  <2> DEFINE c == First(closes)
             text == SubSeq(m, 4, c - 1)
  <2>1. c \in 1..Len(m) /\ m[c].kind = "close" /\ c > 3
    <3>1. closes \in SUBSET (1..Len(m)) /\ \A q \in closes : m[q].kind = "close" /\ q > 3
      BY <1>2 DEF ClosesAfter, Places
    <3>2. Len(m) \in Nat
      BY <1>1, SeqShape
    <3> HIDE DEF closes
    <3>3. c \in closes /\ c \in 1..Len(m)
      BY <1>7, <3>1, <3>2, FirstIsIn
    <3> QED
      BY <3>1, <3>3
  <2>2. TextBlock(m) = text
    BY <1>5, <1>7
  <2> HIDE DEF c
  <2>3. c \notin 4..(s - i) /\ (s <= N => c # s - i + 1)
    BY <1>1, <2>1
  <2>4. c \in Int /\ c >= s - i + 1 /\ c <= e - i + 1
    BY <1>1, <1>3, <2>1, <2>3
  <2>5. c >= s - i + 2
    <3>1. CASE s <= N
      BY <1>3, <2>3, <2>4, <3>1
    <3>2. CASE ~(s <= N)
      <4>1. N \in Int
        BY <1>2
      <4> HIDE DEF N
      <4>2. e <= s - 1
        BY <1>3, <3>2, <4>1
      <4> QED
        BY <1>3, <2>4, <4>2
    <3> QED
      BY <3>1, <3>2
  <2> DEFINE b == c - 1
             d == s - i
  <2>6. /\ b \in Int /\ 4 <= b + 1 /\ b <= Len(m) /\ 1 <= 4 /\ 4 \in Int /\ b - 4 + 1 = c - 4
        /\ d \in Int /\ 4 <= d + 1 /\ d <= Len(m) /\ d - 4 + 1 = L /\ L \in Nat \ {0} /\ L <= c - 4
        /\ i + 2 \in Nat /\ Len(m) \in Nat
    BY <1>1, <1>3, <2>4, <2>5
  <2> DEFINE own == SubSeq(m, 4, d)
             at == i + 2
  <2>7. AreLinesOf(own, at, L)
    BY <1>1
  <2> HIDE DEF b, d, L, at
  <2>8. /\ IsSeq(text) /\ Len(text) = b - 4 + 1
        /\ \A q \in 1..(b - 4 + 1) : text[q] = m[4 + q - 1]
    BY <1>1, <2>6, PartOf DEF b
  <2>9. \A q \in 1..(d - 4 + 1) : own[q] = m[4 + q - 1]
    BY <1>1, <2>6, PartOf
  <2> HIDE DEF text, own
  <2>10. AreLinesOf(text, at, L)
    <3> SUFFICES ASSUME NEW n \in 1..L PROVE text[n] = file[at + n] /\ file[at + n].kind = "line"
      BY DEF AreLinesOf
    <3>1. n \in 1..(d - 4 + 1) /\ n \in 1..(b - 4 + 1)
      BY <2>4, <2>6
    <3>2. text[n] = own[n]
      BY <2>8, <2>9, <3>1
    <3> QED
      BY <2>7, <3>2 DEF AreLinesOf
  <2>11. IsPrefix(LinesAfter(at, L), AsWritten(FieldsIn(text)))
    BY <2>6, <2>8, <2>10, PrefixOfLines DEF at
  <2> QED
    BY <2>2, <2>11 DEF Fields, at, L
<1> QED
  BY <1>6, <1>7

LEMMA InOrderIsSeq ==
  ASSUME NEW S, Cardinality(S) \in Nat
  PROVE  IsSeq(InOrder(S)) /\ Len(InOrder(S)) = Cardinality(S)
<1> DEFINE C == Cardinality(S)
           e == InOrder(S)
           nth(n) == CHOOSE i \in S : Cardinality({j \in S : j < i}) = n - 1
<1>1. DOMAIN e = 1..C /\ e = [n \in 1..C |-> e[n]]
  <2>1. e = [n \in 1..C |-> nth(n)]
    BY DEF InOrder
  <2> HIDE DEF nth, C, e
  <2> QED
    BY <2>1
<1> HIDE DEF e, C
<1>2. C \in Nat
  BY DEF C
<1>3. IsSeq(e) /\ Len(e) = C
  BY <1>1, <1>2, SeqOfFunction
<1> QED
  BY <1>3 DEF e, C

(* Pieces with a header are the messages before which nothing is open. *)
LEMMA AcknowledgementsAreDropped ==
  ASSUME IsSeq(file), IsEnveloped(file), NEW i \in Starts(file), i \notin Messages
  PROVE  ~HasHeader(Piece(file, Starts(file), i))
<1> DEFINE N == Len(file)
           later == {j \in Starts(file) : j > i}
           a == i + 1
           b == i + 2
           m == SubSeq(file, i, a)
<1>1. N \in Nat /\ DOMAIN file = 1..N /\ i \in 1..N /\ file[i].kind = "basic"
  BY SeqShape, WhereMessagesStart DEF IsStart
<1>2. a \in 1..N /\ file[a].kind \in {"app", "ack"}
  BY <1>1, WhatStandsAfter
<1>3. file[a].kind = "ack"
  <2>1. i < N
    BY <1>1, <1>2
  <2> QED
    BY <1>1, <1>2, <2>1 DEF Messages, Places
<1>4. b \in 1..N /\ file[b].kind = "basic"
  <2>1. a + 1 = b
    BY <1>1
  <2> HIDE DEF a
  <2> QED
    BY <1>2, <1>3, <2>1, WhatStandsAfter
<1>5. b \in later
  <2>1. b - 1 = a /\ b > i
    BY <1>1
  <2> HIDE DEF a, b
  <2>2. IsStart(b)
    BY <1>3, <1>4, <2>1 DEF IsStart
  <2> QED
    BY <1>4, <2>1, <2>2, WhereMessagesStart
<1>6. \A j \in later : b <= j
  <2> SUFFICES ASSUME NEW j \in Starts(file), j > i, ~(b <= j) PROVE FALSE
    OBVIOUS
  <2>1. j \in 1..N /\ file[j].kind = "basic"
    BY WhereMessagesStart DEF IsStart
  <2>2. j = a
    BY <1>1, <2>1
  <2> QED
    BY <1>3, <2>1, <2>2
<1>7. later \in SUBSET Int
  BY WhereMessagesStart
<1> HIDE DEF later
<1>8. First(later) = b /\ later # {}
  BY <1>5, <1>6, <1>7, FirstIs
<1>9. Piece(file, Starts(file), i) = m
  <2>1. b - 1 = a
    BY <1>1
  <2>2. Piece(file, Starts(file), i) = SubSeq(file, i, First(later) - 1)
    BY <1>8 DEF Piece, later
  <2> HIDE DEF a, b
  <2> QED
    BY <1>8, <2>1, <2>2
<1>10. IsSeq(m) /\ Len(m) = a - i + 1 /\ \A q \in 1..(a - i + 1) : m[q] = file[i + q - 1]
  <2>1. i \in Int /\ a \in Int /\ 1 <= i /\ i <= a + 1 /\ a <= N
    BY <1>1, <1>2
  <2> HIDE DEF a, N
  <2> QED
    BY <2>1, PartOf DEF N
<1> HIDE DEF m
<1>11. DOMAIN m = 1..2 /\ m[1] = file[i] /\ m[2] = file[a]
  <2>1. a - i + 1 = 2 /\ i + 1 - 1 = i /\ i + 2 - 1 = a /\ 1 \in 1..2 /\ 2 \in 1..2
    BY <1>1
  <2>2. DOMAIN m = 1..Len(m)
    BY <1>10, SeqShape
  <2> HIDE DEF a
  <2> QED
    BY <1>10, <2>1, <2>2
<1>12. Places(m, {"app"}) = {}
  <2>1. \A q \in 1..2 : q = 1 \/ q = 2
    OBVIOUS
  <2> QED
    BY <1>1, <1>3, <1>11, <2>1 DEF Places
<1> QED
  BY <1>9, <1>12 DEF HasHeader

LEMMA KeptAreClean ==
  ASSUME IsSeq(file), IsEnveloped(file)
  PROVE  {i \in Starts(file) : HasHeader(Piece(file, Starts(file), i))}
         = {i \in Messages : BeginsClean(i)}
<1>1. ASSUME NEW i \in Starts(file), HasHeader(Piece(file, Starts(file), i))
      PROVE  i \in Messages /\ BeginsClean(i)
  <2>1. i \in Messages
    BY <1>1, AcknowledgementsAreDropped
  <2>2. IsStart(i)
    BY WhereMessagesStart
  <2> QED
    BY <2>1, <2>2, CleanOnesStart
<1>2. ASSUME NEW i \in Messages, BeginsClean(i)
      PROVE  i \in Starts(file) /\ HasHeader(Piece(file, Starts(file), i))
  <2>1. IsStart(i)
    BY <1>2, CleanOnesStart
  <2>2. i \in 1..Len(file)
    BY MessageHeads
  <2>3. PICK s : IsStop(i, s)
    BY LinesStop
  <2>4. PICK e : IsMessage(Piece(file, Starts(file), i), i, s, e)
    BY <2>3, PieceIsMessage
  <2>5. HasHeader(Piece(file, Starts(file), i))
    BY <2>4, HeadOfMessage
  <2> QED
    BY <2>1, <2>2, <2>5, WhereMessagesStart
<1> QED
  BY <1>1, <1>2

LEMMA MessageIsExact ==
  ASSUME IsSeq(file), IsEnveloped(file), NEW i \in Messages
  PROVE  LET m == Piece(file, Starts(file), i)
         IN /\ TypeOf(m) = file[i + 1].tag
            /\ IF Complete(i) THEN Fields(m) = Own(i)
               ELSE Fields(m) = <<>> \/ IsPrefix(Own(i), AsWritten(Fields(m)))
<1> DEFINE m == Piece(file, Starts(file), i)
<1>1. PICK s : IsStop(i, s)
  BY LinesStop
<1>2. PICK e : IsMessage(m, i, s, e)
  BY <1>1, PieceIsMessage
<1> HIDE DEF m
<1>3. TypeOf(m) = file[i + 1].tag
  BY <1>2, HeadOfMessage
<1>4. Own(i) = LinesAfter(i + 2, s - i - 3)
  BY <1>1, OwnFields
<1>5. Complete(i) <=> s <= Len(file) /\ file[s].kind = "close"
  BY <1>1, StopsAreEnds
<1>6. CASE Complete(i)
  BY <1>2, <1>3, <1>4, <1>5, <1>6, FieldsOfComplete DEF m
<1>7. CASE ~Complete(i)
  <2>1. s <= Len(file) => file[s].kind = "basic"
    BY <1>1, <1>5, <1>7 DEF IsStop
  <2>2. Fields(m) = <<>> \/ IsPrefix(LinesAfter(i + 2, s - i - 3), AsWritten(Fields(m)))
    BY <1>2, <2>1, FieldsOfCut
  <2> QED
    BY <1>3, <1>4, <1>7, <2>2 DEF m
<1> QED
  BY <1>6, <1>7

LEMMA EnvelopedAreLoaded ==
  ASSUME IsSeq(file), IsEnveloped(file), \E i \in Messages : BeginsClean(i), loaded = Load(file)
  PROVE  EnvelopedAreExact
<1> DEFINE set == {i \in Messages : BeginsClean(i)}
           clean == InOrder(set)
           C == Cardinality(set)
           piece(i) == Piece(file, Starts(file), i)
           split == Split(file)
<1>1. Len(file) \in Nat /\ set \in SUBSET (1..Len(file)) /\ set # {}
  BY MessageHeads, SeqShape
<1>2. /\ C \in Nat /\ DOMAIN clean = 1..C
      /\ \A n \in 1..C : clean[n] \in Messages
  <2> HIDE DEF set
  <2>1. C \in Nat /\ DOMAIN clean = 1..C /\ \A n \in 1..C : clean[n] \in set
    BY <1>1, NthIsIn
  <2> QED
    BY <2>1 DEF set
<1>3. C # 0
  <2>1. 1 \in Int /\ Len(file) \in Int
    BY <1>1
  <2> HIDE DEF set
  <2>2. IsFiniteSet(set)
    BY <1>1, <2>1, Numbers
  <2> QED
    BY <1>1, <2>2, FS_EmptySet
<1>4. Len(clean) = C
  BY <1>2, InOrderIsSeq
<1>5. split = [n \in 1..C |-> piece(clean[n])]
  <2>1. clean = InOrder({i \in Starts(file) : HasHeader(Piece(file, Starts(file), i))})
    BY KeptAreClean
  <2> HIDE DEF clean
  <2> QED
    BY <1>2, <2>1 DEF Split
<1> HIDE DEF clean, C, set, piece
<1>7. DOMAIN split = 1..C /\ \A n \in 1..C : split[n] = piece(clean[n])
  BY <1>5
<1>8. split # <<>>
  <2>1. 1 \in DOMAIN split
    BY <1>2, <1>3, <1>7
  <2> HIDE DEF split
  <2> QED
    BY <2>1
<1>9. loaded = [n \in DOMAIN split |-> [type |-> TypeOf(split[n]), fields |-> Fields(split[n])]]
  BY <1>8, Zenon DEF Load
<1> HIDE DEF split
<1>10. /\ DOMAIN loaded = 1..C /\ loaded = [n \in 1..C |-> loaded[n]]
       /\ \A n \in 1..C : /\ loaded[n].type = TypeOf(piece(clean[n]))
                          /\ loaded[n].fields = Fields(piece(clean[n]))
  BY <1>7, <1>9
<1>11. Len(loaded) = C
  BY <1>2, <1>10, SeqOfFunction
<1>12. ASSUME NEW n \in DOMAIN loaded
       PROVE  /\ loaded[n].type = file[clean[n] + 1].tag
              /\ IF Complete(clean[n]) THEN loaded[n].fields = Own(clean[n])
                 ELSE \/ loaded[n].fields = <<>>
                      \/ IsPrefix(Own(clean[n]), AsWritten(loaded[n].fields))
  <2> DEFINE i == clean[n]
  <2>1. n \in 1..C /\ i \in Messages
    BY <1>2, <1>10
  <2>2. loaded[n].type = TypeOf(piece(i)) /\ loaded[n].fields = Fields(piece(i))
    BY <1>10, <2>1
  <2> HIDE DEF i
  <2>3. /\ TypeOf(piece(i)) = file[i + 1].tag
        /\ IF Complete(i) THEN Fields(piece(i)) = Own(i)
           ELSE Fields(piece(i)) = <<>> \/ IsPrefix(Own(i), AsWritten(Fields(piece(i))))
    BY <2>1, MessageIsExact DEF piece
  <2> QED
    BY <2>2, <2>3 DEF i
<1> QED
  BY <1>4, <1>11, <1>12 DEF EnvelopedAreExact, clean, set

-----------------------------------------------------------------------------
(* Files of statements without envelopes. *)

LEMMA BareLines ==
  ASSUME IsSeq(file), IsBare(file), NEW p \in 1..Len(file)
  PROVE  /\ file[p].kind \in {"words", "line", "dash"}
         /\ file[p].kind = "words" => p = 1
         /\ p > 1 /\ file[p - 1].kind = "dash" => file[p].kind = "line" /\ file[p].tag = "20"
         /\ p > 1 /\ file[p - 1].kind = "line" /\ file[p - 1].tag = "20" /\ file[p].kind = "line" =>
              file[p].tag = "25"
<1>1. IsBareAt(file, p)
  BY DEF IsBare
<1>2. file[p].kind \in {"words", "line", "dash"} /\ (file[p].kind = "words" => p = 1)
  BY <1>1 DEF IsBareAt, IsOther
<1>3. ASSUME p > 1, file[p - 1].kind = "dash" PROVE file[p].kind = "line" /\ file[p].tag = "20"
  BY <1>1, <1>3 DEF IsBareAt, IsOther
<1>4. ASSUME p > 1, file[p - 1].kind = "line", file[p - 1].tag = "20", file[p].kind = "line"
      PROVE  file[p].tag = "25"
  BY <1>1, <1>4 DEF IsBareAt, IsOther
<1> QED
  BY <1>2, <1>3, <1>4

PieceEnd(i) ==
  LET later == {j \in References(file) : j > i}
  IN IF later = {} THEN Len(file) ELSE First(later) - 1

(* The lines of a statement: up to its end, or to the dash there. *)
LastLine(i) == IF file[PieceEnd(i)].kind = "dash" THEN PieceEnd(i) - 1 ELSE PieceEnd(i)

LEMMA StatementLines ==
  ASSUME IsSeq(file), IsBare(file), NEW i \in References(file)
  PROVE  /\ Len(file) \in Nat /\ i \in 1..Len(file) /\ PieceEnd(i) \in i..Len(file)
         /\ file[i].kind = "line" /\ file[i].tag = "20"
         /\ LastLine(i) \in i..PieceEnd(i)
         /\ \A p \in i..LastLine(i) : file[p].kind = "line"
         /\ \A p \in (LastLine(i) + 1)..PieceEnd(i) : file[p].kind = "dash"
<1> DEFINE N == Len(file)
           later == {j \in References(file) : j > i}
           end == PieceEnd(i)
<1>1. N \in Nat /\ DOMAIN file = 1..N /\ i \in 1..N /\ file[i].kind = "line" /\ file[i].tag = "20"
  BY SeqShape DEF References, Places
<1>2. later \in SUBSET (1..N)
  BY <1>1 DEF References, Places
<1>3. end \in i..N /\ \A j \in later : end < j
  <2>1. CASE later = {}
    BY <1>1, <2>1 DEF PieceEnd
  <2>2. CASE later # {}
    <3>1. end = First(later) - 1
      BY <2>2 DEF PieceEnd
    <3>2. First(later) \in later /\ First(later) \in 1..N
      <4> HIDE DEF later
      <4> QED
        BY <1>1, <1>2, <2>2, FirstIsIn
    <3>3. \A j \in later : First(later) <= j
      <4>1. later \in SUBSET Nat
        BY <1>2
      <4> HIDE DEF later
      <4>2. \E k \in later : \A j \in later : k <= j
        BY <2>2, <4>1, Least
      <4> QED
        BY <4>2 DEF First
    <3>4. First(later) > i
      BY <3>2
    <3> DEFINE f == First(later)
    <3> HIDE DEF f, end
    <3>5. end = f - 1 /\ f \in 1..N /\ f > i /\ \A j \in later : f <= j
      BY <3>1, <3>2, <3>3, <3>4 DEF f
    <3> HIDE DEF later
    <3> QED
      BY <1>1, <1>2, <3>5
  <2> QED
    BY <2>1, <2>2
<1> HIDE DEF end
<1>4. ASSUME NEW p \in i..N, p < end PROVE file[p].kind = "line"
  <2> DEFINE q == p + 1
  <2>1. p \in 1..N /\ q \in 1..N /\ q > 1 /\ q - 1 = p /\ q > i /\ q <= end
    BY <1>1, <1>3, <1>4
  <2> HIDE DEF q
  <2>2. file[p].kind # "words"
    <3> SUFFICES ASSUME file[p].kind = "words" PROVE FALSE
      OBVIOUS
    <3>1. p = 1
      BY <2>1, BareLines
    <3>2. i = 1
      BY <1>1, <3>1
    <3> QED
      BY <1>1, <3>1, <3>2
  <2>3. file[p].kind # "dash"
    <3> SUFFICES ASSUME file[p].kind = "dash" PROVE FALSE
      OBVIOUS
    <3>1. file[q - 1].kind = "dash"
      BY <2>1
    <3>2. file[q].kind = "line" /\ file[q].tag = "20"
      BY <2>1, <3>1, BareLines
    <3>3. q \in later
      BY <1>1, <2>1, <3>2 DEF References, Places
    <3>4. end < q
      BY <1>3, <3>3
    <3>5. end \in Int /\ q \in Int
      BY <1>3, <2>1
    <3> QED
      BY <2>1, <3>4, <3>5
  <2> QED
    BY <2>1, <2>2, <2>3, BareLines
<1> HIDE DEF later
<1> DEFINE last == LastLine(i)
<1>5. end \in 1..N /\ file[end].kind \in {"words", "line", "dash"}
  <2>1. end \in 1..N
    BY <1>1, <1>3
  <2> QED
    BY <2>1, BareLines
<1>6. file[end].kind # "words"
  <2> SUFFICES ASSUME file[end].kind = "words" PROVE FALSE
    OBVIOUS
  <2>1. end = 1
    BY <1>5, BareLines
  <2>2. i = 1
    BY <1>1, <1>3, <2>1
  <2> QED
    BY <1>1, <2>1, <2>2
<1>7. CASE file[end].kind = "line"
  <2>1. last = end
    BY <1>7 DEF LastLine, end
  <2> HIDE DEF last
  <2>2. \A p \in i..end : p \in i..N /\ (p = end \/ p < end)
    BY <1>1, <1>3
  <2>3. \A p \in i..end : file[p].kind = "line"
    BY <1>4, <1>7, <2>2
  <2>4. \A p \in (end + 1)..end : FALSE
    BY <1>3
  <2>5. end \in i..end
    BY <1>1, <1>3
  <2> QED
    BY <1>1, <1>3, <2>1, <2>3, <2>4, <2>5 DEF end, last
<1>8. CASE file[end].kind = "dash"
  <2>1. last = end - 1
    BY <1>8 DEF LastLine, end
  <2> HIDE DEF last
  <2>2. end # i
    BY <1>1, <1>8
  <2>3. /\ last \in i..end /\ \A p \in i..last : p \in i..N /\ p < end
        /\ \A p \in (last + 1)..end : p = end
    BY <1>1, <1>3, <2>1, <2>2
  <2>4. \A p \in i..last : file[p].kind = "line"
    BY <1>4, <2>3
  <2>5. \A p \in (last + 1)..end : file[p].kind = "dash"
    BY <1>8, <2>3
  <2> QED
    BY <1>1, <1>3, <2>3, <2>4, <2>5 DEF end, last
<1> QED
  BY <1>5, <1>6, <1>7, <1>8

LEMMA StatementFields ==
  ASSUME IsSeq(file), IsBare(file), NEW i \in References(file)
  PROVE  FieldsBetween(i, PieceEnd(i)) = LinesAfter(i - 1, LastLine(i) - i + 1)
<1> DEFINE N == Len(file)
           end == PieceEnd(i)
           last == LastLine(i)
           at == i - 1
           L == last - i + 1
<1>1. /\ N \in Nat /\ i \in 1..N /\ end \in i..N /\ last \in i..end /\ DOMAIN file = 1..N
      /\ (\A p \in i..last : file[p].kind = "line")
      /\ (\A p \in (last + 1)..end : file[p].kind = "dash")
  BY StatementLines, SeqShape
<1> HIDE DEF end, last
<1>2. /\ at \in Nat /\ L \in Nat \ {0} /\ at + L <= N /\ i \in Int /\ end \in Int
      /\ (at + 1)..(at + L) = i..last
  <2>1. at + 1 = i /\ at + L = last
    BY <1>1
  <2> QED
    BY <1>1, <2>1
<1>3. {k \in Places(file, {"line"}) : i <= k /\ k <= end} = i..last
  <2>1. ASSUME NEW k \in 1..N, file[k].kind = "line", i <= k, k <= end
        PROVE  k \in i..last
    <3>1. k \notin (last + 1)..end
      BY <1>1, <2>1
    <3> QED
      BY <1>1, <2>1, <3>1
  <2>2. ASSUME NEW k \in i..last
        PROVE  k \in 1..N /\ file[k].kind = "line" /\ i <= k /\ k <= end
    BY <1>1
  <2> QED
    BY <1>1, <2>1, <2>2 DEF Places
<1> HIDE DEF at, L
<1>5. {k \in Places(file, {"line"}) : i <= k /\ k <= end} = (at + 1)..(at + L)
  BY <1>2, <1>3
<1>4. FieldsBetween(i, end) = LinesAfter(at, L)
  BY <1>2, <1>5, FieldsOfPlaces
<1> QED
  BY <1>4 DEF at, L, end, last

(* What the piece of a statement holds. *)
LEMMA StatementPiece ==
  ASSUME IsSeq(file), IsBare(file), NEW i \in References(file)
  PROVE  LET m == Piece(file, References(file), i)
         IN /\ IsSeq(m) /\ Len(m) = PieceEnd(i) - i + 1
            /\ \A q \in 1..(PieceEnd(i) - i + 1) : m[q] = file[i + q - 1]
<1> DEFINE end == PieceEnd(i)
           m == Piece(file, References(file), i)
<1>1. m = SubSeq(file, i, end)
  BY DEF Piece, PieceEnd
<1>2. Len(file) \in Nat /\ i \in 1..Len(file) /\ end \in i..Len(file)
  BY StatementLines
<1> HIDE DEF end, m
<1>3. i \in Int /\ end \in Int /\ 1 <= i /\ i <= end + 1 /\ end <= Len(file)
  BY <1>2
<1>4. IsSeq(m) /\ Len(m) = end - i + 1 /\ \A q \in 1..(end - i + 1) : m[q] = file[i + q - 1]
  BY <1>1, <1>3, PartOf
<1> QED
  BY <1>4 DEF end, m

LEMMA NamedAreTagged ==
  ASSUME IsSeq(file), IsBare(file), NEW i \in References(file)
  PROVE  Tagged(Piece(file, References(file), i), {"25"}) <=> Len(FieldsBetween(i, PieceEnd(i))) > 1
<1> DEFINE N == Len(file)
           end == PieceEnd(i)
           last == LastLine(i)
           m == Piece(file, References(file), i)
           L == last - i + 1
<1>1. /\ N \in Nat /\ i \in 1..N /\ end \in i..N /\ last \in i..end
      /\ (\A p \in i..last : file[p].kind = "line")
      /\ (\A p \in (last + 1)..end : file[p].kind = "dash")
      /\ file[i].kind = "line" /\ file[i].tag = "20"
  BY StatementLines
<1>2. IsSeq(m) /\ Len(m) = end - i + 1 /\ \A q \in 1..(end - i + 1) : m[q] = file[i + q - 1]
  BY StatementPiece
<1>3. DOMAIN m = 1..(end - i + 1)
  <2> HIDE DEF m
  <2> QED
    BY <1>2, SeqShape
<1>4. Len(FieldsBetween(i, end)) = L
  <2>1. L \in Nat
    <3> HIDE DEF last, end
    <3> QED
      BY <1>1
  <2>2. FieldsBetween(i, end) = LinesAfter(i - 1, L)
    BY StatementFields
  <2> HIDE DEF L
  <2> QED
    BY <2>1, <2>2, LinesAreSeq
<1> HIDE DEF m, end, last
<1>5. ASSUME Tagged(m, {"25"}) PROVE L > 1
  <2>1. PICK q \in 1..(end - i + 1) : m[q].kind = "line" /\ m[q].tag = "25"
    BY <1>3, <1>5 DEF Tagged, Places
  <2> DEFINE p == i + q - 1
  <2>2. file[p].kind = "line" /\ file[p].tag = "25" /\ p \in i..end
    BY <1>1, <1>2, <2>1
  <2> HIDE DEF p
  <2>3. p # i /\ p \notin (last + 1)..end
    BY <1>1, <2>2
  <2>4. i < last
    BY <1>1, <2>2, <2>3
  <2> QED
    BY <1>1, <2>4
<1>6. ASSUME L > 1 PROVE Tagged(m, {"25"})
  <2> DEFINE p == i + 1
  <2>1. p \in i..last /\ p \in 1..N /\ p > 1 /\ p - 1 = i /\ 2 \in 1..(end - i + 1) /\ i + 2 - 1 = p
    BY <1>1, <1>6
  <2>2. m[2] = file[p]
    BY <1>2, <2>1
  <2> HIDE DEF p
  <2>3. file[p].kind = "line"
    BY <1>1, <2>1
  <2>4. file[p].tag = "25"
    <3>1. file[p - 1].kind = "line" /\ file[p - 1].tag = "20"
      BY <1>1, <2>1
    <3> QED
      BY <2>1, <2>3, <3>1, BareLines
  <2> QED
    BY <1>3, <2>1, <2>2, <2>3, <2>4 DEF Tagged, Places
<1>7. L > 1 <=> Len(FieldsBetween(i, end)) > 1
  BY <1>4
<1> QED
  BY <1>5, <1>6, <1>7 DEF m, end


(* A sequence in the middle of two others. *)
IsFramed(w, h, l, t) ==
  /\ IsSeq(w) /\ Len(w) = Len(h) + Len(l) + 1
  /\ \A p \in 1..Len(h) : w[p] = h[p]
  /\ \A q \in 1..Len(l) : w[Len(h) + q] = l[q]
  /\ w[Len(h) + Len(l) + 1] = t[1]

LEMMA Framing ==
  ASSUME NEW w, NEW h, NEW l, NEW t, IsSeq(h), IsSeq(l), IsSeq(t), Len(t) = 1, w = (h \o l) \o t
  PROVE  IsFramed(w, h, l, t)
<1> DEFINE f == h \o l
<1>1. /\ IsSeq(f) /\ Len(f) = Len(h) + Len(l)
      /\ \A p \in 1..Len(h) : f[p] = h[p]
      /\ \A q \in 1..Len(l) : f[Len(h) + q] = l[q]
  BY Joining
<1>2. Len(h) \in Nat /\ Len(l) \in Nat
  BY SeqShape
<1>3. w = f \o t
  OBVIOUS
<1> HIDE DEF f
<1>4. /\ IsSeq(w) /\ Len(w) = Len(f) + Len(t)
      /\ \A p \in 1..Len(f) : w[p] = f[p]
  <2>1. /\ IsSeq(f \o t) /\ Len(f \o t) = Len(f) + Len(t)
        /\ \A p \in 1..Len(f) : (f \o t)[p] = f[p]
    <3>1. IsSeq(f)
      BY <1>1
    <3> QED
      BY <3>1, Joining
  <2> QED
    BY <1>3, <2>1
<1>5. w[Len(f) + 1] = t[1]
  BY <1>1, <1>3, JoinedLast
<1>6. ASSUME NEW p \in 1..Len(h) PROVE w[p] = h[p]
  <2>1. p \in 1..Len(f)
    BY <1>1, <1>2
  <2> QED
    BY <1>1, <1>4, <2>1
<1>7. ASSUME NEW q \in 1..Len(l) PROVE w[Len(h) + q] = l[q]
  <2>1. Len(h) + q \in 1..Len(f)
    BY <1>1, <1>2
  <2> QED
    BY <1>1, <1>4, <2>1
<1> QED
  BY <1>1, <1>4, <1>5, <1>6, <1>7 DEF IsFramed

(* A statement in its envelope has the lines it had. *)
LEMMA WrappedFields ==
  ASSUME IsSeq(file), IsBare(file), NEW i \in References(file)
  PROVE  Fields(Wrapped(Piece(file, References(file), i))) = FieldsBetween(i, PieceEnd(i))
<1> DEFINE N == Len(file)
           end == PieceEnd(i)
           last == LastLine(i)
           m == Piece(file, References(file), i)
           at == i - 1
           L == last - i + 1
           rest == DOMAIN m \ Places(m, {"dash", "close"})
           kept == InOrder(rest)
           head == Envelope(BareType(m))
           lines == [n \in DOMAIN kept |-> m[kept[n]]]
           tail == <<Block("close")>>
           w == Wrapped(m)
<1>1. /\ N \in Nat /\ i \in 1..N /\ end \in i..N /\ last \in i..end
      /\ (\A p \in i..last : file[p].kind = "line")
      /\ (\A p \in (last + 1)..end : file[p].kind = "dash")
  BY StatementLines
<1>2. IsSeq(m) /\ Len(m) = end - i + 1 /\ \A q \in 1..(end - i + 1) : m[q] = file[i + q - 1]
  BY StatementPiece
<1>3. w = (head \o lines) \o tail
  BY DEF Wrapped
<1> HIDE DEF m, end, last
<1>4. DOMAIN m = 1..(end - i + 1)
  BY <1>2, SeqShape
<1>5. L \in Nat \ {0} /\ L <= end - i + 1 /\ at \in Nat
  BY <1>1
<1>6. \A n \in 1..L : m[n] = file[at + n] /\ file[at + n].kind = "line"
  <2> SUFFICES ASSUME NEW n \in 1..L PROVE m[n] = file[at + n] /\ file[at + n].kind = "line"
    OBVIOUS
  <2>1. n \in 1..(end - i + 1) /\ i + n - 1 \in i..last /\ i + n - 1 = at + n
    BY <1>1
  <2> HIDE DEF at
  <2>2. m[n] = file[i + n - 1]
    BY <1>2, <2>1
  <2> QED
    BY <1>1, <2>1, <2>2
<1>7. rest = 1..L
  <2>1. ASSUME NEW q \in 1..(end - i + 1), q \notin 1..L PROVE m[q].kind = "dash"
    <3>1. i + q - 1 \in (last + 1)..end
      BY <1>1, <2>1
    <3> QED
      BY <1>1, <1>2, <3>1
  <2>2. ASSUME NEW q \in 1..L PROVE q \in 1..(end - i + 1) /\ m[q].kind \notin {"dash", "close"}
    <3>1. q \in 1..(end - i + 1)
      BY <1>1
    <3>2. m[q].kind = "line"
      BY <1>6
    <3> QED
      BY <3>1, <3>2
  <2> HIDE DEF L
  <2> QED
    BY <1>4, <2>1, <2>2 DEF Places
<1>8. Cardinality(rest) = L
  <2> HIDE DEF rest, L
  <2>2. 1 \in Int /\ L \in Int
    BY <1>5
  <2>1. Cardinality(1..L) = IF 1 > L THEN 0 ELSE L - 1 + 1
    BY <2>2, FS_Interval
  <2> QED
    BY <1>5, <1>7, <2>1
<1> HIDE DEF L, at
<1>9. IsSeq(kept) /\ Len(kept) = L /\ DOMAIN kept = 1..L /\ \A n \in 1..L : kept[n] = n
  <2>1. /\ rest \in SUBSET (1..L) /\ 1 \in 1..L /\ L \in 0..L /\ 1 <= L + 1
        /\ BeginsWith(rest, 1, L)
    BY <1>5, <1>7 DEF BeginsWith
  <2> HIDE DEF rest
  <2>2. \A n \in 1..(L - 1 + 1) : InOrder(rest)[n] = 1 + n - 1
    BY <1>5, <2>1, RunInOrder
  <2>3. \A n \in 1..L : InOrder(rest)[n] = n
    BY <1>5, <2>2
  <2>4. IsSeq(InOrder(rest)) /\ Len(InOrder(rest)) = L
    BY <1>5, <1>8, InOrderIsSeq
  <2>5. DOMAIN InOrder(rest) = 1..L
    BY <2>4, SeqShape
  <2> QED
    BY <2>3, <2>4, <2>5
<1> HIDE DEF kept, rest
<1>10. IsSeq(lines) /\ Len(lines) = L /\ \A n \in 1..L : lines[n] = m[n]
  <2>1. DOMAIN lines = 1..L /\ lines = [n \in 1..L |-> lines[n]] /\ \A n \in 1..L : lines[n] = m[n]
    BY <1>9
  <2> HIDE DEF lines
  <2> QED
    BY <1>5, <2>1, SeqOfFunction
<1>11. /\ IsSeq(head) /\ Len(head) = 3 /\ head[1].kind = "basic" /\ head[2].kind = "app"
       /\ head[3].kind = "open"
  <2> DEFINE b == Block("basic")
             a == Token("app", BareType(m), NoValue)
             o == Block("open")
  <2>1. b.kind = "basic" /\ a.kind = "app" /\ o.kind = "open"
    BY DEF Block, Token
  <2>2. head = <<b, a, o>>
    BY DEF Envelope
  <2> HIDE DEF b, a, o, head
  <2> QED
    BY <2>1, <2>2, ShortSeqs
<1>12. IsSeq(tail) /\ Len(tail) = 1 /\ tail[1].kind = "close"
  <2>1. IsSeq(tail) /\ Len(tail) = 1 /\ tail[1] = Block("close")
    BY ShortSeqs
  <2> QED
    BY <2>1 DEF Block, Token
<1> HIDE DEF head, lines, tail, w
<1>13. IsFramed(w, head, lines, tail)
  BY <1>3, <1>10, <1>11, <1>12, Framing
<1>14. /\ IsSeq(w) /\ Len(w) = 3 + L + 1 /\ w[3 + L + 1] = tail[1]
       /\ \A p \in 1..3 : w[p] = head[p]
  BY <1>10, <1>11, <1>13 DEF IsFramed
<1> DEFINE c == L + 4
<1>15. /\ 3 \in 1..Len(w) /\ c \in 1..Len(w) /\ 3 < c /\ c - 1 = L + 3 /\ c = 3 + L + 1
       /\ 1 \in 1..3 /\ 2 \in 1..3 /\ 3 \in 1..3
  BY <1>5, <1>14
<1>16. /\ w[1].kind = "basic" /\ w[2].kind = "app" /\ w[3].kind = "open"
       /\ w[c].kind = "close"
  BY <1>11, <1>12, <1>14, <1>15
<1>17. \A n \in 1..L : w[3 + n] = m[n]
  <2>1. \A n \in 1..L : w[3 + n] = lines[n]
    BY <1>10, <1>11, <1>13 DEF IsFramed
  <2> QED
    BY <1>10, <2>1
<1>18. \A q \in 1..(3 - 1) : w[q].kind \notin {"open", "ack"}
  <2>1. \A q \in 1..(3 - 1) : q = 1 \/ q = 2
    OBVIOUS
  <2> QED
    BY <1>16, <2>1
<1>19. \A q \in (3 + 1)..(c - 1) : w[q].kind # "close"
  <2> SUFFICES ASSUME NEW q \in (3 + 1)..(c - 1) PROVE w[q].kind # "close"
    OBVIOUS
  <2> DEFINE n == q - 3
  <2>1. n \in 1..L /\ 3 + n = q
    BY <1>5
  <2> HIDE DEF n
  <2>2. w[3 + n].kind = "line"
    BY <1>6, <1>17, <2>1
  <2> QED
    BY <2>1, <2>2
<1> DEFINE text == SubSeq(w, 4, c - 1)
<1>20. TextBlock(w) = text
  <2>1. 3 + 1 = 4
    OBVIOUS
  <2> HIDE DEF c
  <2>2. TextBlock(w) = SubSeq(w, 3 + 1, c - 1)
    <3>1. /\ IsSeq(w) /\ 3 \in 1..Len(w) /\ c \in 1..Len(w) /\ 3 < c
          /\ w[3].kind = "open" /\ w[c].kind = "close"
      BY <1>14, <1>15, <1>16
    <3> QED
      BY <3>1, <1>18, <1>19, TextUpToEnd
  <2> QED
    BY <2>1, <2>2
<1> DEFINE d == c - 1
<1>21. d \in Int /\ 4 \in Int /\ 1 <= 4 /\ 4 <= d + 1 /\ d <= Len(w) /\ d - 4 + 1 = L
  BY <1>5, <1>14
<1> HIDE DEF d, c
<1>22. IsSeq(text) /\ Len(text) = L /\ \A q \in 1..(d - 4 + 1) : text[q] = w[4 + q - 1]
  BY <1>14, <1>21, PartOf DEF d
<1> HIDE DEF text
<1>23. AreLinesOf(text, at, L)
  <2> SUFFICES ASSUME NEW n \in 1..L PROVE text[n] = file[at + n] /\ file[at + n].kind = "line"
    BY DEF AreLinesOf
  <2>1. n \in 1..(d - 4 + 1) /\ 4 + n - 1 = 3 + n
    BY <1>21
  <2>2. text[n] = w[3 + n]
    BY <1>22, <2>1
  <2> QED
    BY <1>6, <1>17, <2>2
<1>24. FieldsIn(text) = LinesAfter(at, L)
  BY <1>5, <1>22, <1>23, FieldsOfLines
<1>25. FieldsBetween(i, end) = LinesAfter(at, L)
  BY StatementFields DEF at, L, end, last
<1>26. Fields(w) = FieldsBetween(i, end)
  BY <1>20, <1>24, <1>25 DEF Fields
<1> QED
  BY <1>26 DEF w, m, end

LEMMA BareAreLoaded ==
  ASSUME IsSeq(file), IsBare(file), loaded = Load(file)
  PROVE  BareAreExact
<1> DEFINE starts == References(file)
           end(i) == IF \E j \in starts : j > i THEN First({j \in starts : j > i}) - 1
                     ELSE Len(file)
           named == InOrder({i \in starts : Len(FieldsBetween(i, end(i))) > 1})
<1>1. ASSUME NEW i PROVE end(i) = PieceEnd(i)
  BY DEF PieceEnd
<1> HIDE DEF end
<1> DEFINE set == {i \in starts : Len(FieldsBetween(i, PieceEnd(i))) > 1}
           C == Cardinality(set)
           piece(i) == Piece(file, References(file), i)
           split == SplitBare(file)
<1>2. named = InOrder(set)
  BY <1>1
<1>3. Len(file) \in Nat /\ set \in SUBSET (1..Len(file)) /\ set \subseteq starts
  BY StatementLines, SeqShape DEF References, Places
<1> HIDE DEF named
<1>4. C \in Nat /\ DOMAIN named = 1..C /\ \A n \in 1..C : named[n] \in starts
  <2> HIDE DEF set, starts
  <2>1. C \in Nat /\ DOMAIN named = 1..C /\ \A n \in 1..C : named[n] \in set
    BY <1>2, <1>3, NthIsIn
  <2> QED
    BY <1>3, <2>1
<1>5. Len(named) = C
  <2> HIDE DEF set
  <2> QED
    BY <1>2, <1>4, InOrderIsSeq
<1>6. Split(file) = <<>>
  <2>1. Starts(file) = {}
    <3> SUFFICES ASSUME NEW p \in Starts(file) PROVE FALSE
      OBVIOUS
    <3>1. p \in 1..Len(file) /\ file[p].kind = "basic"
      BY SeqShape DEF Starts, Places
    <3> QED
      BY <3>1, BareLines
  <2> DEFINE kept == {i \in Starts(file) : HasHeader(Piece(file, Starts(file), i))}
  <2>2. kept = {}
    BY <2>1
  <2> HIDE DEF kept
  <2>3. DOMAIN InOrder(kept) = {}
    BY <2>2, NothingInOrder
  <2>4. Split(file) = [n \in DOMAIN InOrder(kept) |-> Piece(file, Starts(file), InOrder(kept)[n])]
    BY DEF Split, kept
  <2> QED
    BY <2>3, <2>4
<1>7. set = {i \in starts : Tagged(piece(i), {"25"})}
  BY NamedAreTagged
<1>8. split = [n \in 1..C |-> Wrapped(piece(named[n]))]
  <2>1. named = InOrder({i \in starts : Tagged(piece(i), {"25"})})
    BY <1>2, <1>7
  <2> HIDE DEF set, named
  <2> QED
    BY <1>4, <2>1 DEF SplitBare
<1> HIDE DEF C, set, piece
<1>9. DOMAIN split = 1..C /\ \A n \in 1..C : split[n] = Wrapped(piece(named[n]))
  BY <1>8
<1>10. loaded = [n \in DOMAIN split |-> [type |-> TypeOf(split[n]), fields |-> Fields(split[n])]]
  BY <1>6, Zenon DEF Load
<1> HIDE DEF split
<1>11. /\ DOMAIN loaded = 1..C /\ loaded = [n \in 1..C |-> loaded[n]]
       /\ \A n \in 1..C : loaded[n].fields = Fields(Wrapped(piece(named[n])))
  BY <1>9, <1>10
<1>12. Len(loaded) = C
  BY <1>4, <1>11, SeqOfFunction
<1>13. ASSUME NEW n \in DOMAIN loaded
       PROVE  loaded[n].fields = FieldsBetween(named[n], end(named[n]))
  <2> DEFINE i == named[n]
  <2>1. n \in 1..C /\ i \in starts /\ loaded[n].fields = Fields(Wrapped(piece(i)))
    BY <1>4, <1>11
  <2> HIDE DEF i
  <2>2. Fields(Wrapped(piece(i))) = FieldsBetween(i, PieceEnd(i))
    BY <2>1, WrappedFields DEF piece
  <2> QED
    BY <1>1, <2>1, <2>2 DEF i
<1>14. Len(loaded) = Len(named)
  BY <1>5, <1>12
<1> QED
  BY <1>13, <1>14, Zenon DEF BareAreExact, named, end

(* Every message with nothing left open before it, and every statement     *)
(* that names an account, is loaded once and in order, under its own type  *)
(* and with its own fields, from files of any length (split_messages,      *)
(* split_bare_statements, parse_message).                                  *)
THEOREM FilesAreLoadedRight == Spec => []LoadIsExact
<1>1. ASSUME FileInv, WrittenInv, LoadedInv PROVE LoadIsExact
  <2> SUFFICES ASSUME loaded # <<>>
               PROVE  /\ form = "fin" /\ (\E i \in Messages : BeginsClean(i)) => EnvelopedAreExact
                      /\ form = "bare" => BareAreExact
    BY DEF LoadIsExact
  <2>1. IsSeq(file) /\ loaded = Load(file)
    BY <1>1 DEF FileInv, LoadedInv
  <2>2. ASSUME form = "fin", \E i \in Messages : BeginsClean(i) PROVE EnvelopedAreExact
    BY <1>1, <2>1, <2>2, EnvelopedAreLoaded DEF WrittenInv
  <2>3. ASSUME form = "bare" PROVE BareAreExact
    BY <1>1, <2>1, <2>3, BareAreLoaded DEF WrittenInv
  <2> QED
    BY <2>2, <2>3
<1> QED
  BY <1>1, FileHolds, WrittenHolds, LoadedHolds, PTL

-----------------------------------------------------------------------------
(* Ranks in a set of places. *)

LEMMA HigherRank ==
  ASSUME NEW N \in Nat, NEW S \in SUBSET (1..N), NEW i \in S, NEW k \in Int, i < k
  PROVE  Cardinality(Below(S, i)) + 1 <= Cardinality(Below(S, k))
<1> DEFINE T == Below(S, i)
           U == Below(S, k)
<1>1. IsFiniteSet(T) /\ IsFiniteSet(U) /\ Cardinality(T) \in Nat /\ Cardinality(U) \in Nat
  BY BelowIsFinite
<1>2. i \in Int /\ S \subseteq Int
  OBVIOUS
<1>3. i \notin T /\ i \in U
  BY <1>2 DEF Below
<1>4. T \subseteq U
  <2>1. \A j \in S : j < i => j < k
    BY <1>2
  <2> QED
    BY <2>1 DEF Below
<1> HIDE DEF T, U
<1>5. Cardinality(T \cup {i}) = Cardinality(T) + 1
  BY <1>1, <1>3, FS_AddElement
<1>6. (T \cup {i}) \subseteq U
  BY <1>3, <1>4
<1>7. Cardinality(T \cup {i}) <= Cardinality(U)
  <2> DEFINE V == T \cup {i}
  <2>1. V \in SUBSET U
    BY <1>6
  <2> HIDE DEF V
  <2>2. Cardinality(V) <= Cardinality(U)
    BY <1>1, <2>1, FS_Subset
  <2> QED
    BY <2>2 DEF V
<1> QED
  BY <1>5, <1>7 DEF T, U

LEMMA NthRank ==
  ASSUME NEW N \in Nat, NEW S \in SUBSET (1..N), NEW n \in 1..Cardinality(S)
  PROVE  InOrder(S)[n] \in S /\ Cardinality(Below(S, InOrder(S)[n])) = n - 1
<1>1. \E i \in S : Cardinality({j \in S : j < i}) = n - 1
  BY NthExists DEF Below
<1>2. InOrder(S)[n] = CHOOSE i \in S : Cardinality({j \in S : j < i}) = n - 1
  BY DEF InOrder
<1>3. InOrder(S)[n] \in S /\ Cardinality({j \in S : j < InOrder(S)[n]}) = n - 1
  BY <1>1, <1>2
<1> QED
  BY <1>3 DEF Below

LEMMA IsNth ==
  ASSUME NEW N \in Nat, NEW S \in SUBSET (1..N), NEW n \in 1..Cardinality(S),
         NEW i \in S, Cardinality(Below(S, i)) = n - 1
  PROVE  InOrder(S)[n] = i
<1> DEFINE k == InOrder(S)[n]
<1>1. k \in S /\ Cardinality(Below(S, k)) = n - 1
  BY NthRank
<1> HIDE DEF k
<1>2. k \in Int /\ i \in Int /\ n \in Int
  BY <1>1
<1>3. ~(i < k)
  <2> SUFFICES ASSUME i < k PROVE FALSE
    OBVIOUS
  <2>1. Cardinality(Below(S, i)) + 1 <= Cardinality(Below(S, k))
    BY <1>2, HigherRank
  <2> QED
    BY <1>1, <1>2, <2>1
<1>4. ~(k < i)
  <2> SUFFICES ASSUME k < i PROVE FALSE
    OBVIOUS
  <2>1. Cardinality(Below(S, k)) + 1 <= Cardinality(Below(S, i))
    BY <1>1, <1>2, HigherRank
  <2> QED
    BY <1>1, <1>2, <2>1
<1> QED
  BY <1>2, <1>3, <1>4 DEF k

(* A later place comes last. *)
LEMMA OneMorePlace ==
  ASSUME NEW N \in Nat, NEW S \in SUBSET (1..N), NEW m \in 1..N, \A i \in S : i < m
  PROVE  /\ Cardinality(S) \in Nat /\ Cardinality(S \cup {m}) = Cardinality(S) + 1
         /\ \A n \in 1..Cardinality(S) : InOrder(S \cup {m})[n] = InOrder(S)[n]
         /\ InOrder(S \cup {m})[Cardinality(S) + 1] = m
<1> DEFINE T == S \cup {m}
           C == Cardinality(S)
<1>1. IsFiniteSet(S) /\ C \in Nat
  <2>1. 1 \in Int /\ N \in Int
    OBVIOUS
  <2> QED
    BY <2>1, Numbers
<1>2. m \notin S
  OBVIOUS
<1>3. Cardinality(T) = C + 1
  BY <1>1, <1>2, FS_AddElement
<1>4. T \in SUBSET (1..N)
  OBVIOUS
<1>5. Below(T, m) = S
  <2>1. ~(m < m)
    OBVIOUS
  <2> QED
    BY <2>1 DEF Below
<1>6. ASSUME NEW i \in S PROVE Below(T, i) = Below(S, i)
  <2>1. ~(m < i)
    OBVIOUS
  <2> QED
    BY <2>1 DEF Below
<1>7. m \in T /\ S \subseteq T
  OBVIOUS
<1> HIDE DEF T
<1>8. InOrder(T)[C + 1] = m
  <2> DEFINE n == C + 1
  <2>1. n \in 1..Cardinality(T) /\ n - 1 = C
    BY <1>1, <1>3
  <2> HIDE DEF n
  <2>2. Cardinality(Below(T, m)) = n - 1
    BY <1>5, <2>1
  <2>3. InOrder(T)[n] = m
    BY <1>4, <1>7, <2>1, <2>2, IsNth
  <2> QED
    BY <2>3 DEF n
<1>9. ASSUME NEW n \in 1..C PROVE InOrder(T)[n] = InOrder(S)[n]
  <2> DEFINE i == InOrder(S)[n]
  <2>1. i \in S /\ Cardinality(Below(S, i)) = n - 1
    BY NthRank
  <2> HIDE DEF i
  <2>2. n \in 1..Cardinality(T)
    <3> HIDE DEF C
    <3> QED
      BY <1>1, <1>3
  <2>3. i \in T /\ Cardinality(Below(T, i)) = n - 1
    BY <1>6, <1>7, <2>1
  <2>4. InOrder(T)[n] = i
    BY <1>4, <2>2, <2>3, IsNth
  <2> QED
    BY <2>4 DEF i
<1> QED
  BY <1>1, <1>3, <1>8, <1>9 DEF T

(* Up to the next place is before all later ones. *)
LEMMA UpToTheNext ==
  ASSUME NEW N \in Nat, NEW S \in SUBSET (1..N), NEW n \in 1..Cardinality(S), NEW k \in 1..N
  PROVE  (\A j \in S : j > InOrder(S)[n] => k < j)
           <=> (n < Cardinality(S) => k < InOrder(S)[n + 1])
<1> DEFINE C == Cardinality(S)
           i == InOrder(S)[n]
           h == InOrder(S)[n + 1]
           rank(p) == Cardinality(Below(S, p))
<1>1. C \in Nat /\ n \in Int
  BY NthIsIn
<1>2. i \in S /\ rank(i) = n - 1
  BY NthRank
<1>3. ASSUME n < C PROVE h \in S /\ rank(h) = n
  <2> DEFINE m == n + 1
  <2>1. m \in 1..C /\ m - 1 = n
    BY <1>1, <1>3
  <2> HIDE DEF m
  <2>2. InOrder(S)[m] \in S /\ rank(InOrder(S)[m]) = m - 1
    BY <2>1, NthRank
  <2> QED
    BY <2>1, <2>2 DEF m
<1>4. \A p \in S : p \in Int /\ rank(p) \in Nat
  <2> SUFFICES ASSUME NEW p \in S PROVE p \in Int /\ rank(p) \in Nat
    OBVIOUS
  <2>1. Cardinality(Below(S, p)) \in Nat
    BY BelowIsFinite
  <2> QED
    BY <2>1
<1>5. \A p, q \in S : p < q => rank(p) + 1 <= rank(q)
  BY <1>4, HigherRank
<1>6. \A p \in S : rank(p) + 1 <= C
  <2> SUFFICES ASSUME NEW p \in S PROVE rank(p) + 1 <= C
    OBVIOUS
  <2>1. Below(S, N + 1) = S
    <3>1. \A j \in S : j < N + 1
      OBVIOUS
    <3> QED
      BY <3>1 DEF Below
  <2> DEFINE M == N + 1
  <2>2. M \in Int /\ p < M
    OBVIOUS
  <2> HIDE DEF M
  <2>3. rank(p) + 1 <= rank(M)
    BY <2>2, HigherRank
  <2> QED
    BY <2>1, <2>3 DEF M
<1> HIDE DEF C, i, h, rank
<1>7. ASSUME n < C, k < h, NEW j \in S, j > i PROVE k < j
  <2>1. rank(i) + 1 <= rank(j) /\ rank(i) \in Int /\ rank(j) \in Int
    BY <1>2, <1>4, <1>5, <1>7
  <2>2. rank(h) <= rank(j)
    BY <1>1, <1>2, <1>3, <1>7, <2>1
  <2>3. ~(j < h)
    <3> SUFFICES ASSUME j < h PROVE FALSE
      OBVIOUS
    <3>0. h \in S
      BY <1>3, <1>7
    <3>1. rank(j) + 1 <= rank(h) /\ rank(h) \in Int
      BY <1>4, <1>5, <1>7, <3>0
    <3> QED
      BY <2>1, <2>2, <3>1
  <2>4. h \in Int /\ j \in Int
    BY <1>3, <1>4, <1>7
  <2> QED
    BY <1>7, <2>3, <2>4
<1>8. ASSUME ~(n < C), NEW j \in S, j > i PROVE FALSE
  <2>1. rank(i) + 1 <= rank(j) /\ rank(j) + 1 <= C /\ rank(i) \in Int /\ rank(j) \in Int
    BY <1>2, <1>4, <1>5, <1>6, <1>8
  <2> QED
    BY <1>1, <1>2, <1>8, <2>1
<1>9. ASSUME n < C, \A j \in S : j > i => k < j PROVE k < h
  <2>1. ~(h < i) /\ h # i
    <3> SUFFICES ASSUME h < i \/ h = i PROVE FALSE
      OBVIOUS
    <3>1. h \in S /\ rank(h) = n /\ rank(i) = n - 1
      BY <1>2, <1>3, <1>9
    <3>2. CASE h < i
      <4>1. rank(h) + 1 <= rank(i)
        BY <1>2, <1>5, <3>1, <3>2
      <4> QED
        BY <1>1, <3>1, <4>1
    <3>3. CASE h = i
      BY <1>1, <3>1, <3>3
    <3> QED
      BY <3>2, <3>3
  <2>2. h \in S /\ h \in Int /\ i \in Int
    BY <1>2, <1>3, <1>4, <1>9
  <2>3. h > i
    BY <2>1, <2>2
  <2> QED
    BY <1>9, <2>2, <2>3
<1>10. (\A j \in S : j > i => k < j) <=> (n < C => k < h)
  BY <1>7, <1>8, <1>9
<1> QED
  BY <1>10 DEF C, i, h

-----------------------------------------------------------------------------
(* Totals. *)

IsSumming(s, N, f) == f = [n \in 0..N |-> IF n = 0 THEN 0 ELSE f[n - 1] + s[n]]

LEMMA SumsExist ==
  ASSUME NEW s, NEW N \in Nat
  PROVE  \E f : IsSumming(s, N, f)
<1> DEFINE good == {n \in 0..N : \E f : IsSumming(s, n, f)}
<1>1. 0 \in good
  <2> DEFINE f == [n \in 0..0 |-> 0]
  <2>1. f = [n \in 0..0 |-> IF n = 0 THEN 0 ELSE f[n - 1] + s[n]]
    OBVIOUS
  <2> HIDE DEF f
  <2>2. IsSumming(s, 0, f)
    BY <2>1, Zenon DEF IsSumming
  <2>3. 0 \in 0..N
    OBVIOUS
  <2> QED
    BY <2>2, <2>3
<1>2. ASSUME NEW n \in 1..N, n - 1 \in good PROVE n \in good
  <2>1. PICK f : IsSumming(s, n - 1, f)
    BY <1>2
  <2> DEFINE g == [k \in 0..n |-> IF k < n THEN f[k] ELSE f[k - 1] + s[k]]
  <2>2. ASSUME NEW k \in 0..n
        PROVE  g[k] = IF k = 0 THEN 0 ELSE g[k - 1] + s[k]
    <3>1. k # 0 => k - 1 \in 0..n /\ k - 1 < n
      OBVIOUS
    <3>2. k # 0 => g[k - 1] = f[k - 1]
      BY <3>1
    <3>3. CASE k < n
      <4>1. k \in 0..(n - 1) /\ g[k] = f[k]
        BY <3>3
      <4>2. f[k] = IF k = 0 THEN 0 ELSE f[k - 1] + s[k]
        BY <2>1, <4>1 DEF IsSumming
      <4> QED
        BY <3>2, <4>1, <4>2
    <3>4. CASE ~(k < n)
      BY <3>2, <3>4
    <3> QED
      BY <3>3, <3>4
  <2>3. g = [k \in 0..n |-> g[k]]
    OBVIOUS
  <2> HIDE DEF g
  <2>4. IsSumming(s, n, g)
    BY <2>2, <2>3, Zenon DEF IsSumming
  <2>5. n \in 0..N
    OBVIOUS
  <2> QED
    BY <2>4, <2>5
<1>3. N \in good
  <2> HIDE DEF good
  <2>1. \A n \in 0..N : n \in good
    BY <1>1, <1>2, UpTo
  <2> QED
    BY <2>1
<1> QED
  BY <1>3

AreNumbers(s) == IsSeq(s) /\ \A n \in 1..Len(s) : s[n] \in Int

(* A sum is that of the parts before each place. *)
AreSums(s, f) ==
  /\ f[0] = 0 /\ SumOf(s) = f[Len(s)]
  /\ \A n \in 0..Len(s) : f[n] \in Int
  /\ \A n \in 1..Len(s) : f[n] = f[n - 1] + s[n]

LEMMA SumsOf ==
  ASSUME NEW s, AreNumbers(s)
  PROVE  Len(s) \in Nat /\ \E f : AreSums(s, f)
<1> DEFINE N == Len(s)
           f == CHOOSE f : IsSumming(s, N, f)
<1>1. N \in Nat /\ \A n \in 1..N : s[n] \in Int
  BY SeqShape DEF AreNumbers
<1>2. IsSumming(s, N, f)
  <2> HIDE DEF N
  <2> QED
    BY <1>1, SumsExist
<1>3. SumOf(s) = f[N]
  BY Zenon DEF SumOf, IsSumming
<1> HIDE DEF f
<1>4. \A n \in 0..N : f[n] = IF n = 0 THEN 0 ELSE f[n - 1] + s[n]
  BY <1>2 DEF IsSumming
<1>5. f[0] = 0
  <2>1. 0 \in 0..N
    BY <1>1
  <2> QED
    BY <1>4, <2>1
<1> HIDE DEF N
<1>6. ASSUME NEW n \in 1..N PROVE f[n] = f[n - 1] + s[n]
  <2>1. n \in 0..N /\ n # 0
    BY <1>1
  <2> QED
    BY <1>4, <2>1
<1> DEFINE good == {n \in 0..N : f[n] \in Int}
<1>7. 0 \in good
  BY <1>1, <1>5
<1>8. ASSUME NEW n \in 1..N, n - 1 \in good PROVE n \in good
  <2>1. n \in 0..N /\ f[n - 1] \in Int /\ s[n] \in Int
    BY <1>1, <1>8
  <2> QED
    BY <1>6, <2>1
<1>9. \A n \in 0..N : f[n] \in Int
  <2> HIDE DEF good
  <2>1. \A n \in 0..N : n \in good
    BY <1>1, <1>7, <1>8, UpTo
  <2> QED
    BY <2>1 DEF good
<1>10. AreSums(s, f)
  BY <1>3, <1>5, <1>6, <1>9 DEF AreSums, N
<1> QED
  BY <1>1, <1>10 DEF N

LEMMA SumIsNumber ==
  ASSUME NEW s, AreNumbers(s)
  PROVE  SumOf(s) \in Int
<1>1. PICK f : AreSums(s, f)
  BY SumsOf
<1>2. Len(s) \in 0..Len(s)
  BY SumsOf
<1> QED
  BY <1>1, <1>2 DEF AreSums

LEMMA SumsAdd ==
  ASSUME NEW a, NEW b, NEW c, AreNumbers(a), AreNumbers(b), AreNumbers(c),
         Len(a) = Len(c), Len(b) = Len(c), \A n \in 1..Len(c) : c[n] = a[n] + b[n]
  PROVE  SumOf(c) = SumOf(a) + SumOf(b)
<1> DEFINE N == Len(c)
<1>1. PICK f : AreSums(a, f)
  BY SumsOf
<1>2. PICK g : AreSums(b, g)
  BY SumsOf
<1>3. PICK h : AreSums(c, h)
  BY SumsOf
<1>4. N \in Nat
  BY SumsOf
<1>5. /\ f[0] = 0 /\ SumOf(a) = f[N]
      /\ \A n \in 0..N : f[n] \in Int
      /\ \A n \in 1..N : f[n] = f[n - 1] + a[n] /\ a[n] \in Int
  BY <1>1 DEF AreSums, AreNumbers
<1>6. /\ g[0] = 0 /\ SumOf(b) = g[N]
      /\ \A n \in 0..N : g[n] \in Int
      /\ \A n \in 1..N : g[n] = g[n - 1] + b[n] /\ b[n] \in Int
  BY <1>2 DEF AreSums, AreNumbers
<1>7. /\ h[0] = 0 /\ SumOf(c) = h[N]
      /\ \A n \in 1..N : h[n] = h[n - 1] + c[n] /\ c[n] = a[n] + b[n]
  BY <1>3 DEF AreSums
<1> HIDE DEF N
<1> DEFINE good == {n \in 0..N : h[n] = f[n] + g[n]}
<1>8. 0 \in good
  BY <1>4, <1>5, <1>6, <1>7
<1>9. ASSUME NEW n \in 1..N, n - 1 \in good PROVE n \in good
  <2>1. n \in 0..N /\ n - 1 \in 0..N /\ h[n - 1] = f[n - 1] + g[n - 1]
    BY <1>4, <1>9
  <2> DEFINE x == f[n - 1]
             y == g[n - 1]
             u == a[n]
             v == b[n]
  <2>2. /\ x \in Int /\ y \in Int /\ u \in Int /\ v \in Int
        /\ f[n] = x + u /\ g[n] = y + v /\ h[n] = (x + y) + (u + v)
    BY <1>5, <1>6, <1>7, <2>1
  <2> HIDE DEF x, y, u, v
  <2>3. h[n] = f[n] + g[n]
    BY <2>2
  <2> QED
    BY <2>1, <2>3
<1>10. h[N] = f[N] + g[N]
  <2> HIDE DEF good
  <2>1. \A n \in 0..N : n \in good
    BY <1>4, <1>8, <1>9, UpTo
  <2>2. N \in good
    BY <1>4, <2>1
  <2> QED
    BY <2>2 DEF good
<1> QED
  BY <1>5, <1>6, <1>7, <1>10

(* Every movement is an inflow or an outflow. *)
LEMMA MovementsAdd ==
  ASSUME NEW s, IsSeq(s.entries), \A k \in 1..Len(s.entries) : s.entries[k].signed \in Int
  PROVE  /\ AreNumbers(Inflows(s)) /\ AreNumbers(Outflows(s)) /\ AreNumbers(Movements(s))
         /\ SumOf(Movements(s)) = SumOf(Inflows(s)) + SumOf(Outflows(s))
<1> DEFINE e == s.entries
           N == Len(e)
           a == Inflows(s)
           b == Outflows(s)
           c == Movements(s)
<1>1. N \in Nat /\ DOMAIN e = 1..N
  BY SeqShape
<1>2. /\ a = [k \in 1..N |-> IF e[k].signed >= 0 THEN e[k].signed ELSE 0]
      /\ b = [k \in 1..N |-> IF e[k].signed < 0 THEN e[k].signed ELSE 0]
      /\ c = [k \in 1..N |-> e[k].signed]
  BY <1>1 DEF Inflows, Outflows, Movements
<1>3. \A k \in 1..N : e[k].signed \in Int
  OBVIOUS
<1> HIDE DEF a, b, c, e, N
<1>4. /\ DOMAIN a = 1..N /\ a = [k \in 1..N |-> a[k]]
      /\ DOMAIN b = 1..N /\ b = [k \in 1..N |-> b[k]]
      /\ DOMAIN c = 1..N /\ c = [k \in 1..N |-> c[k]]
  BY <1>2
<1>5. ASSUME NEW k \in 1..N
      PROVE  a[k] \in Int /\ b[k] \in Int /\ c[k] \in Int /\ c[k] = a[k] + b[k]
  <2> DEFINE x == e[k].signed
  <2>1. /\ x \in Int /\ c[k] = x /\ a[k] = (IF x >= 0 THEN x ELSE 0)
        /\ b[k] = (IF x < 0 THEN x ELSE 0)
    BY <1>2, <1>3
  <2> HIDE DEF x
  <2> QED
    BY <2>1
<1>6. IsSeq(a) /\ Len(a) = N /\ IsSeq(b) /\ Len(b) = N /\ IsSeq(c) /\ Len(c) = N
  BY <1>1, <1>4, SeqOfFunction
<1>7. AreNumbers(a) /\ AreNumbers(b) /\ AreNumbers(c)
  BY <1>5, <1>6 DEF AreNumbers
<1>8. SumOf(c) = SumOf(a) + SumOf(b)
  BY <1>5, <1>6, <1>7, SumsAdd
<1> QED
  BY <1>7, <1>8 DEF a, b, c

LEMMA TotalsAdd ==
  ASSUME NEW st, IsSeq(st),
         \A n \in 1..Len(st) : /\ IsSeq(st[n].entries)
                               /\ \A k \in 1..Len(st[n].entries) : st[n].entries[k].signed \in Int
  PROVE  CashPnl(st).inflows + CashPnl(st).outflows
           = SumOf([n \in DOMAIN st |-> SumOf(Movements(st[n]))])
<1> DEFINE N == Len(st)
           a == [n \in DOMAIN st |-> SumOf(Inflows(st[n]))]
           b == [n \in DOMAIN st |-> SumOf(Outflows(st[n]))]
           c == [n \in DOMAIN st |-> SumOf(Movements(st[n]))]
<1>1. N \in Nat /\ DOMAIN st = 1..N
  BY SeqShape
<1>2. CashPnl(st).inflows = SumOf(a) /\ CashPnl(st).outflows = SumOf(b)
  BY DEF CashPnl
<1>3. ASSUME NEW n \in 1..N
      PROVE  /\ SumOf(Inflows(st[n])) \in Int /\ SumOf(Outflows(st[n])) \in Int
             /\ SumOf(Movements(st[n])) = SumOf(Inflows(st[n])) + SumOf(Outflows(st[n]))
  <2> DEFINE s == st[n]
  <2>1. IsSeq(s.entries) /\ \A k \in 1..Len(s.entries) : s.entries[k].signed \in Int
    OBVIOUS
  <2> HIDE DEF s
  <2>2. /\ AreNumbers(Inflows(s)) /\ AreNumbers(Outflows(s))
        /\ SumOf(Movements(s)) = SumOf(Inflows(s)) + SumOf(Outflows(s))
    BY <2>1, MovementsAdd
  <2>3. SumOf(Inflows(s)) \in Int /\ SumOf(Outflows(s)) \in Int
    BY <2>2, SumIsNumber
  <2> QED
    BY <2>2, <2>3 DEF s
<1>4. /\ DOMAIN a = 1..N /\ DOMAIN b = 1..N /\ DOMAIN c = 1..N
      /\ \A n \in 1..N : /\ a[n] = SumOf(Inflows(st[n])) /\ b[n] = SumOf(Outflows(st[n]))
                         /\ c[n] = SumOf(Movements(st[n]))
  BY <1>1
<1>5. /\ a = [n \in 1..N |-> a[n]] /\ b = [n \in 1..N |-> b[n]] /\ c = [n \in 1..N |-> c[n]]
  BY <1>1
<1> HIDE DEF a, b, c, N
<1>6. IsSeq(a) /\ Len(a) = N /\ IsSeq(b) /\ Len(b) = N /\ IsSeq(c) /\ Len(c) = N
  BY <1>1, <1>4, <1>5, SeqOfFunction
<1>7. ASSUME NEW n \in 1..N
      PROVE  a[n] \in Int /\ b[n] \in Int /\ c[n] \in Int /\ c[n] = a[n] + b[n]
  BY <1>3, <1>4
<1>8. AreNumbers(a) /\ AreNumbers(b) /\ AreNumbers(c)
  BY <1>6, <1>7 DEF AreNumbers
<1>9. SumOf(c) = SumOf(a) + SumOf(b)
  BY <1>6, <1>7, <1>8, SumsAdd
<1> QED
  BY <1>2, <1>9 DEF a, b, c

-----------------------------------------------------------------------------
(* What stands in the tokens of a file. *)

IsCounted(value) == value \in Marked({"C", "D", "RC", "RD"})

IsSound(token) ==
  /\ token.kind = "line" /\ token.tag \in {"60", "61", "62"} => IsCounted(token.value)
  /\ token.kind = "ntry" => token.tag \in {"", "true"} /\ IsCounted(token.value)
  /\ token.kind = "bal" => /\ token.tag \in {"OPBD", "CLBD"} /\ IsCounted(token.value)
                           /\ token.value.mark \in {"C", "D"}
  /\ token.tag \in {"OPBD", "CLBD"} => token.kind = "bal"

AreSound(s) == \A p \in 1..Len(s) : IsSound(s[p])

(* A text block begins with a reference. *)
BeginWithReferences(s) == \A p \in 1..(Len(s) - 1) : s[p].kind = "open" => s[p + 1].tag = "20"

ContentInv ==
  /\ AreSound(file)
  /\ form = "fin" => BeginWithReferences(file)

LEMMA SoundTogether ==
  ASSUME NEW s, NEW t, IsSeq(s), IsSeq(t), AreSound(s), AreSound(t)
  PROVE  AreSound(s \o t)
<1> DEFINE u == s \o t
<1>1. /\ Len(s) \in Nat /\ Len(t) \in Nat /\ Len(u) = Len(s) + Len(t)
      /\ \A p \in 1..Len(s) : u[p] = s[p]
  BY SeqShape, Joining
<1>2. ASSUME NEW p \in 1..Len(u) PROVE IsSound(u[p])
  <2>1. CASE p \in 1..Len(s)
    BY <1>1, <2>1 DEF AreSound
  <2>2. CASE p \notin 1..Len(s)
    <3> DEFINE q == p - Len(s)
    <3>1. q \in 1..Len(t) /\ p = Len(s) + q
      BY <1>1, <2>2
    <3> HIDE DEF q
    <3>2. u[p] = t[q]
      BY <3>1, JoinedAfter
    <3> QED
      BY <3>1, <3>2 DEF AreSound
  <2> QED
    BY <2>1, <2>2
<1> QED
  BY <1>2 DEF AreSound

LEMMA ReferencesTogether ==
  ASSUME NEW s, NEW t, IsSeq(s), IsSeq(t), BeginWithReferences(s), BeginWithReferences(t),
         Len(s) > 0 => s[Len(s)].kind # "open"
  PROVE  BeginWithReferences(s \o t)
<1> DEFINE u == s \o t
           M == Len(s)
           N == Len(t)
<1>1. M \in Nat /\ N \in Nat /\ Len(u) = M + N /\ \A p \in 1..M : u[p] = s[p]
  BY SeqShape, Joining
<1>2. ASSUME NEW p, NEW q \in 1..N, p = M + q PROVE u[p] = t[q]
  BY <1>2, JoinedAfter
<1>3. ASSUME NEW p \in 1..(M + N - 1), u[p].kind = "open" PROVE u[p + 1].tag = "20"
  <2> DEFINE q == p + 1
  <2>1. CASE p < M
    <3>1. p \in 1..(M - 1) /\ p \in 1..M /\ q \in 1..M
      BY <1>1, <2>1
    <3> HIDE DEF u
    <3>2. u[p] = s[p] /\ u[q] = s[q]
      BY <1>1, <3>1
    <3> QED
      BY <1>3, <3>1, <3>2 DEF BeginWithReferences
  <2>2. CASE p = M
    <3>1. p \in 1..M /\ M > 0
      BY <1>1, <2>2
    <3> HIDE DEF u
    <3>2. u[p] = s[M]
      BY <1>1, <2>2, <3>1
    <3> QED
      BY <1>3, <3>1, <3>2
  <2>3. CASE p > M
    <3> DEFINE k == p - M
               h == p - M + 1
    <3>1. /\ k \in 1..(N - 1) /\ k \in 1..N /\ h \in 1..N /\ p = M + k /\ p + 1 = M + h
          /\ h = k + 1
      BY <1>1, <2>3
    <3> HIDE DEF k, h, u
    <3>2. u[p] = t[k] /\ u[p + 1] = t[h]
      BY <1>2, <3>1
    <3> QED
      BY <1>3, <3>1, <3>2 DEF BeginWithReferences
  <2>4. p \in Int /\ M \in Int
    BY <1>1
  <2> QED
    BY <2>1, <2>2, <2>3, <2>4
<1>4. Len(u) - 1 = M + N - 1
  BY <1>1
<1> QED
  BY <1>3, <1>4 DEF BeginWithReferences

LEMMA OneToken ==
  ASSUME NEW x, IsSound(x)
  PROVE  IsSeq(<<x>>) /\ AreSound(<<x>>) /\ BeginWithReferences(<<x>>)
<1>1. IsSeq(<<x>>) /\ Len(<<x>>) = 1 /\ <<x>>[1] = x
  BY ShortSeqs
<1> DEFINE s == <<x>>
<1> HIDE DEF s
<1>2. AreSound(s)
  BY <1>1 DEF AreSound, s
<1>3. BeginWithReferences(s)
  <2>1. 1..(Len(s) - 1) = {}
    BY <1>1 DEF s
  <2> QED
    BY <2>1 DEF BeginWithReferences
<1> QED
  BY <1>1, <1>2, <1>3 DEF s

LEMMA ContentGrows ==
  ASSUME FileInv, WrittenInv, ContentInv, form' = form,
         NEW t, IsSeq(t), AreSound(t), form = "fin" => BeginWithReferences(t), file' = file \o t
  PROVE  ContentInv'
<1>1. IsSeq(file) /\ AreSound(file)
  BY DEF FileInv, ContentInv
<1>2. AreSound(file \o t)
  BY <1>1, SoundTogether
<1>3. ASSUME form = "fin" PROVE BeginWithReferences(file \o t)
  <2>1. BeginWithReferences(file) /\ (Len(file) > 0 => file[Len(file)].kind # "open")
    BY <1>3 DEF ContentInv, WrittenInv, IsEnveloped
  <2> QED
    BY <1>1, <1>3, <2>1, ReferencesTogether
<1> QED
  BY <1>2, <1>3 DEF ContentInv

LEMMA OtherTokens ==
  ASSUME NEW kind, NEW tag, NEW v, kind \notin {"ntry", "bal"},
         tag \notin {"OPBD", "CLBD", "60", "61", "62"}
  PROVE  IsSound(Token(kind, tag, v))
BY DEF IsSound, Token

LEMMA FieldsAreSound ==
  ASSUME NEW tag \in {"20", "25", "60", "34F", "61", "86", "62"}, NEW v \in ValuesOf(tag)
  PROVE  IsSound(Token("line", tag, v))
<1>1. /\ Token("line", tag, v).kind = "line" /\ Token("line", tag, v).tag = tag
      /\ Token("line", tag, v).value = v
  BY DEF Token
<1>2. ASSUME tag = "60" PROVE IsCounted(v)
  <2>1. v = Value("C", 2, TRUE, 0)
    BY <1>2 DEF ValuesOf
  <2> QED
    BY <2>1 DEF Value, IsCounted, Marked
<1>3. ASSUME tag = "61" PROVE IsCounted(v)
  <2>1. v \in EntryValues
    BY <1>3 DEF ValuesOf
  <2> QED
    BY <2>1, ValueAssumption DEF IsCounted, Marked
<1>4. ASSUME tag = "62" PROVE IsCounted(v)
  <2>1. v \in BalanceValues
    BY <1>4 DEF ValuesOf
  <2> QED
    BY <2>1, ValueAssumption DEF IsCounted, Marked
<1> QED
  BY <1>1, <1>2, <1>3, <1>4 DEF IsSound

LEMMA NewMessagesAreSound ==
  ASSUME NEW t, NEW type, NEW v, IsNewMessage(t, type, v)
  PROVE  IsSeq(t) /\ AreSound(t) /\ BeginWithReferences(t)
<1> DEFINE b == Block("basic")
           a == Block("ack")
           p == Token("app", type, NoValue)
           o == Block("open")
           x == Token("line", "20", v)
<1>1. type \in {"940", "999"} /\ IsSeq(t)
  BY DEF IsNewMessage
<1>2. x.tag = "20" /\ b.kind # "open" /\ a.kind # "open" /\ p.kind # "open" /\ x.kind # "open"
  BY DEF Block, Token
<1>3. IsSound(b) /\ IsSound(a) /\ IsSound(p) /\ IsSound(o) /\ IsSound(x)
  <2>1. IsSound(Token("app", type, NoValue))
    BY <1>1, OtherTokens
  <2>2. IsSound(Token("line", "20", v))
    BY OtherTokens
  <2>3. IsSound(Token("basic", "", NoValue)) /\ IsSound(Token("ack", "", NoValue))
        /\ IsSound(Token("open", "", NoValue))
    BY OtherTokens
  <2> QED
    BY <2>1, <2>2, <2>3 DEF Block
<1>4. /\ b = Block("basic") /\ a = Block("ack") /\ o = Block("open")
      /\ p = Token("app", type, NoValue) /\ x = Token("line", "20", v)
  OBVIOUS
<1> HIDE DEF b, a, p, o, x
<1>5. CASE Len(t) = 4
  <2>1. t[1] = b /\ t[2] = p /\ t[3] = o /\ t[4] = x
    BY <1>4, <1>5 DEF IsNewMessage
  <2>2. \A q \in 1..Len(t) : q = 1 \/ q = 2 \/ q = 3 \/ q = 4
    BY <1>5
  <2>3. \A q \in 1..(Len(t) - 1) : q = 1 \/ q = 2 \/ q = 3
    BY <1>5
  <2>4. AreSound(t)
    BY <1>3, <2>1, <2>2 DEF AreSound
  <2>5. BeginWithReferences(t)
    BY <1>2, <2>1, <2>3 DEF BeginWithReferences
  <2> QED
    BY <1>1, <2>4, <2>5
<1>6. CASE Len(t) = 6
  <2>1. t[1] = b /\ t[2] = a /\ t[3] = b /\ t[4] = p /\ t[5] = o /\ t[6] = x
    BY <1>4, <1>6 DEF IsNewMessage
  <2>2. \A q \in 1..Len(t) : q = 1 \/ q = 2 \/ q = 3 \/ q = 4 \/ q = 5 \/ q = 6
    BY <1>6
  <2>3. \A q \in 1..(Len(t) - 1) : q = 1 \/ q = 2 \/ q = 3 \/ q = 4 \/ q = 5
    BY <1>6
  <2>4. AreSound(t)
    BY <1>3, <2>1, <2>2 DEF AreSound
  <2>5. BeginWithReferences(t)
    BY <1>2, <2>1, <2>3 DEF BeginWithReferences
  <2> QED
    BY <1>1, <2>4, <2>5
<1> QED
  BY <1>1, <1>5, <1>6 DEF IsNewMessage

LEMMA ContentHolds == Spec => []ContentInv
<1>1. Init => ContentInv
  <2> SUFFICES ASSUME Init PROVE ContentInv
    OBVIOUS
  <2>1. file = <<>> /\ Len(file) = 0
    BY DEF Init
  <2> QED
    BY <2>1 DEF ContentInv, AreSound, BeginWithReferences
<1>2. FileInv /\ WrittenInv /\ ContentInv /\ [Next]_vars => ContentInv'
  <2> SUFFICES ASSUME FileInv, WrittenInv, ContentInv, [Next]_vars PROVE ContentInv'
    OBVIOUS
  <2>1. ASSUME NEW x, IsSound(x), form' = form, file' = file \o <<x>> PROVE ContentInv'
    BY <2>1, OneToken, ContentGrows
  <2>2. ASSUME BankWrites PROVE ContentInv'
    <3>1. form' = form
      BY <2>2 DEF BankWrites
    <3>2. CASE WriteField
      <4>1. PICK tag \in IF LastTag \in DOMAIN Follows THEN Follows[LastTag] ELSE {} :
              \E v \in ValuesOf(tag) : file' = file \o <<Token("line", tag, v)>>
        BY <3>2 DEF WriteField, Write
      <4>2. PICK v \in ValuesOf(tag) : file' = file \o <<Token("line", tag, v)>>
        BY <4>1
      <4>3. tag \in {"20", "25", "60", "34F", "61", "86", "62"}
        <5>1. LastTag \in {"20", "25", "60", "34F", "61", "86", "62"} /\ tag \in Follows[LastTag]
          BY <4>1 DEF Follows
        <5> QED
          BY <5>1 DEF Follows
      <4>4. IsSound(Token("line", tag, v))
        BY <4>3, FieldsAreSound
      <4> QED
        BY <2>1, <3>1, <4>2, <4>4
    <3>3. CASE WriteMessage
      <4>1. PICK type, v, t : file' = file \o t /\ IsNewMessage(t, type, v)
        BY <3>3, NewMessage
      <4>2. IsSeq(t) /\ AreSound(t) /\ BeginWithReferences(t)
        BY <4>1, NewMessagesAreSound
      <4> QED
        BY <3>1, <4>1, <4>2, ContentGrows
    <3>4. CASE WriteEnd \/ WriteBetween \/ WriteWords
      <4>1. PICK kind \in {"close", "dash", "gap", "words"} : file' = file \o <<Block(kind)>>
        BY <3>4 DEF WriteEnd, WriteBetween, WriteWords, Write
      <4>2. IsSound(Block(kind))
        BY OtherTokens DEF Block
      <4> QED
        BY <2>1, <3>1, <4>1, <4>2
    <3>5. CASE WriteBare
      <4>1. PICK v : file' = file \o (<<>> \o <<Token("line", "20", v)>>)
        BY <3>5 DEF WriteBare, WriteReference, Write
      <4> DEFINE x == Token("line", "20", v)
      <4>2. IsSound(x)
        BY OtherTokens
      <4> HIDE DEF x
      <4>3. <<>> \o <<x>> = <<x>>
        OBVIOUS
      <4>4. file' = file \o <<x>>
        BY <4>1, <4>3 DEF x
      <4> QED
        BY <2>1, <3>1, <4>2, <4>4
    <3>6. CASE WriteStatement
      <4>1. \E v : file' = file \o <<Token("stmt", "", v)>>
                   \/ file' = file \o <<Token("stmt", "account", v)>>
        BY <3>6 DEF WriteStatement, Write
      <4>2. \A v : IsSound(Token("stmt", "", v)) /\ IsSound(Token("stmt", "account", v))
        BY OtherTokens
      <4> QED
        BY <2>1, <3>1, <4>1, <4>2
    <3>7. CASE WriteElement
      <4>1. CASE \E code \in {"OPBD", "CLBD"} : \E v \in BalanceValues :
                   file' = file \o <<Token("bal", code, v)>>
        <5>1. PICK code \in {"OPBD", "CLBD"} : \E v \in BalanceValues :
                 file' = file \o <<Token("bal", code, v)>>
          BY <4>1
        <5>2. PICK v \in BalanceValues : file' = file \o <<Token("bal", code, v)>>
          BY <5>1
        <5>3. IsCounted(v) /\ v.mark \in {"C", "D"}
          BY ValueAssumption DEF IsCounted, Marked
        <5> DEFINE x == Token("bal", code, v)
        <5>4. x.kind = "bal" /\ x.tag = code /\ x.value = v
          BY DEF Token
        <5> HIDE DEF x
        <5>5. IsSound(x)
          BY <5>3, <5>4 DEF IsSound
        <5> QED
          BY <2>1, <3>1, <5>2, <5>5 DEF x
      <4>2. CASE \E tag \in {"", "true"} : \E v \in EntryValues :
                   file' = file \o <<Token("ntry", tag, v)>>
        <5>1. PICK tag \in {"", "true"} : \E v \in EntryValues :
                 file' = file \o <<Token("ntry", tag, v)>>
          BY <4>2
        <5>2. PICK v \in EntryValues : file' = file \o <<Token("ntry", tag, v)>>
          BY <5>1
        <5>3. IsCounted(v)
          BY ValueAssumption DEF IsCounted, Marked
        <5> DEFINE x == Token("ntry", tag, v)
        <5>4. x.kind = "ntry" /\ x.tag = tag /\ x.value = v
          BY DEF Token
        <5> HIDE DEF x
        <5>5. IsSound(x)
          BY <5>3, <5>4 DEF IsSound
        <5> QED
          BY <2>1, <3>1, <5>2, <5>5 DEF x
      <4> QED
        BY <3>7, <4>1, <4>2 DEF WriteElement, Write
    <3> QED
      BY <2>2, <3>2, <3>3, <3>4, <3>5, <3>6, <3>7 DEF BankWrites
  <2>3. CASE UNCHANGED <<file, form>>
    BY <2>3 DEF ContentInv
  <2> QED
    BY <2>2, <2>3
       DEF Next, vars, LoadFile, Arrive, StartStore, CreateTable, CloseTable, StopStore, Ask, ReadTable
<1> QED
  BY <1>1, <1>2, FileHolds, WrittenHolds, PTL DEF Spec

-----------------------------------------------------------------------------
(* A file that is read as one message. *)

(* Its text begins with the first message, or with what acknowledges it. *)
LEMMA FieldsOfFile ==
  ASSUME IsSeq(file), IsEnveloped(file), NEW i \in Messages, \A j \in Messages : i <= j,
         NEW s, IsStop(i, s), s <= Len(file), file[s].kind = "close"
  PROVE  Fields(file) = LinesAfter(i + 2, s - i - 3)
<1> DEFINE N == Len(file)
           at == i + 2
           L == s - i - 3
           opens == Places(file, {"open", "ack"})
           o == First(opens)
           h == i + 2 - o
<1>1. /\ N \in Nat /\ i \in 1..N /\ file[i + 2].kind = "open" /\ DOMAIN file = 1..N
      /\ file[i + 3].kind = "line"
  BY MessageHeads, SeqShape
<1>2. /\ s \in (i + 4)..(N + 1) /\ \A q \in (i + 3)..(s - 1) : file[q].kind = "line"
  BY DEF IsStop
<1>3. ASSUME NEW q \in 1..(i + 2) PROVE file[q].kind \notin {"line", "close"}
  <2> SUFFICES ASSUME file[q].kind \in {"line", "close"} PROVE FALSE
    OBVIOUS
  <2>1. q \in 1..N
    BY <1>1, <1>2
  <2>2. PICK m : IsLinesFrom(m, q)
    BY <2>1, InMessage
  <2>3. m \in Messages /\ m + 3 <= q
    BY <2>2 DEF IsLinesFrom
  <2>4. m \in Int /\ i <= m
    BY <1>1, <2>3 DEF Messages, Places
  <2> QED
    BY <1>1, <2>3, <2>4
<1>4. /\ s \in Int /\ i \in Int /\ i >= 1 /\ i + 4 <= s /\ s <= N /\ at \in Nat /\ L \in Nat \ {0}
      /\ at \in 1..N /\ s \in 1..N
  <2>1. s \in Int /\ i \in Int /\ i >= 1 /\ i + 4 <= s /\ s <= N /\ N \in Int
    BY <1>1, <1>2
  <2> HIDE DEF N
  <2> QED
    BY <2>1
<1>5. opens \in SUBSET (1..N) /\ at \in opens
  BY <1>1, <1>4 DEF Places
<1>6. o \in opens /\ o \in 1..N /\ \A q \in opens : o <= q
  <2>1. opens \in SUBSET Nat /\ opens # {}
    BY <1>5
  <2>2. \E q \in opens : \A p \in opens : q <= p
    BY <2>1, Least
  <2> HIDE DEF opens
  <2>3. o \in opens /\ \A q \in opens : o <= q
    BY <2>2 DEF First
  <2> QED
    BY <1>5, <2>3
<1> HIDE DEF o
<1>7. file[o].kind \in {"open", "ack"} /\ o <= at /\ h \in Nat
  <2>1. o <= at
    BY <1>5, <1>6
  <2> QED
    BY <1>4, <1>6, <2>1 DEF Places
<1>8. \A q \in 1..(o - 1) : file[q].kind \notin {"open", "ack"}
  <2> SUFFICES ASSUME NEW q \in 1..(o - 1), file[q].kind \in {"open", "ack"} PROVE FALSE
    OBVIOUS
  <2>1. q \in 1..N /\ ~(o <= q)
    BY <1>1, <1>6
  <2>2. q \in opens
    BY <1>1, <2>1 DEF Places
  <2> QED
    BY <1>6, <2>1, <2>2
<1>9. \A q \in (o + 1)..(s - 1) : file[q].kind # "close"
  <2> SUFFICES ASSUME NEW q \in (o + 1)..(s - 1) PROVE file[q].kind # "close"
    OBVIOUS
  <2>1. q \in 1..(i + 2) \/ q \in (i + 3)..(s - 1)
    BY <1>4, <1>6
  <2> QED
    BY <1>2, <1>3, <2>1
<1>10. o \in 1..N /\ o < s
  BY <1>4, <1>6, <1>7
<1> HIDE DEF opens
<1>11. TextBlock(file) = SubSeq(file, o + 1, s - 1)
  BY <1>4, <1>7, <1>8, <1>9, <1>10, TextUpToEnd
<1> DEFINE a == o + 1
           b == s - 1
           text == SubSeq(file, a, b)
<1>12. a \in Int /\ b \in Int /\ 1 <= a /\ a <= b + 1 /\ b <= N /\ b - a + 1 = h + L
  BY <1>4, <1>6, <1>10
<1>13. IsSeq(text) /\ Len(text) = b - a + 1 /\ \A q \in 1..(b - a + 1) : text[q] = file[a + q - 1]
  <2> HIDE DEF a, b
  <2> QED
    BY <1>12, PartOf
<1>14. EndsWithLines(text, h, at, L)
  <2> HIDE DEF text
  <2>1. ASSUME NEW q \in 1..h PROVE text[q].kind # "line"
    <3>1. q \in 1..(b - a + 1) /\ a + q - 1 \in 1..(i + 2)
      BY <1>4, <1>6, <1>7, <1>12
    <3> QED
      BY <1>3, <1>13, <3>1
  <2>2. ASSUME NEW n \in 1..L PROVE text[h + n] = file[at + n] /\ file[at + n].kind = "line"
    <3>1. h + n \in 1..(b - a + 1) /\ a + (h + n) - 1 = at + n /\ at + n \in (i + 3)..(s - 1)
      BY <1>4, <1>6, <1>7, <1>12
    <3>2. text[h + n] = file[a + (h + n) - 1]
      BY <1>13, <3>1
    <3> QED
      BY <1>2, <3>1, <3>2
  <2> QED
    BY <2>1, <2>2 DEF EndsWithLines
<1>15. Len(text) = h + L
  BY <1>12, <1>13
<1> HIDE DEF text, h, at, L
<1>16. FieldsIn(text) = LinesAfter(at, L)
  BY <1>4, <1>7, <1>13, <1>14, <1>15, FieldsOfEnd
<1> QED
  BY <1>11, <1>16 DEF Fields, text, at, L

(* The lines of the first message are those up to its end. *)
LEMMA WrittenLines ==
  ASSUME form = "fin", IsSeq(file), IsEnveloped(file), NEW i \in Messages, i = First(Messages),
         NEW s, IsStop(i, s), s <= Len(file), NEW n
  PROVE  Written(n) = (i + 3)..(s - 1)
<1> DEFINE N == Len(file)
<1>1. /\ N \in Nat /\ i \in 1..N /\ DOMAIN file = 1..N
      /\ file[i + 1].kind = "app" /\ file[i + 2].kind = "open"
  BY MessageHeads, SeqShape
<1>2. /\ s \in (i + 4)..(N + 1) /\ \A q \in (i + 3)..(s - 1) : file[q].kind = "line"
      /\ file[s].kind \in {"basic", "close"}
  BY DEF IsStop
<1>3. EndOf(i) = s
  BY StopsAreEnds
<1>4. Written(n) = {k \in 1..N : file[k].kind = "line" /\ i < k /\ k <= s}
  BY <1>1, <1>3 DEF Written, Places
<1>5. ASSUME NEW k \in 1..N, file[k].kind = "line", i < k, k <= s PROVE k \in (i + 3)..(s - 1)
  <2>1. k # i + 1 /\ k # i + 2 /\ k # s
    BY <1>1, <1>2, <1>5
  <2> QED
    BY <1>1, <1>2, <1>5, <2>1
<1>6. ASSUME NEW k \in (i + 3)..(s - 1)
      PROVE  k \in 1..N /\ file[k].kind = "line" /\ i < k /\ k <= s
  BY <1>1, <1>2
<1> QED
  BY <1>4, <1>5, <1>6

(* Where a line stands there is a first message. *)
LEMMA FirstMessage ==
  ASSUME IsSeq(file), IsEnveloped(file), NEW p \in Places(file, {"line"})
  PROVE  First(Messages) \in Messages /\ \A j \in Messages : First(Messages) <= j
<1>1. Len(file) \in Nat /\ DOMAIN file = 1..Len(file)
  BY SeqShape
<1>2. p \in 1..Len(file) /\ file[p].kind = "line"
  BY <1>1 DEF Places
<1>3. PICK m : IsLinesFrom(m, p)
  BY <1>2, InMessage
<1>4. Messages \in SUBSET Nat /\ Messages # {}
  BY <1>1, <1>3 DEF IsLinesFrom, Messages, Places
<1>5. \E i \in Messages : \A j \in Messages : i <= j
  BY <1>4, Least
<1> QED
  BY <1>5 DEF First

(* Without a text block there are no fields, and no statement is read. *)
LEMMA NothingReadFromBare ==
  ASSUME IsSeq(file), IsBare(file)
  PROVE  ReadMt940(file) = <<>>
<1>1. Places(file, {"open", "ack"}) = {}
  <2>1. DOMAIN file = 1..Len(file)
    BY SeqShape
  <2>2. \A p \in 1..Len(file) : file[p].kind \in {"words", "line", "dash"}
    BY DEF IsBare, IsBareAt, IsOther
  <2> QED
    BY <2>1, <2>2 DEF Places
<1>2. Fields(file) = <<>>
  <2>1. TextBlock(file) = <<>>
    BY <1>1 DEF TextBlock
  <2> QED
    BY <2>1, NoFieldsInNothing DEF Fields
<1> DEFINE fields == Fields(file)
           N == Len(fields)
           read == CHOOSE f : IsReadingUp(fields, N, f)
           last == read[N]
<1>3. N = 0
  BY <1>2
<1>4. IsReadingUp(fields, N, read)
  <2> HIDE DEF fields, N
  <2> QED
    BY <1>3, ReadingsExist
<1>5. ReadMt940(file) = IF last.any THEN <<last.statement>> ELSE <<>>
  BY Zenon DEF ReadMt940, IsReadingUp
<1> HIDE DEF read, N, fields
<1>6. last = Reading
  <2>1. 0 \in 0..0
    OBVIOUS
  <2> QED
    BY <1>3, <1>4, <2>1 DEF IsReadingUp
<1>7. ~last.any
  BY <1>6 DEF Reading
<1> QED
  BY <1>5, <1>7

-----------------------------------------------------------------------------
(* What was read of the first lines of a message. *)

LEMMA SignIsEffect ==
  ASSUME NEW v, IsCounted(v), NEW info
  PROVE  /\ Effect(v) \in Int /\ Entry(v, info).signed = Effect(v) /\ Entry(v, info).info = info
         /\ Signed(Balance(v)) = {Effect(v)}
<1>1. v.mark \in {"C", "D", "RC", "RD"} /\ v.amount \in Int
  BY DEF IsCounted, Marked
<1>2. Sign(v.mark) * v.amount = Effect(v) /\ Effect(v) \in Int
  <2> DEFINE m == v.mark
             a == v.amount
  <2>1. m \in {"C", "D", "RC", "RD"} /\ a \in Int
    BY <1>1
  <2> HIDE DEF m, a
  <2>2. CASE m \in {"C", "RD"}
    <3>1. Sign(m) = 1 /\ ~(m \in {"D", "RC"})
      BY <2>2 DEF Sign
    <3>2. 1 * a = a
      BY <2>1
    <3> QED
      BY <2>1, <3>1, <3>2 DEF Effect, m, a
  <2>3. CASE m \in {"D", "RC"}
    <3>1. Sign(m) = -1
      BY <2>3 DEF Sign
    <3>2. (-1) * a = -a /\ -a \in Int
      BY <2>1
    <3> QED
      BY <2>3, <3>1, <3>2 DEF Effect, m, a
  <2> QED
    BY <2>1, <2>2, <2>3
<1>3. Signed(Balance(v)) = {Sign(v.mark) * v.amount}
  BY DEF Signed, Balance
<1> QED
  BY <1>2, <1>3 DEF Entry

EntryPlaces(at, k) == {p \in (at + 1)..(at + k) : file[p].tag = "61" /\ file[p].value.readable}

BalanceUpTo(at, k, tag) ==
  LET found == {p \in (at + 1)..(at + k) : file[p].tag = tag}
  IN IF found = {} \/ ~file[Final(found)].value.readable THEN {}
     ELSE {Effect(file[Final(found)].value)}

(* A line more. *)
IsNextLine(at, k) ==
  /\ IsSeq(file) /\ at \in Nat /\ k \in Nat \ {0} /\ at + k <= Len(file)
  /\ file[at + k].kind = "line" /\ IsSound(file[at + k])

LEMMA PlacesGrow ==
  ASSUME NEW at, NEW k, IsNextLine(at, k)
  PROVE  /\ Len(file) \in Nat /\ at + k \in 1..Len(file)
         /\ EntryPlaces(at, k - 1) \in SUBSET (1..Len(file))
         /\ EntryPlaces(at, k) \in SUBSET (1..Len(file))
         /\ \A p \in EntryPlaces(at, k - 1) : p < at + k
         /\ EntryPlaces(at, k) =
              IF file[at + k].tag = "61" /\ file[at + k].value.readable
              THEN EntryPlaces(at, k - 1) \cup {at + k} ELSE EntryPlaces(at, k - 1)
<1>1. Len(file) \in Nat /\ at \in Nat /\ k \in Nat \ {0} /\ at + k <= Len(file)
  BY SeqShape DEF IsNextLine
<1>2. \A p : p \in (at + 1)..(at + k) <=> p \in (at + 1)..(at + (k - 1)) \/ p = at + k
  BY <1>1
<1>3. \A p \in (at + 1)..(at + k) : p \in 1..Len(file)
  BY <1>1
<1>4. \A p \in (at + 1)..(at + (k - 1)) : p < at + k
  BY <1>1
<1> QED
  BY <1>1, <1>2, <1>3, <1>4 DEF EntryPlaces

LEMMA BalanceGrows ==
  ASSUME NEW at, NEW k, IsNextLine(at, k), NEW tag
  PROVE  BalanceUpTo(at, k, tag) =
           IF file[at + k].tag # tag THEN BalanceUpTo(at, k - 1, tag)
           ELSE IF file[at + k].value.readable THEN {Effect(file[at + k].value)} ELSE {}
<1> DEFINE p == at + k
           new == {q \in (at + 1)..(at + k) : file[q].tag = tag}
           old == {q \in (at + 1)..(at + (k - 1)) : file[q].tag = tag}
<1>1. at \in Nat /\ k \in Nat \ {0} /\ p \in Int
  BY DEF IsNextLine
<1>2. \A q : q \in (at + 1)..(at + k) <=> q \in (at + 1)..(at + (k - 1)) \/ q = p
  BY <1>1
<1>3. CASE file[p].tag # tag
  <2>1. new = old
    BY <1>2, <1>3
  <2> QED
    BY <1>3, <2>1 DEF BalanceUpTo
<1>4. CASE file[p].tag = tag
  <2>1. p \in new /\ new \in SUBSET Int /\ \A q \in new : q <= p
    BY <1>1, <1>4
  <2>2. BalanceUpTo(at, k, tag) = IF new = {} \/ ~file[Final(new)].value.readable THEN {}
                                  ELSE {Effect(file[Final(new)].value)}
    BY DEF BalanceUpTo
  <2> HIDE DEF new, p
  <2>3. Final(new) = p /\ new # {}
    BY <2>1, FinalIs
  <2> QED
    BY <1>4, <2>2, <2>3 DEF p
<1> QED
  BY <1>3, <1>4

IsEntry(e) == \E m, a, s, i : e = [mark |-> m, amount |-> a, signed |-> s, info |-> i]

(* The entries of those lines, in order and with their effects ... *)
AreEntries(entries, at, k) ==
  /\ IsSeq(entries) /\ Len(entries) = Cardinality(EntryPlaces(at, k))
  /\ \A j \in 1..Len(entries) :
       IsEntry(entries[j]) /\ entries[j].signed = Effect(file[InOrder(EntryPlaces(at, k))[j]].value)

TextAfter(p, at, k) ==
  IF p + 1 <= at + k /\ file[p + 1].tag = "86" THEN file[p + 1].value.text ELSE 0

(* The line below p could not be read. *)
IsShadowed(p, at, k) == p + 1 <= at + k /\ Unread(p + 1)

(* ... and with the texts that follow them, unless they are shadowed.  The *)
(* entry that a text would go to now is the last one, which either is the  *)
(* last line or is shadowed.                                               *)
AreTexts(entries, after, at, k) ==
  LET at61 == InOrder(EntryPlaces(at, k))
      n == Len(entries)
  IN /\ k > 0 /\ file[at + k].tag = "61" /\ file[at + k].value.readable => after
     /\ after => n > 0 /\ (at61[n] = at + k \/ IsShadowed(at61[n], at, k))
     /\ \A j \in 1..n : \/ IsShadowed(at61[j], at, k)
                       \/ entries[j].info = TextAfter(at61[j], at, k)

LEMMA ShadowStays ==
  ASSUME NEW at \in Nat, NEW k \in Nat \ {0}, NEW q \in Int, q < at + k
  PROVE  /\ IsShadowed(q, at, k - 1) => IsShadowed(q, at, k)
         /\ q # at + (k - 1) \/ file[at + k].tag # "86" => TextAfter(q, at, k) = TextAfter(q, at, k - 1)
<1>1. q + 1 <= at + k /\ (q + 1 <= at + (k - 1) \/ q + 1 = at + k)
  OBVIOUS
<1>2. q + 1 = at + k => q = at + (k - 1) /\ ~(q + 1 <= at + (k - 1))
  OBVIOUS
<1>3. IsShadowed(q, at, k - 1) => IsShadowed(q, at, k)
  BY <1>1 DEF IsShadowed
<1>4. CASE q + 1 = at + k
  BY <1>1, <1>2, <1>3, <1>4 DEF TextAfter
<1>5. CASE q + 1 <= at + (k - 1)
  BY <1>1, <1>3, <1>5 DEF TextAfter
<1> QED
  BY <1>1, <1>4, <1>5

LEMMA PlacesAscend ==
  ASSUME NEW N \in Nat, NEW S \in SUBSET (1..N), NEW m \in 1..Cardinality(S),
         NEW n \in 1..Cardinality(S), m < n
  PROVE  InOrder(S)[m] < InOrder(S)[n]
<1> DEFINE i == InOrder(S)[m]
           k == InOrder(S)[n]
<1>1. i \in S /\ k \in S /\ Cardinality(Below(S, i)) = m - 1 /\ Cardinality(Below(S, k)) = n - 1
  BY NthRank
<1>2. m \in Int /\ n \in Int
  OBVIOUS
<1> HIDE DEF i, k
<1>3. i \in Int /\ k \in Int
  BY <1>1
<1>4. ~(k < i)
  <2> SUFFICES ASSUME k < i PROVE FALSE
    OBVIOUS
  <2>1. Cardinality(Below(S, k)) + 1 <= Cardinality(Below(S, i))
    BY <1>1, <1>3, HigherRank
  <2> QED
    BY <1>1, <1>2, <2>1
<1>5. i # k
  BY <1>1, <1>2
<1> QED
  BY <1>3, <1>4, <1>5 DEF i, k

LEMMA EntriesGrow ==
  ASSUME NEW at, NEW k, IsNextLine(at, k), NEW e, AreEntries(e, at, k - 1),
         file[at + k].tag = "61", file[at + k].value.readable,
         NEW x, IsEntry(x), x.signed = Effect(file[at + k].value)
  PROVE  /\ AreEntries(Append(e, x), at, k)
         /\ \A after : AreTexts(e, after, at, k - 1) /\ x.info = 0 =>
                         AreTexts(Append(e, x), TRUE, at, k)
<1> DEFINE S == EntryPlaces(at, k - 1)
           T == EntryPlaces(at, k)
           C == Cardinality(S)
           p == at + k
           f == Append(e, x)
<1>0. at \in Nat /\ k \in Nat \ {0} /\ p = at + k
  BY DEF IsNextLine
<1>1. Len(file) \in Nat /\ p \in 1..Len(file) /\ S \in SUBSET (1..Len(file))
      /\ (\A q \in S : q < p) /\ T = S \cup {p}
  BY PlacesGrow
<1>2. /\ IsSeq(e) /\ Len(e) = C
      /\ \A j \in 1..Len(e) : IsEntry(e[j]) /\ e[j].signed = Effect(file[InOrder(S)[j]].value)
  BY DEF AreEntries
<1>3. IsSeq(f) /\ Len(f) = Len(e) + 1 /\ f[Len(e) + 1] = x /\ \A j \in 1..Len(e) : f[j] = e[j]
  <2>1. PICK U : e \in Seq(U)
    BY <1>2 DEF IsSeq
  <2> DEFINE V == U \cup {x}
  <2>2. e \in Seq(V) /\ x \in V
    BY <2>1, SeqMonotonic
  <2> HIDE DEF V
  <2>3. f \in Seq(V) /\ Len(f) = Len(e) + 1 /\ f[Len(e) + 1] = x /\ \A j \in 1..Len(e) : f[j] = e[j]
    BY <2>2
  <2> HIDE DEF f
  <2> QED
    BY <2>3 DEF IsSeq
<1> HIDE DEF S, T, p, f
<1>4. /\ C \in Nat /\ Cardinality(T) = C + 1
      /\ \A n \in 1..C : InOrder(T)[n] = InOrder(S)[n] /\ InOrder(S)[n] \in S
      /\ InOrder(T)[C + 1] = p
  <2>1. /\ C \in Nat /\ Cardinality(S \cup {p}) = C + 1
        /\ \A n \in 1..C : InOrder(S \cup {p})[n] = InOrder(S)[n]
        /\ InOrder(S \cup {p})[C + 1] = p
    BY <1>1, OneMorePlace
  <2>2. \A n \in 1..C : InOrder(S)[n] \in S
    BY <1>1, NthIsIn
  <2> QED
    BY <1>1, <2>1, <2>2
<1> HIDE DEF C
<1>5. \A j \in 1..Len(f) : j \in 1..C \/ j = C + 1
  BY <1>2, <1>3, <1>4
<1>6. AreEntries(f, at, k)
  <2>1. ASSUME NEW j \in 1..Len(f)
        PROVE  IsEntry(f[j]) /\ f[j].signed = Effect(file[InOrder(T)[j]].value)
    <3>1. CASE j \in 1..C
      BY <1>2, <1>3, <1>4, <3>1
    <3>2. CASE j = C + 1
      <4>1. f[j] = x /\ InOrder(T)[j] = p
        BY <1>2, <1>3, <1>4, <3>2
      <4> QED
        BY <4>1 DEF p
    <3> QED
      BY <1>5, <3>1, <3>2
  <2>2. Len(f) = Cardinality(T)
    BY <1>2, <1>3, <1>4
  <2> QED
    BY <1>3, <2>1, <2>2 DEF AreEntries, T
<1>7. ASSUME NEW after, AreTexts(e, after, at, k - 1), x.info = 0
      PROVE  AreTexts(f, TRUE, at, k)
  <2>1. \A j \in 1..Len(e) : \/ IsShadowed(InOrder(S)[j], at, k - 1)
                             \/ e[j].info = TextAfter(InOrder(S)[j], at, k - 1)
    BY <1>7 DEF AreTexts, S
  <2>2. ASSUME NEW j \in 1..Len(f)
        PROVE  IsShadowed(InOrder(T)[j], at, k) \/ f[j].info = TextAfter(InOrder(T)[j], at, k)
    <3>1. CASE j \in 1..C
      <4> DEFINE q == InOrder(S)[j]
      <4>1. /\ InOrder(T)[j] = q /\ f[j] = e[j] /\ q \in S
            /\ IsShadowed(q, at, k - 1) \/ e[j].info = TextAfter(q, at, k - 1)
        BY <1>2, <1>3, <1>4, <2>1, <3>1
      <4> HIDE DEF q
      <4>2. q \in Int /\ q < at + k /\ file[at + k].tag # "86"
        BY <1>1, <4>1 DEF p
      <4> QED
        BY <1>0, <4>1, <4>2, ShadowStays
    <3>2. CASE j = C + 1
      <4>1. f[j] = x /\ InOrder(T)[j] = p
        BY <1>2, <1>3, <1>4, <3>2
      <4>2. ~(p + 1 <= at + k)
        BY <1>0
      <4>3. TextAfter(p, at, k) = 0
        BY <4>2 DEF TextAfter
      <4> QED
        BY <1>7, <4>1, <4>3
    <3> QED
      BY <1>5, <3>1, <3>2
  <2>3. Len(f) > 0 /\ InOrder(T)[Len(f)] = at + k
    BY <1>0, <1>2, <1>3, <1>4
  <2> QED
    BY <2>2, <2>3 DEF AreTexts, T
<1> QED
  BY <1>6, <1>7 DEF f

LEMMA EntriesStay ==
  ASSUME NEW at, NEW k, IsNextLine(at, k), NEW e, AreEntries(e, at, k - 1),
         ~(file[at + k].tag = "61" /\ file[at + k].value.readable)
  PROVE  /\ AreEntries(e, at, k)
         /\ \A after : AreTexts(e, after, at, k - 1) =>
              /\ file[at + k].tag = "61" => AreTexts(e, after, at, k)
              /\ file[at + k].tag \notin {"61", "86"} => AreTexts(e, FALSE, at, k)
<1> DEFINE S == EntryPlaces(at, k - 1)
           n == Len(e)
<1>0. at \in Nat /\ k \in Nat \ {0}
  BY DEF IsNextLine
<1>1. Len(file) \in Nat /\ S \in SUBSET (1..Len(file)) /\ (\A q \in S : q < at + k)
      /\ EntryPlaces(at, k) = S
  BY PlacesGrow
<1>2. IsSeq(e) /\ Len(e) = Cardinality(S) /\ Len(e) \in Nat
  BY SeqShape DEF AreEntries
<1>3. AreEntries(e, at, k)
  BY <1>1 DEF AreEntries
<1> HIDE DEF S
<1>4. \A j \in 1..n : InOrder(S)[j] \in Int /\ InOrder(S)[j] < at + k
  <2>1. \A j \in 1..n : InOrder(S)[j] \in S
    BY <1>1, <1>2, NthIsIn
  <2>2. \A q \in S : q \in Int /\ q < at + k
    BY <1>1
  <2> QED
    BY <2>1, <2>2
<1>5. ASSUME NEW after, AreTexts(e, after, at, k - 1)
      PROVE  /\ file[at + k].tag = "61" => AreTexts(e, after, at, k)
             /\ file[at + k].tag \notin {"61", "86"} => AreTexts(e, FALSE, at, k)
  <2>1. /\ after => n > 0 /\ (InOrder(S)[n] = at + (k - 1) \/ IsShadowed(InOrder(S)[n], at, k - 1))
        /\ \A j \in 1..n : \/ IsShadowed(InOrder(S)[j], at, k - 1)
                          \/ e[j].info = TextAfter(InOrder(S)[j], at, k - 1)
    BY <1>5 DEF AreTexts, S
  <2>2. ASSUME file[at + k].tag # "86", NEW j \in 1..n
        PROVE  IsShadowed(InOrder(S)[j], at, k) \/ e[j].info = TextAfter(InOrder(S)[j], at, k)
    BY <1>0, <1>4, <2>1, <2>2, ShadowStays
  <2>3. ASSUME file[at + k].tag = "61", after
        PROVE  n > 0 /\ IsShadowed(InOrder(S)[n], at, k)
    <3> DEFINE q == InOrder(S)[n]
    <3>1. n \in 1..n
      BY <1>2, <2>1, <2>3
    <3>2. q \in Int /\ q < at + k /\ (q = at + (k - 1) \/ IsShadowed(q, at, k - 1))
      BY <1>4, <2>1, <2>3, <3>1
    <3> HIDE DEF q
    <3>3. CASE q = at + (k - 1)
      <4>1. q + 1 = at + k /\ q + 1 <= at + k
        BY <1>0, <3>3
      <4> QED
        BY <2>1, <2>3, <4>1 DEF IsShadowed, Unread, q
    <3>4. CASE IsShadowed(q, at, k - 1)
      BY <1>0, <2>1, <2>3, <3>2, <3>4, ShadowStays DEF q
    <3> QED
      BY <3>2, <3>3, <3>4
  <2> QED
    BY <1>1, <2>2, <2>3 DEF AreTexts
<1> QED
  BY <1>3, <1>5

LEMMA TextsStand ==
  ASSUME NEW e, IsSeq(e), NEW text
  PROVE  \A j \in 1..Len(e) : IsEntry(e[j]) =>
           /\ IsEntry(WithText(e, text)[j]) /\ WithText(e, text)[j].signed = e[j].signed
           /\ WithText(e, text)[j].info = IF j = Len(e) THEN text ELSE e[j].info
<1> DEFINE n == Len(e)
<1>1. n \in Nat /\ DOMAIN e = 1..n
  BY SeqShape
<1> SUFFICES ASSUME NEW j \in 1..n, IsEntry(e[j])
             PROVE  /\ IsEntry(WithText(e, text)[j]) /\ WithText(e, text)[j].signed = e[j].signed
                    /\ WithText(e, text)[j].info = IF j = n THEN text ELSE e[j].info
  OBVIOUS
<1>2. WithText(e, text) = [e EXCEPT ![n] = [e[n] EXCEPT !.info = text]]
  BY DEF WithText
<1> HIDE DEF n
<1>3. CASE j = n
  <2> DEFINE old == e[j]
             new == [old EXCEPT !.info = text]
  <2>1. WithText(e, text)[j] = new
    BY <1>1, <1>2, <1>3
  <2>2. PICK m, a, s, i : old = [mark |-> m, amount |-> a, signed |-> s, info |-> i]
    BY DEF IsEntry
  <2> HIDE DEF old
  <2>3. new = [mark |-> m, amount |-> a, signed |-> s, info |-> text]
    BY <2>2
  <2> HIDE DEF new
  <2>4. IsEntry(new) /\ new.signed = old.signed /\ new.info = text
    BY <2>2, <2>3 DEF IsEntry
  <2> QED
    BY <1>3, <2>1, <2>4 DEF old
<1>4. CASE j # n
  <2>1. WithText(e, text)[j] = e[j]
    BY <1>1, <1>2, <1>4
  <2> QED
    BY <1>4, <2>1
<1> QED
  BY <1>3, <1>4

LEMMA TextFollows ==
  ASSUME NEW at, NEW k, IsNextLine(at, k),
         NEW e, AreEntries(e, at, k - 1), file[at + k].tag = "86"
  PROVE  /\ AreEntries(WithText(e, file[at + k].value.text), at, k)
         /\ \A after \in BOOLEAN :
              AreTexts(e, after, at, k - 1)
              => AreTexts(Informed(e, after, file[at + k].value.text), FALSE, at, k)
<1> DEFINE S == EntryPlaces(at, k - 1)
           text == file[at + k].value.text
           f == WithText(e, text)
           p == at + k
<1>0. at \in Nat /\ k \in Nat \ {0}
  BY DEF IsNextLine
<1>1. Len(file) \in Nat /\ S \in SUBSET (1..Len(file)) /\ (\A q \in S : q < p)
      /\ EntryPlaces(at, k) = S
  BY PlacesGrow
<1>2. /\ IsSeq(e) /\ Len(e) = Cardinality(S)
      /\ \A j \in 1..Len(e) : IsEntry(e[j]) /\ e[j].signed = Effect(file[InOrder(S)[j]].value)
  BY DEF AreEntries
<1>3. /\ IsSeq(f) /\ Len(f) = Len(e)
      /\ \A j \in 1..Len(e) : /\ IsEntry(f[j]) /\ f[j].signed = e[j].signed
                              /\ f[j].info = IF j = Len(e) THEN text ELSE e[j].info
  BY <1>2, TextIsKept, TextsStand
<1> HIDE DEF f
<1>4. AreEntries(f, at, k)
  BY <1>1, <1>2, <1>3 DEF AreEntries
<1> HIDE DEF S
<1>5. \A j \in 1..Len(e) : InOrder(S)[j] \in S
  BY <1>1, <1>2, NthIsIn
<1>6. \A j \in 1..Len(e) : InOrder(S)[j] \in Int /\ InOrder(S)[j] < at + k
  <2>1. \A q \in S : q \in Int /\ q < at + k
    BY <1>1
  <2> QED
    BY <1>5, <2>1
<1>7. ASSUME NEW after \in BOOLEAN, AreTexts(e, after, at, k - 1)
      PROVE  AreTexts(Informed(e, after, text), FALSE, at, k)
  <2> DEFINE n == Len(e)
             q(j) == InOrder(S)[j]
             IsRight(entry, j) == IsShadowed(q(j), at, k) \/ entry.info = TextAfter(q(j), at, k)
  <2>1. /\ p - 1 \in S => after
        /\ after => n > 0 /\ (q(n) = p - 1 \/ IsShadowed(q(n), at, k - 1))
        /\ \A j \in 1..n : IsShadowed(q(j), at, k - 1) \/ e[j].info = TextAfter(q(j), at, k - 1)
    <3>1. at + (k - 1) = p - 1
      BY <1>0
    <3>2. p - 1 \in S => /\ k - 1 > 0 /\ file[p - 1].tag = "61" /\ file[p - 1].value.readable
      BY <1>0 DEF S, EntryPlaces
    <3> QED
      BY <1>7, <3>1, <3>2 DEF AreTexts, S
  <2>2. ASSUME NEW j \in 1..n, q(j) # p - 1 PROVE IsRight(e[j], j)
    <3>1. q(j) # at + (k - 1)
      BY <1>0, <2>2
    <3> QED
      BY <1>0, <1>6, <2>1, <3>1, ShadowStays
  <2>3. CASE after
    <3>1. n \in 1..n /\ n \in Nat
      <4>1. n \in Nat
        BY <1>2, SeqShape
      <4> QED
        BY <2>1, <2>3, <4>1
    <3>2. IsShadowed(q(n), at, k - 1) => q(n) < p - 1
      <4>1. q(n) \in Int
        BY <1>6, <3>1
      <4> QED
        BY <1>0, <4>1 DEF IsShadowed
    <3>3. ASSUME NEW j \in 1..n PROVE IsRight(f[j], j)
      <4>1. CASE j # n
        <5>1. j < n
          BY <3>1, <4>1
        <5>2. q(j) < q(n)
          BY <1>1, <1>2, <3>1, <5>1, PlacesAscend
        <5>3. q(j) \in Int /\ q(n) \in Int
          BY <1>6, <3>1
        <5>4. q(j) # p - 1
          BY <1>0, <2>1, <2>3, <3>2, <5>2, <5>3
        <5>5. f[j].info = e[j].info
          BY <1>3, <4>1
        <5> QED
          BY <2>2, <5>4, <5>5
      <4>2. CASE j = n /\ q(n) = p - 1
        <5>1. f[j].info = text
          BY <1>3, <3>1, <4>2
        <5>2. p - 1 + 1 = at + k /\ at + k <= at + k
          BY <1>0
        <5>3. TextAfter(p - 1, at, k) = text
          BY <5>2 DEF TextAfter
        <5> QED
          BY <4>2, <5>1, <5>3
      <4>3. CASE j = n /\ IsShadowed(q(n), at, k - 1)
        BY <1>0, <1>6, <4>3, ShadowStays
      <4> QED
        BY <2>1, <2>3, <4>1, <4>2, <4>3
    <3>4. Informed(e, after, text) = f
      BY <2>3 DEF Informed, f
    <3>5. \A j \in 1..Len(f) : IsRight(f[j], j)
      BY <1>3, <3>3
    <3> QED
      BY <1>1, <3>4, <3>5 DEF AreTexts
  <2>4. CASE ~after
    <3>1. \A j \in 1..n : q(j) # p - 1
      BY <1>5, <2>1, <2>4
    <3>2. \A j \in 1..n : IsRight(e[j], j)
      BY <2>2, <3>1
    <3>3. Informed(e, after, text) = e
      BY <2>4 DEF Informed
    <3> QED
      BY <1>1, <3>2, <3>3 DEF AreTexts
  <2> QED
    BY <2>3, <2>4
<1> QED
  BY <1>4, <1>7 DEF f

(* Balances, entries and texts are those of the lines so far. *)
AreRead(opening, closing, entries, after, at, k) ==
  /\ Signed(opening) = BalanceUpTo(at, k, "60") /\ Signed(closing) = BalanceUpTo(at, k, "62")
  /\ AreEntries(entries, at, k)
  /\ AreTexts(entries, after, at, k)

LineBalance(v) == IF v.readable THEN Balance(v) ELSE {}

(* What is read of a line more. *)
AreReadOn(o, c, e, a, v, tag, at, k) ==
  /\ tag = "60" => AreRead(LineBalance(v), c, e, FALSE, at, k)
  /\ tag = "62" => AreRead(o, LineBalance(v), e, FALSE, at, k)
  /\ tag = "61" /\ ~v.readable => AreRead(o, c, e, a, at, k)
  /\ tag = "61" /\ v.readable => AreRead(o, c, Append(e, Entry(v, 0)), TRUE, at, k)
  /\ tag = "86" => AreRead(o, c, Informed(e, a, v.text), FALSE, at, k)
  /\ tag \notin {"60", "61", "62", "86"} => AreRead(o, c, e, FALSE, at, k)

LEMMA NextIsRead ==
  ASSUME NEW at, NEW k, IsNextLine(at, k),
         NEW o, NEW c, NEW e, NEW a \in BOOLEAN, AreRead(o, c, e, a, at, k - 1),
         NEW v, v = file[at + k].value, NEW tag, tag = file[at + k].tag
  PROVE  AreReadOn(o, c, e, a, v, tag, at, k)
<1>1. at \in Nat /\ k \in Nat \ {0}
  BY DEF IsNextLine
<1>2. /\ Signed(o) = BalanceUpTo(at, k - 1, "60") /\ Signed(c) = BalanceUpTo(at, k - 1, "62")
      /\ AreEntries(e, at, k - 1)
      /\ AreTexts(e, a, at, k - 1)
  BY DEF AreRead
<1>3. tag \in {"60", "61", "62"} => IsCounted(v)
  BY DEF IsNextLine, IsSound
<1>4. tag # "60" => BalanceUpTo(at, k, "60") = Signed(o)
  BY <1>2, BalanceGrows
<1>5. tag # "62" => BalanceUpTo(at, k, "62") = Signed(c)
  BY <1>2, BalanceGrows
<1>6. tag \in {"60", "62"} => BalanceUpTo(at, k, tag) = Signed(LineBalance(v))
  <2> SUFFICES ASSUME tag \in {"60", "62"} PROVE BalanceUpTo(at, k, tag) = Signed(LineBalance(v))
    OBVIOUS
  <2>1. BalanceUpTo(at, k, tag) = IF v.readable THEN {Effect(v)} ELSE {}
    BY BalanceGrows
  <2>2. Signed(Balance(v)) = {Effect(v)}
    BY <1>3, SignIsEffect
  <2>3. Signed({}) = {}
    BY DEF Signed
  <2> QED
    BY <2>1, <2>2, <2>3 DEF LineBalance
<1>7. ~(tag = "61" /\ v.readable) => AreEntries(e, at, k)
  BY <1>2, EntriesStay
<1>8. /\ tag = "61" /\ ~v.readable => AreTexts(e, a, at, k)
      /\ tag \notin {"61", "86"} => AreTexts(e, FALSE, at, k)
  BY <1>2, EntriesStay
<1>9. ASSUME tag = "60" PROVE AreRead(LineBalance(v), c, e, FALSE, at, k)
  BY <1>5, <1>6, <1>7, <1>8, <1>9 DEF AreRead
<1>10. ASSUME tag = "62" PROVE AreRead(o, LineBalance(v), e, FALSE, at, k)
  BY <1>4, <1>6, <1>7, <1>8, <1>10 DEF AreRead
<1>11. ASSUME tag = "61", ~v.readable PROVE AreRead(o, c, e, a, at, k)
  BY <1>4, <1>5, <1>7, <1>8, <1>11 DEF AreRead
<1>12. ASSUME tag = "61", v.readable PROVE AreRead(o, c, Append(e, Entry(v, 0)), TRUE, at, k)
  <2> DEFINE x == Entry(v, 0)
  <2>1. IsEntry(x)
    BY DEF Entry, IsEntry
  <2>2. x.signed = Effect(v) /\ x.info = 0
    BY <1>3, <1>12, SignIsEffect
  <2> HIDE DEF x
  <2>3. /\ AreEntries(Append(e, x), at, k)
        /\ AreTexts(e, a, at, k - 1) => AreTexts(Append(e, x), TRUE, at, k)
    BY <1>2, <1>12, <2>1, <2>2, EntriesGrow
  <2> QED
    BY <1>2, <1>4, <1>5, <1>12, <2>3 DEF AreRead, x
<1>13. ASSUME tag = "86" PROVE AreRead(o, c, Informed(e, a, v.text), FALSE, at, k)
  <2> DEFINE f == Informed(e, a, file[at + k].value.text)
  <2>1. f = Informed(e, a, v.text)
    OBVIOUS
  <2>2. AreEntries(f, at, k)
    BY <1>2, <1>7, <1>13, TextFollows DEF Informed
  <2>3. AreTexts(f, FALSE, at, k)
    BY <1>2, <1>13, TextFollows
  <2> HIDE DEF f
  <2> QED
    BY <1>4, <1>5, <1>13, <2>1, <2>2, <2>3 DEF AreRead
<1>14. ASSUME tag \notin {"60", "61", "62", "86"} PROVE AreRead(o, c, e, FALSE, at, k)
  BY <1>4, <1>5, <1>7, <1>8, <1>14 DEF AreRead
<1> QED
  BY <1>9, <1>10, <1>11, <1>12, <1>13, <1>14 DEF AreReadOn

IsReadUpTo(r, at, k) ==
  \E id, opening, closing, entries, any, after :
    /\ r = ReadingOf("swift", id, opening, closing, entries, any, after)
    /\ after \in BOOLEAN /\ (k > 0 => any = TRUE)
    /\ AreRead(opening, closing, entries, after, at, k)

LEMMA NothingReadYet ==
  ASSUME NEW at \in Nat
  PROVE  IsReadUpTo(Reading, at, 0)
<1>1. Reading = ReadingOf("swift", 0, {}, {}, <<>>, FALSE, FALSE)
  BY DEF Reading, ReadingOf
<1>2. (at + 1)..(at + 0) = {} /\ ~(0 > 0)
  OBVIOUS
<1>3. EntryPlaces(at, 0) = {} /\ BalanceUpTo(at, 0, "60") = {} /\ BalanceUpTo(at, 0, "62") = {}
  BY <1>2 DEF EntryPlaces, BalanceUpTo
<1>4. Signed({}) = {}
  BY DEF Signed
<1>5. IsSeq(<<>>) /\ Len(<<>>) = 0 /\ 1..0 = {} /\ Cardinality({}) = 0
  <2>1. IsSeq(<<>>)
    BY ShortSeqs
  <2>2. Cardinality({}) = 0
    BY FS_EmptySet
  <2> QED
    BY <2>1, <2>2
<1>6. AreEntries(<<>>, at, 0) /\ AreTexts(<<>>, FALSE, at, 0)
  BY <1>2, <1>3, <1>5 DEF AreEntries, AreTexts
<1>7. AreRead({}, {}, <<>>, FALSE, at, 0)
  BY <1>3, <1>4, <1>6 DEF AreRead
<1> QED
  BY <1>1, <1>2, <1>7 DEF IsReadUpTo

LEMMA ReadingOn ==
  ASSUME NEW at, NEW k, IsNextLine(at, k),
         k = 1 => file[at + k].tag = "20", NEW r, IsReadUpTo(r, at, k - 1),
         NEW field, field = [tag |-> file[at + k].tag, value |-> file[at + k].value, whole |-> TRUE]
  PROVE  IsReadUpTo(Take(r, field), at, k)
<1>1. PICK id, o, c, e, any, a :
        /\ r = ReadingOf("swift", id, o, c, e, any, a)
        /\ a \in BOOLEAN /\ (k - 1 > 0 => any = TRUE) /\ AreRead(o, c, e, a, at, k - 1)
  BY DEF IsReadUpTo
<1> DEFINE v == field.value
           tag == field.tag
           t == Take(r, field)
<1>2. v = file[at + k].value /\ tag = file[at + k].tag /\ field.whole = TRUE
  OBVIOUS
<1>3. BalanceIn(field) = LineBalance(v)
  BY <1>2 DEF BalanceIn, LineBalance
<1>4. IsTaken(t, field, "swift", id, o, c, e, any, a)
  BY <1>1, WhatTakeDoes
<1> DEFINE more == Append(e, Entry(v, 0))
           text == Informed(e, a, v.text)
<1>5. /\ tag = "20" => t = ReadingOf("swift", IF id = 0 THEN v.text ELSE id, o, c, e, TRUE, FALSE)
      /\ tag = "25" => t = ReadingOf("swift", id, o, c, e, TRUE, FALSE)
      /\ tag = "60" => t = ReadingOf("swift", id, LineBalance(v), c, e, any, FALSE)
      /\ tag = "62" => t = ReadingOf("swift", id, o, LineBalance(v), e, any, FALSE)
      /\ tag = "61" /\ ~v.readable => t = ReadingOf("swift", id, o, c, e, any, a)
      /\ tag = "61" /\ v.readable => t = ReadingOf("swift", id, o, c, more, TRUE, TRUE)
      /\ tag = "86" => t = ReadingOf("swift", id, o, c, text, any, FALSE)
      /\ tag \notin {"20", "25", "60", "61", "86", "62"} =>
           t = ReadingOf("swift", id, o, c, e, any, FALSE)
  BY <1>2, <1>3, <1>4 DEF IsTaken
<1>6. /\ tag = "60" => AreRead(LineBalance(v), c, e, FALSE, at, k)
      /\ tag = "62" => AreRead(o, LineBalance(v), e, FALSE, at, k)
      /\ tag = "61" /\ ~v.readable => AreRead(o, c, e, a, at, k)
      /\ tag = "61" /\ v.readable => AreRead(o, c, more, TRUE, at, k)
      /\ tag = "86" => AreRead(o, c, text, FALSE, at, k)
      /\ tag \notin {"60", "61", "62", "86"} => AreRead(o, c, e, FALSE, at, k)
  <2> HIDE DEF v, tag
  <2>1. AreReadOn(o, c, e, a, v, tag, at, k)
    BY <1>1, <1>2, NextIsRead
  <2> QED
    BY <2>1 DEF AreReadOn
<1>7. tag # "20" => any = TRUE
  <2>1. k \in Nat \ {0}
    BY DEF IsNextLine
  <2>2. k # 1 => k - 1 > 0
    BY <2>1
  <2> QED
    BY <1>1, <1>2, <2>2
<1> HIDE DEF v, tag, t, more, text
<1>8. IsReadUpTo(t, at, k)
  <2>1. ASSUME NEW i, NEW x, NEW y, NEW es, NEW b \in BOOLEAN,
               t = ReadingOf("swift", i, x, y, es, TRUE, b), AreRead(x, y, es, b, at, k)
        PROVE  IsReadUpTo(t, at, k)
    BY <2>1 DEF IsReadUpTo
  <2>2. CASE tag = "20"
    <3>1. t = ReadingOf("swift", IF id = 0 THEN v.text ELSE id, o, c, e, TRUE, FALSE)
          /\ AreRead(o, c, e, FALSE, at, k)
      BY <1>5, <1>6, <2>2
    <3> QED
      BY <2>1, <3>1
  <2>3. CASE tag # "20"
    <3>1. any = TRUE
      BY <1>7, <2>3
    <3>2. CASE tag = "60"
      BY <1>5, <1>6, <2>1, <3>1, <3>2
    <3>3. CASE tag = "62"
      BY <1>5, <1>6, <2>1, <3>1, <3>3
    <3>4. CASE tag = "61" /\ ~v.readable
      BY <1>1, <1>5, <1>6, <2>1, <3>1, <3>4
    <3>5. CASE tag = "61" /\ v.readable
      BY <1>5, <1>6, <2>1, <3>5
    <3>6. CASE tag = "86"
      BY <1>5, <1>6, <2>1, <3>1, <3>6
    <3>7. CASE tag \notin {"20", "60", "61", "62", "86"}
      <4>1. t = ReadingOf("swift", id, o, c, e, TRUE, FALSE) /\ AreRead(o, c, e, FALSE, at, k)
        BY <1>5, <1>6, <3>1, <3>7
      <4> QED
        BY <2>1, <4>1
    <3> QED
      BY <2>3, <3>2, <3>3, <3>4, <3>5, <3>6, <3>7
  <2> QED
    BY <2>2, <2>3
<1> QED
  BY <1>8 DEF t

-----------------------------------------------------------------------------
(* A statement as it was written. *)

LEMMA NextLines ==
  ASSUME IsSeq(file), IsEnveloped(file), AreSound(file), NEW i \in Messages, NEW s, IsStop(i, s),
         s <= Len(file)
  PROVE  \A k \in 1..(s - i - 3) : IsNextLine(i + 2, k)
<1>1. /\ Len(file) \in Nat /\ i \in 1..Len(file)
  BY MessageHeads
<1>2. /\ s \in (i + 4)..(Len(file) + 1) /\ \A q \in (i + 3)..(s - 1) : file[q].kind = "line"
  BY DEF IsStop
<1> SUFFICES ASSUME NEW k \in 1..(s - i - 3) PROVE IsNextLine(i + 2, k)
  OBVIOUS
<1> DEFINE at == i + 2
           p == at + k
<1>3. /\ at \in Nat /\ k \in Nat \ {0} /\ p <= Len(file) /\ p \in 1..Len(file)
      /\ p \in (i + 3)..(s - 1)
  BY <1>1, <1>2
<1>4. file[p].kind = "line" /\ IsSound(file[p])
  BY <1>2, <1>3 DEF AreSound
<1> HIDE DEF at
<1>5. IsNextLine(at, k)
  BY <1>3, <1>4 DEF IsNextLine
<1> QED
  BY <1>5 DEF at

(* The statement of those lines. *)
IsStatementOf(st, at, L) ==
  \E id, o, c, e, a : st = Statement("swift", id, o, c, e) /\ AreRead(o, c, e, a, at, L)

LEMMA MessageIsRead ==
  ASSUME NEW at \in Nat, NEW L \in Nat \ {0}, \A k \in 1..L : IsNextLine(at, k),
         file[at + 1].tag = "20", Fields(file) = LinesAfter(at, L)
  PROVE  \E st : ReadMt940(file) = <<st>> /\ IsStatementOf(st, at, L)
<1> DEFINE fields == Fields(file)
           N == Len(fields)
           read == CHOOSE f : IsReadingUp(fields, N, f)
           last == read[N]
<1>1. N = L
  BY LinesAreSeq
<1>2. IsReadingUp(fields, N, read)
  <2> HIDE DEF fields, N
  <2> QED
    BY <1>1, ReadingsExist
<1>3. ReadMt940(file) = IF last.any THEN <<last.statement>> ELSE <<>>
  BY Zenon DEF ReadMt940, IsReadingUp
<1>4. \A k \in 1..L :
        fields[k] = [tag |-> file[at + k].tag, value |-> file[at + k].value, whole |-> TRUE]
  BY DEF LinesAfter
<1> HIDE DEF read, N, fields
<1> DEFINE good == {k \in 0..L : IsReadUpTo(read[k], at, k)}
<1>5. 0 \in good
  <2>1. 0 \in 0..L
    OBVIOUS
  <2>2. read[0] = Reading
    BY <1>1, <1>2, <2>1 DEF IsReadingUp
  <2> QED
    BY <2>1, <2>2, NothingReadYet
<1>6. ASSUME NEW k \in 1..L, k - 1 \in good PROVE k \in good
  <2>1. k \in 0..L /\ k # 0
    OBVIOUS
  <2>2. read[k] = Take(read[k - 1], fields[k])
    BY <1>1, <1>2, <2>1 DEF IsReadingUp
  <2>3. IsReadUpTo(read[k - 1], at, k - 1)
    BY <1>6
  <2>4. IsNextLine(at, k)
    OBVIOUS
  <2> DEFINE field == fields[k]
             r == read[k - 1]
  <2>5. field = [tag |-> file[at + k].tag, value |-> file[at + k].value, whole |-> TRUE]
    BY <1>4
  <2> HIDE DEF field, r
  <2>6. IsReadUpTo(Take(r, field), at, k)
    BY <2>3, <2>4, <2>5, ReadingOn DEF r
  <2> QED
    BY <2>1, <2>2, <2>6 DEF field, r
<1>7. IsReadUpTo(last, at, L)
  <2> HIDE DEF good
  <2>1. \A k \in 0..L : k \in good
    BY <1>5, <1>6, UpTo
  <2>2. L \in good
    BY <2>1
  <2> QED
    BY <1>1, <2>2 DEF good
<1> HIDE DEF last
<1>8. PICK id, o, c, e, any, a :
        /\ last = ReadingOf("swift", id, o, c, e, any, a)
        /\ a \in BOOLEAN /\ (L > 0 => any = TRUE) /\ AreRead(o, c, e, a, at, L)
  BY <1>7 DEF IsReadUpTo
<1>9. last.any = TRUE /\ last.statement = Statement("swift", id, o, c, e)
  BY <1>8 DEF ReadingOf
<1>10. IsStatementOf(last.statement, at, L)
  BY <1>8, <1>9 DEF IsStatementOf
<1> QED
  BY <1>3, <1>9, <1>10

(* Its balances, and what moved, are those that stand there. *)
IsTrue(s, n) ==
  /\ IsSeq(s.entries) /\ \A j \in 1..Len(s.entries) : s.entries[j].signed \in Int
  /\ Signed(s.opening) = Opening(n) /\ Signed(s.closing) = Closing(n)
  /\ Movements(s) = Effects(n)

LEMMA MovementsAreEffects ==
  ASSUME NEW s, IsSeq(s.entries), NEW n, DOMAIN EntriesAt(n) = 1..Len(s.entries),
         \A j \in 1..Len(s.entries) : s.entries[j].signed = Effect(ValueAt(EntriesAt(n)[j]))
  PROVE  Movements(s) = Effects(n)
<1>1. DOMAIN s.entries = 1..Len(s.entries)
  BY SeqShape
<1>2. Movements(s) = [j \in 1..Len(s.entries) |-> s.entries[j].signed]
  BY <1>1 DEF Movements
<1>3. Effects(n) = [j \in 1..Len(s.entries) |-> Effect(ValueAt(EntriesAt(n)[j]))]
  BY DEF Effects
<1> QED
  BY <1>2, <1>3

LEMMA MessageIsTrue ==
  ASSUME form = "fin", NEW at \in Nat, NEW L \in Nat \ {0}, \A k \in 1..L : IsNextLine(at, k),
         \A n : Written(n) = (at + 1)..(at + L),
         NEW st, IsStatementOf(st, at, L)
  PROVE  /\ IsTrue(st, 1)
         /\ TextsFollow(st.entries)
<1>1. PICK id, o, c, e, a : st = Statement("swift", id, o, c, e) /\ AreRead(o, c, e, a, at, L)
  BY DEF IsStatementOf
<1>2. st.opening = o /\ st.closing = c /\ st.entries = e
  BY <1>1 DEF Statement
<1>3. /\ Signed(o) = BalanceUpTo(at, L, "60") /\ Signed(c) = BalanceUpTo(at, L, "62")
      /\ AreEntries(e, at, L) /\ AreTexts(e, a, at, L)
  BY <1>1 DEF AreRead
<1> DEFINE S == EntryPlaces(at, L)
<1>4. /\ IsSeq(e) /\ Len(e) = Cardinality(S)
      /\ \A j \in 1..Len(e) : e[j].signed = Effect(file[InOrder(S)[j]].value)
  BY <1>3 DEF AreEntries
<1>5. /\ Len(file) \in Nat /\ S \in SUBSET (1..Len(file))
  <2>1. IsNextLine(at, L)
    OBVIOUS
  <2> QED
    BY <2>1, PlacesGrow
<1>6. EntriesAt(1) = InOrder(S)
  BY DEF EntriesAt, EntryPlaces
<1>7. \A tag : LastBalance(1, tag) = BalanceUpTo(at, L, tag)
  <2> SUFFICES ASSUME NEW tag PROVE LastBalance(1, tag) = BalanceUpTo(at, L, tag)
    OBVIOUS
  <2> QED
    BY DEF LastBalance, BalanceUpTo, ValueAt
<1>8. Opening(1) = Signed(o) /\ Closing(1) = Signed(c)
  BY <1>3, <1>7 DEF Opening, Closing
<1>9. \A q \in S : q \in (at + 1)..(at + L) /\ IsCounted(file[q].value)
  <2> SUFFICES ASSUME NEW q \in S PROVE q \in (at + 1)..(at + L) /\ IsCounted(file[q].value)
    OBVIOUS
  <2>1. q \in (at + 1)..(at + L) /\ file[q].tag = "61"
    BY DEF EntryPlaces
  <2> DEFINE k == q - at
  <2>2. k \in 1..L /\ at + k = q
    BY <2>1
  <2> HIDE DEF k
  <2>3. file[q].kind = "line" /\ IsSound(file[q])
    BY <2>2 DEF IsNextLine
  <2> QED
    BY <2>1, <2>3 DEF IsSound
<1> HIDE DEF S
<1>10. DOMAIN InOrder(S) = 1..Len(e) /\ \A j \in 1..Len(e) : InOrder(S)[j] \in S
  BY <1>4, <1>5, NthIsIn
<1>11. ASSUME NEW j \in 1..Len(e) PROVE e[j].signed \in Int
  <2>1. IsCounted(file[InOrder(S)[j]].value)
    BY <1>9, <1>10
  <2>2. Effect(file[InOrder(S)[j]].value) \in Int
    BY <2>1, SignIsEffect
  <2> QED
    BY <1>4, <2>2
<1>12. Movements(st) = Effects(1)
  <2>1. \A j \in 1..Len(e) : ValueAt(InOrder(S)[j]) = file[InOrder(S)[j]].value
    BY DEF ValueAt
  <2>2. DOMAIN EntriesAt(1) = 1..Len(st.entries) /\ IsSeq(st.entries)
    BY <1>2, <1>4, <1>6, <1>10
  <2>3. \A j \in 1..Len(st.entries) :
           st.entries[j].signed = Effect(ValueAt(EntriesAt(1)[j]))
    BY <1>2, <1>4, <1>6, <2>1
  <2> QED
    BY <2>2, <2>3, MovementsAreEffects
<1>13. IsTrue(st, 1)
  BY <1>2, <1>4, <1>8, <1>11, <1>12 DEF IsTrue
<1>14. TextsFollow(e)
  <2>1. DOMAIN e = 1..Len(e)
    BY <1>4, SeqShape
  <2>2. ASSUME NEW j \in 1..Len(e)
        PROVE  LET next == InOrder(S)[j] + 1
               IN \/ next \in Written(1) /\ Unread(next)
                  \/ e[j].info = IF next \in Written(1) /\ file[next].tag = "86"
                                 THEN file[next].value.text ELSE 0
    <3> DEFINE q == InOrder(S)[j]
    <3>1. IsShadowed(q, at, L) \/ e[j].info = TextAfter(q, at, L)
      BY <1>3 DEF AreTexts, S
    <3>2. q \in (at + 1)..(at + L)
      BY <1>9, <1>10
    <3> HIDE DEF q
    <3>3. q + 1 \in (at + 1)..(at + L) <=> q + 1 <= at + L
      BY <3>2
    <3>4. \/ q + 1 \in Written(1) /\ Unread(q + 1)
          \/ e[j].info = IF q + 1 \in Written(1) /\ file[q + 1].tag = "86"
                         THEN file[q + 1].value.text ELSE 0
      BY <3>1, <3>3 DEF TextAfter, IsShadowed
    <3> QED
      BY <3>4 DEF q
  <2> QED
    BY <1>6, <2>1, <2>2 DEF TextsFollow
<1> QED
  BY <1>2, <1>13, <1>14

-----------------------------------------------------------------------------
(* A document. *)

LEMMA ElementsAreWritten ==
  ASSUME form # "fin", IsSeq(file), NEW n \in 1..Cardinality(Places(file, {"stmt"})), NEW kinds
  PROVE  Elements(file, InOrder(Places(file, {"stmt"}))[n], kinds)
           = {k \in Written(n) : file[k].kind \in kinds}
<1> DEFINE S == Places(file, {"stmt"})
           N == Len(file)
           from == InOrder(S)
<1>1. N \in Nat /\ DOMAIN file = 1..N /\ S \in SUBSET (1..N) /\ Cardinality(S) \in Nat
  BY SeqShape, PlacesAreIn
<1>2. Len(from) = Cardinality(S)
  BY <1>1, InOrderIsSeq
<1>3. Written(n) = {k \in 1..N : from[n] < k /\ (n < Cardinality(S) => k < from[n + 1])}
  BY <1>1, <1>2 DEF Written
<1>4. Elements(file, from[n], kinds) =
        {j \in 1..N : /\ file[j].kind \in kinds /\ j > from[n]
                      /\ \A k \in S : k > from[n] => j < k}
  BY <1>1 DEF Elements, Places
<1> HIDE DEF S
<1>5. \A j \in 1..N : (\A k \in S : k > from[n] => j < k)
                        <=> (n < Cardinality(S) => j < from[n + 1])
  <2> SUFFICES ASSUME NEW j \in 1..N
               PROVE  (\A k \in S : k > from[n] => j < k)
                        <=> (n < Cardinality(S) => j < from[n + 1])
    OBVIOUS
  <2>1. n \in 1..Cardinality(S)
    BY DEF S
  <2> QED
    BY <1>1, <2>1, UpToTheNext
<1>6. from[n] \in Int
  <2>1. n \in 1..Cardinality(S)
    BY DEF S
  <2>2. from[n] \in S
    BY <1>1, <2>1, NthIsIn
  <2>3. \A q \in S : q \in Int
    BY <1>1
  <2> QED
    BY <2>2, <2>3
<1> HIDE DEF from, N
<1>7. ASSUME NEW j
      PROVE  j \in Elements(file, from[n], kinds) <=> j \in {k \in Written(n) : file[k].kind \in kinds}
  <2>1. CASE j \notin 1..N
    BY <1>3, <1>4, <2>1
  <2>2. CASE j \in 1..N
    <3>1. j > from[n] <=> from[n] < j
      BY <1>6, <2>2
    <3> QED
      BY <1>3, <1>4, <1>5, <2>2, <3>1
  <2> QED
    BY <2>1, <2>2
<1>8. Elements(file, from[n], kinds) = {k \in Written(n) : file[k].kind \in kinds}
  BY <1>7
<1> QED
  BY <1>8 DEF from, S

LEMMA CamtIsCounted ==
  ASSUME NEW token, IsSound(token), token.kind \in {"ntry", "bal"}
  PROVE  IsCounted(CamtValue(token))
<1> DEFINE v == token.value
           m == Mark(token)
           x == IF v.readable THEN v.amount ELSE 0
<1>1. v \in Marked({"C", "D", "RC", "RD"})
  BY DEF IsSound, IsCounted
<1>2. PICK mark \in {"C", "D", "RC", "RD"}, amount \in Int, readable \in BOOLEAN, text \in Nat :
         v = [mark |-> mark, amount |-> amount, readable |-> readable, text |-> text]
  BY <1>1 DEF Marked
<1>3. m \in {"C", "D", "RC", "RD"}
  <2> DEFINE base == IF v.mark = "D" THEN "D" ELSE "C"
  <2>1. base \in {"C", "D"} /\ [C |-> "RC", D |-> "RD"][base] \in {"RC", "RD"}
    OBVIOUS
  <2>2. m = IF token.tag = "true" THEN [C |-> "RC", D |-> "RD"][base] ELSE base
    BY DEF Mark
  <2> HIDE DEF base
  <2> QED
    BY <2>1, <2>2
<1>4. x \in Int
  BY <1>2
<1>5. CamtValue(token) = [v EXCEPT !.mark = m, !.amount = IF v.readable THEN @ ELSE 0]
  BY DEF CamtValue
<1>6. CamtValue(token) = [mark |-> m, amount |-> x, readable |-> readable, text |-> text]
  <2> HIDE DEF m, v
  <2>1. v.readable = readable /\ v.amount = amount
    BY <1>2
  <2>2. CASE readable
    <3>1. CamtValue(token) = [v EXCEPT !.mark = m, !.amount = @] /\ x = amount
      BY <1>5, <2>1, <2>2
    <3> QED
      BY <1>2, <3>1
  <2>3. CASE ~readable
    <3>1. CamtValue(token) = [v EXCEPT !.mark = m, !.amount = 0] /\ x = 0
      BY <1>5, <2>1, <2>3
    <3> HIDE DEF x
    <3> QED
      BY <1>2, <3>1
  <2> QED
    BY <2>2, <2>3
<1> HIDE DEF v, x, m
<1> QED
  BY <1>2, <1>3, <1>4, <1>6 DEF IsCounted, Marked

LEMMA CodedIsLast ==
  ASSUME form = "camt", IsSeq(file), AreSound(file),
         NEW n \in 1..Cardinality(Places(file, {"stmt"})),
         NEW codes, NEW tag \in {"OPBD", "CLBD"},
         \A code \in {"OPBD", "CLBD"} : code \in codes <=> code = tag
  PROVE  Signed(CodedBalance(file, InOrder(Places(file, {"stmt"}))[n], codes)) = LastBalance(n, tag)
<1> DEFINE i == InOrder(Places(file, {"stmt"}))[n]
           found == {j \in Elements(file, i, {"bal"}) : file[j].tag \in codes}
           last == {k \in Written(n) : file[k].tag = tag}
<1>1. Len(file) \in Nat /\ DOMAIN file = 1..Len(file)
  BY SeqShape
<1>2. Written(n) \in SUBSET (1..Len(file))
  BY <1>1 DEF Written
<1>3. Elements(file, i, {"bal"}) = {k \in Written(n) : file[k].kind = "bal"}
  BY ElementsAreWritten
<1> HIDE DEF i
<1>4. found = last
  <2>1. \A k \in Written(n) : IsSound(file[k])
    BY <1>2 DEF AreSound
  <2>2. \A k \in Written(n) : file[k].kind = "bal" /\ file[k].tag \in codes <=> file[k].tag = tag
    BY <2>1 DEF IsSound
  <2> QED
    BY <1>3, <2>2
<1>5. CodedBalance(file, i, codes) = IF found = {} THEN {} ELSE Balance(CamtValue(file[Final(found)]))
  BY DEF CodedBalance
<1>6. LastBalance(n, tag) = IF last = {} THEN {} ELSE {Effect(CamtValue(file[Final(last)]))}
  BY DEF LastBalance, ValueAt
<1> HIDE DEF found
<1>7. CASE last = {}
  BY <1>4, <1>5, <1>6, <1>7 DEF Signed, i
<1>8. CASE last # {}
  <2> DEFINE p == Final(last)
  <2>1. last \in SUBSET (1..Len(file))
    BY <1>2
  <2>2. p \in last
    <3> HIDE DEF last
    <3>1. \E j \in last : \A k \in last : k <= j
      BY <1>1, <1>8, <2>1, Greatest
    <3> QED
      BY <3>1 DEF Final
  <2> HIDE DEF p
  <2>3. IsSound(file[p]) /\ file[p].kind = "bal"
    BY <2>1, <2>2 DEF AreSound, IsSound
  <2>4. IsCounted(CamtValue(file[p]))
    BY <2>3, CamtIsCounted
  <2>5. Signed(Balance(CamtValue(file[p]))) = {Effect(CamtValue(file[p]))}
    BY <2>4, SignIsEffect
  <2> HIDE DEF last
  <2> QED
    BY <1>4, <1>5, <1>6, <1>8, <2>5 DEF p, i
<1> QED
  BY <1>7, <1>8

LEMMA DocumentIsTrue ==
  ASSUME form = "camt", IsSeq(file), AreSound(file)
  PROVE  /\ IsSeq(ReadCamt(file)) /\ Len(ReadCamt(file)) = Count({"stmt"})
         /\ \A n \in 1..Len(ReadCamt(file)) : IsTrue(ReadCamt(file)[n], n)
<1> DEFINE starts == Places(file, {"stmt"})
           from == InOrder(starts)
           N == Cardinality(starts)
           st == ReadCamt(file)
<1>1. N \in Nat
  BY PlacesAreIn
<1>2. DOMAIN from = 1..N
  BY DEF InOrder
<1>3. st = [n \in 1..N |->
             Statement("mx", CamtId(file, from[n], n),
                       CodedBalance(file, from[n], {"OPBD", "PRCD"}),
                       CodedBalance(file, from[n], {"CLBD"}), CamtEntries(file, from[n]))]
  BY <1>2 DEF ReadCamt
<1> HIDE DEF st
<1>4. DOMAIN st = 1..N /\ st = [n \in 1..N |-> st[n]]
  BY <1>3
<1>5. IsSeq(st) /\ Len(st) = N
  <2> HIDE DEF N
  <2> QED
    BY <1>1, <1>4, SeqOfFunction
<1>6. ASSUME NEW n \in 1..N PROVE IsTrue(st[n], n)
  <2> DEFINE i == from[n]
             s == st[n]
             found == Elements(file, i, {"ntry"})
             e == CamtEntries(file, i)
             opening == CodedBalance(file, i, {"OPBD", "PRCD"})
             closing == CodedBalance(file, i, {"CLBD"})
  <2>1. s.opening = opening /\ s.closing = closing /\ s.entries = e
    BY <1>3 DEF Statement
  <2>2. Signed(opening) = Opening(n)
    <3>1. Signed(opening) = LastBalance(n, "OPBD")
      BY CodedIsLast
    <3> QED
      BY <3>1 DEF Opening
  <2>3. Signed(closing) = Closing(n)
    <3>1. Signed(closing) = LastBalance(n, "CLBD")
      BY CodedIsLast
    <3> QED
      BY <3>1 DEF Closing
  <2>4. found = {k \in Written(n) : file[k].kind = "ntry"}
    BY ElementsAreWritten
  <2>5. EntriesAt(n) = InOrder(found)
    <3>1. EntriesAt(n) = InOrder({k \in Written(n) : file[k].kind = "ntry"})
      BY DEF EntriesAt
    <3> QED
      BY <2>4, <3>1
  <2>6. Len(file) \in Nat /\ DOMAIN file = 1..Len(file)
    BY SeqShape
  <2>7. found \in SUBSET (1..Len(file)) /\ \A k \in found : file[k].kind = "ntry"
    BY <2>6 DEF Elements, Places
  <2> DEFINE order == InOrder(found)
             M == Cardinality(found)
  <2> HIDE DEF found, from, s
  <2>8. M \in Nat /\ DOMAIN order = 1..M /\ \A j \in 1..M : order[j] \in found
    BY <2>6, <2>7, NthIsIn
  <2>9. e = [j \in 1..M |-> Entry(CamtValue(file[order[j]]), file[order[j]].value.text)]
    BY <2>8 DEF CamtEntries, found
  <2> HIDE DEF e, order, opening, closing
  <2>10. DOMAIN e = 1..M /\ e = [j \in 1..M |-> e[j]]
    BY <2>9
  <2>11. IsSeq(e) /\ Len(e) = M
    BY <2>8, <2>10, SeqOfFunction
  <2>12. ASSUME NEW j \in 1..M
         PROVE  e[j].signed = Effect(CamtValue(file[order[j]])) /\ e[j].signed \in Int
    <3> DEFINE x == file[order[j]]
    <3>1. order[j] \in 1..Len(file) /\ x.kind = "ntry"
      BY <2>7, <2>8
    <3>2. IsSound(x)
      BY <3>1 DEF AreSound
    <3>3. e[j] = Entry(CamtValue(x), x.value.text)
      BY <2>9
    <3> HIDE DEF x
    <3>4. IsCounted(CamtValue(x))
      BY <3>1, <3>2, CamtIsCounted
    <3>5. Entry(CamtValue(x), x.value.text).signed = Effect(CamtValue(x))
          /\ Effect(CamtValue(x)) \in Int
      BY <3>4, SignIsEffect
    <3> QED
      BY <3>3, <3>5 DEF x
  <2>13. Movements(s) = Effects(n)
    <3>1. DOMAIN EntriesAt(n) = 1..Len(s.entries) /\ IsSeq(s.entries)
      BY <2>1, <2>5, <2>8, <2>11 DEF order
    <3>2. \A j \in 1..Len(s.entries) : s.entries[j].signed = Effect(ValueAt(EntriesAt(n)[j]))
      <4>1. \A p : ValueAt(p) = CamtValue(file[p])
        BY DEF ValueAt
      <4> QED
        BY <2>1, <2>5, <2>11, <2>12, <4>1 DEF order
    <3> QED
      BY <3>1, <3>2, MovementsAreEffects
  <2>14. IsTrue(s, n)
    BY <2>1, <2>2, <2>3, <2>11, <2>12, <2>13 DEF IsTrue
  <2> QED
    BY <2>14 DEF s
<1> QED
  BY <1>5, <1>6 DEF st, Count

-----------------------------------------------------------------------------
(* All statements of a file. *)

LEMMA NoBalance ==
  ASSUME NEW balance
  PROVE  Signed(balance) = {} <=> balance = {}
BY DEF Signed

LEMMA TotalsAreTrue ==
  ASSUME NEW st, IsSeq(st), \A n \in 1..Len(st) : IsTrue(st[n], n)
  PROVE  LET both == {n \in DOMAIN st : Opening(n) # {} /\ Closing(n) # {}}
         IN /\ \A n \in DOMAIN st : Movements(st[n]) = Effects(n)
            /\ CashPnl(st).inflows + CashPnl(st).outflows
                 = SumOf([n \in DOMAIN st |-> SumOf(Effects(n))])
            /\ CashPnl(st).all_reconciled <=> both # {} /\ \A n \in both : Balanced(n)
<1> DEFINE both == {n \in DOMAIN st : Opening(n) # {} /\ Closing(n) # {}}
           balanced == {n \in DOMAIN st : HasBalances(st[n])}
<1>1. DOMAIN st = 1..Len(st)
  BY SeqShape
<1>2. \A n \in DOMAIN st :
        /\ IsSeq(st[n].entries) /\ \A j \in 1..Len(st[n].entries) : st[n].entries[j].signed \in Int
        /\ Signed(st[n].opening) = Opening(n) /\ Signed(st[n].closing) = Closing(n)
        /\ Movements(st[n]) = Effects(n)
  BY <1>1 DEF IsTrue
<1>3. CashPnl(st).inflows + CashPnl(st).outflows = SumOf([n \in DOMAIN st |-> SumOf(Effects(n))])
  <2>1. CashPnl(st).inflows + CashPnl(st).outflows
          = SumOf([n \in DOMAIN st |-> SumOf(Movements(st[n]))])
    BY <1>1, <1>2, TotalsAdd
  <2>2. [n \in DOMAIN st |-> SumOf(Movements(st[n]))] = [n \in DOMAIN st |-> SumOf(Effects(n))]
    BY <1>2
  <2> QED
    BY <2>1, <2>2
<1>4. balanced = both
  <2>1. \A n \in DOMAIN st : HasBalances(st[n]) <=> Opening(n) # {} /\ Closing(n) # {}
    <3> SUFFICES ASSUME NEW n \in DOMAIN st
                 PROVE  HasBalances(st[n]) <=> Opening(n) # {} /\ Closing(n) # {}
      OBVIOUS
    <3>1. Signed(st[n].opening) = Opening(n) /\ Signed(st[n].closing) = Closing(n)
      BY <1>2
    <3> QED
      BY <3>1, NoBalance DEF HasBalances
  <2> QED
    BY <2>1
<1>5. \A n \in DOMAIN st : Reconciles(st[n]) <=> Balanced(n)
  <2> SUFFICES ASSUME NEW n \in DOMAIN st PROVE Reconciles(st[n]) <=> Balanced(n)
    OBVIOUS
  <2>1. /\ Signed(st[n].opening) = Opening(n) /\ Signed(st[n].closing) = Closing(n)
        /\ NetMovement(st[n]) = SumOf(Effects(n))
    BY <1>2 DEF NetMovement
  <2> QED
    BY <2>1 DEF Reconciles, Balanced
<1>6. CashPnl(st).all_reconciled <=> balanced # {} /\ \A n \in balanced : Reconciles(st[n])
  BY DEF CashPnl
<1> HIDE DEF balanced
<1>7. CashPnl(st).all_reconciled <=> both # {} /\ \A n \in both : Balanced(n)
  BY <1>4, <1>5, <1>6
<1> QED
  BY <1>2, <1>3, <1>7

LEMMA FirstMessageIsTrue ==
  ASSUME form = "fin", IsSeq(file), IsEnveloped(file), AreSound(file), BeginWithReferences(file),
         Detected, Complete(First(Messages))
  PROVE  /\ IsSeq(ReadMt940(file)) /\ Len(ReadMt940(file)) = 1
         /\ IsTrue(ReadMt940(file)[1], 1)
         /\ TextsFollow(ReadMt940(file)[1].entries)
<1> DEFINE i == First(Messages)
<1>1. i \in Messages /\ \A j \in Messages : i <= j
  <2>1. PICK p \in Places(file, {"line"}) : file[p].tag = "61"
    BY DEF Detected
  <2> QED
    BY FirstMessage
<1> HIDE DEF i
<1>2. PICK s : IsStop(i, s)
  BY <1>1, LinesStop
<1>3. s <= Len(file) /\ file[s].kind = "close"
  BY <1>1, <1>2, StopsAreEnds DEF i
<1>4. /\ Len(file) \in Nat /\ i \in 1..Len(file) /\ i + 3 \in 1..Len(file)
      /\ file[i + 2].kind = "open"
  BY <1>1, MessageHeads
<1>5. s \in (i + 4)..(Len(file) + 1)
  BY <1>2 DEF IsStop
<1> DEFINE at == i + 2
           L == s - i - 3
<1>6. /\ at \in Nat /\ L \in Nat \ {0} /\ at + 1 = i + 3 /\ at + L = s - 1
      /\ at \in 1..(Len(file) - 1)
  BY <1>4, <1>5
<1>7. \A k \in 1..L : IsNextLine(at, k)
  BY <1>1, <1>2, <1>3, NextLines
<1>8. file[at + 1].tag = "20"
  BY <1>4, <1>6 DEF BeginWithReferences
<1>9. Fields(file) = LinesAfter(at, L)
  BY <1>1, <1>2, <1>3, FieldsOfFile
<1>10. \A n : Written(n) = (at + 1)..(at + L)
  <2> SUFFICES ASSUME NEW n PROVE Written(n) = (at + 1)..(at + L)
    OBVIOUS
  <2>1. i = First(Messages)
    BY DEF i
  <2>2. Written(n) = (i + 3)..(s - 1)
    BY <1>1, <1>2, <1>3, <2>1, WrittenLines
  <2> HIDE DEF at, L
  <2> QED
    BY <1>6, <2>2
<1> HIDE DEF at, L
<1>11. PICK st : ReadMt940(file) = <<st>> /\ IsStatementOf(st, at, L)
  BY <1>6, <1>7, <1>8, <1>9, MessageIsRead
<1>12. /\ IsTrue(st, 1)
       /\ TextsFollow(st.entries)
  BY <1>6, <1>7, <1>10, <1>11, MessageIsTrue
<1>13. IsSeq(<<st>>) /\ Len(<<st>>) = 1 /\ <<st>>[1] = st
  BY ShortSeqs
<1> QED
  BY <1>11, <1>12, <1>13

LEMMA WhatIsReadIsTrue ==
  ASSUME FileInv, WrittenInv, ContentInv, form \in {"fin", "bare", "camt"}
  PROVE  StatementsAreTrue
<1> SUFFICES ASSUME Detected, form = "fin" => Complete(First(Messages))
             PROVE  IF form = "bare" THEN Read = <<>>
                    ELSE LET both == {n \in DOMAIN Read : Opening(n) # {} /\ Closing(n) # {}}
                         IN /\ Len(Read) = IF form = "fin" THEN 1 ELSE Count({"stmt"})
                            /\ \A n \in DOMAIN Read : Movements(Read[n]) = Effects(n)
                            /\ form = "fin" => TextsFollow(Read[1].entries)
                            /\ CashPnl(Read).inflows + CashPnl(Read).outflows =
                                 SumOf([n \in DOMAIN Read |-> SumOf(Effects(n))])
                            /\ CashPnl(Read).all_reconciled <=>
                                 both # {} /\ \A n \in both : Balanced(n)
  BY Zenon DEF StatementsAreTrue
<1>1. IsSeq(file) /\ AreSound(file)
  BY DEF FileInv, ContentInv
<1>2. CASE form = "bare"
  <2>1. IsBare(file) /\ Read = ReadMt940(file)
    BY <1>2 DEF WrittenInv, Read
  <2> QED
    BY <1>1, <1>2, <2>1, NothingReadFromBare
<1>3. CASE form = "fin"
  <2>1. IsEnveloped(file) /\ BeginWithReferences(file) /\ Read = ReadMt940(file)
    BY <1>3 DEF WrittenInv, ContentInv, Read
  <2>2. /\ IsSeq(Read) /\ Len(Read) = 1 /\ IsTrue(Read[1], 1)
        /\ TextsFollow(Read[1].entries)
    BY <1>1, <1>3, <2>1, FirstMessageIsTrue
  <2> DEFINE st == Read
  <2> HIDE DEF st
  <2>3. IsSeq(st) /\ \A n \in 1..Len(st) : IsTrue(st[n], n)
    BY <2>2 DEF st
  <2>4. LET both == {n \in DOMAIN st : Opening(n) # {} /\ Closing(n) # {}}
        IN /\ \A n \in DOMAIN st : Movements(st[n]) = Effects(n)
           /\ CashPnl(st).inflows + CashPnl(st).outflows
                = SumOf([n \in DOMAIN st |-> SumOf(Effects(n))])
           /\ CashPnl(st).all_reconciled <=> both # {} /\ \A n \in both : Balanced(n)
    BY <2>3, TotalsAreTrue
  <2> QED
    BY <1>3, <2>2, <2>4 DEF st
<1>4. CASE form = "camt"
  <2>1. Read = ReadCamt(file)
    BY <1>4 DEF Read
  <2>2. IsSeq(Read) /\ Len(Read) = Count({"stmt"}) /\ \A n \in 1..Len(Read) : IsTrue(Read[n], n)
    BY <1>1, <1>4, <2>1, DocumentIsTrue
  <2> DEFINE st == Read
  <2> HIDE DEF st
  <2>3. IsSeq(st) /\ \A n \in 1..Len(st) : IsTrue(st[n], n)
    BY <2>2 DEF st
  <2>4. LET both == {n \in DOMAIN st : Opening(n) # {} /\ Closing(n) # {}}
        IN /\ \A n \in DOMAIN st : Movements(st[n]) = Effects(n)
           /\ CashPnl(st).inflows + CashPnl(st).outflows
                = SumOf([n \in DOMAIN st |-> SumOf(Effects(n))])
           /\ CashPnl(st).all_reconciled <=> both # {} /\ \A n \in both : Balanced(n)
    BY <2>3, TotalsAreTrue
  <2> QED
    BY <1>4, <2>2, <2>4 DEF st
<1> QED
  BY <1>2, <1>3, <1>4

(* What is computed from a file is what its statements say: its first      *)
(* message, or every statement of a document, is read with its own         *)
(* entries, signs, balances and texts (parse_mt940, parse_camt053,         *)
(* compute_cash_pnl).                                                      *)
THEOREM StatementsAreRead == Spec => []StatementsAreTrue
<1>1. Init => form \in {"fin", "bare", "camt"}
  BY DEF Init
<1>2. form \in {"fin", "bare", "camt"} /\ [Next]_vars => (form \in {"fin", "bare", "camt"})'
  <2> SUFFICES ASSUME form \in {"fin", "bare", "camt"}, [Next]_vars
               PROVE  form' \in {"fin", "bare", "camt"}
    OBVIOUS
  <2> QED
    BY DEF Next, vars, BankWrites, LoadFile, Arrive, StartStore, CreateTable, CloseTable,
           StopStore, Ask, ReadTable
<1>3. FileInv /\ WrittenInv /\ ContentInv /\ form \in {"fin", "bare", "camt"} => StatementsAreTrue
  BY WhatIsReadIsTrue
<1> QED
  BY <1>1, <1>2, <1>3, FileHolds, WrittenHolds, ContentHolds, PTL DEF Spec

=============================================================================
