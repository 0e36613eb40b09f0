------------------------ MODULE FieldOperationsProofs ------------------------
(***************************************************************************)
(* Theorems about FieldOperations, for every number of requests, sources   *)
(* and attempts, and whatever the bounds are.                              *)
(***************************************************************************)
EXTENDS FieldOperations, SequenceTheorems, TLAPS

-----------------------------------------------------------------------------
(* Statuses                                                                 *)

LEMMA StatusFacts ==
    /\ "PLANNED" \in Statuses
    /\ NoStatus \notin Statuses
    /\ AllowedNext["CLOSED"] = {} /\ AllowedNext["CANCELLED"] = {}
BY DEF Statuses, AllowedNext, NoStatus

LEMMA KeyAfterType ==
    ASSUME NEW to, NEW key \in Sources \cup {NoKey}
    PROVE  KeyAfter(to, key) \in Sources \cup {NoKey}
BY DEF KeyAfter

LEMMA SeqElements ==
    ASSUME NEW S, NEW s \in Seq(S)
    PROVE  /\ Len(s) \in Nat /\ DOMAIN s = 1 .. Len(s)
           /\ \A i \in DOMAIN s : i \in Nat /\ s[i] \in S
OBVIOUS

-----------------------------------------------------------------------------
(* Type correctness.  A request that is in flight serves a call of the kind *)
(* its place in the handler implies, on an operation that exists.           *)

CallsInFlight ==
    \A r \in Requests :
        /\ pc[r] \in {"counting", "inserting", "exhausted"} => call[r] \in CreateCalls
        /\ pc[r] = "loaded" =>
              /\ call[r] \in ChangeCalls \cup AssignmentCalls
              /\ call[r].id \in Operations
              /\ call[r].op = "unassign" => call[r].assignment \in DOMAIN assignments

TypeInv == TypeOK /\ CallsInFlight

LEMMA InitTypes == Init => TypeInv
BY DEF Init, TypeInv, TypeOK, CallsInFlight

\* A step that leaves the tables alone keeps them well typed.
LEMMA TablesUnchanged ==
    ASSUME TypeInv, UNCHANGED <<operations, timeline, assignments>>
    PROVE  /\ operations' \in Seq(Row) /\ timeline' \in Seq(Seq(Event))
           /\ Len(timeline') = Len(operations')
           /\ assignments' \in Seq([operation : Nat, open : BOOLEAN])
           /\ Operations' = Operations
BY DEF TypeInv, TypeOK, Operations

\* Ending a request leaves the other ones as they are, whatever the tables do, as long
\* as they only grow.
LEMMA FinishTypes ==
    ASSUME TypeInv, NEW r \in Requests, Finish(r),
           Operations \subseteq Operations', DOMAIN assignments \subseteq DOMAIN assignments'
    PROVE  /\ pc' \in [Requests -> {"idle", "counting", "inserting", "exhausted", "loaded"}]
           /\ call' \in [Requests -> Calls \cup {NoCall}]
           /\ CallsInFlight'
<1>1. /\ pc' \in [Requests -> {"idle", "counting", "inserting", "exhausted", "loaded"}]
      /\ call' \in [Requests -> Calls \cup {NoCall}]
      /\ pc'[r] = "idle"
      /\ \A q \in Requests : q # r => pc'[q] = pc[q] /\ call'[q] = call[q]
  BY DEF TypeInv, TypeOK, Finish
<1> QED  BY <1>1 DEF TypeInv, CallsInFlight

LEMMA AcceptTypes ==
    ASSUME TypeInv, NEW r \in Requests, NEW place, NEW c \in Calls, Accept(r, place, c),
           \/ place = "counting" /\ c \in CreateCalls
           \/ place = "loaded" /\ c \in ChangeCalls \cup AssignmentCalls /\ c.id \in Operations
                /\ (c.op = "unassign" => c.assignment \in DOMAIN assignments)
    PROVE  TypeInv'
<1>1. /\ pc' \in [Requests -> {"idle", "counting", "inserting", "exhausted", "loaded"}]
      /\ call' \in [Requests -> Calls \cup {NoCall}]
      /\ pc'[r] = place /\ call'[r] = c
      /\ \A q \in Requests : q # r => pc'[q] = pc[q] /\ call'[q] = call[q]
      /\ UNCHANGED <<operations, timeline, assignments>>
  BY DEF TypeInv, TypeOK, Accept
<1>2. CallsInFlight'
  BY <1>1 DEF TypeInv, CallsInFlight, Operations
<1> QED  BY <1>1, <1>2, TablesUnchanged DEF TypeInv, TypeOK

LEMMA StartTypes ==
    ASSUME TypeInv, NEW r \in Requests, Start(r)
    PROVE  TypeInv'
<1> USE DEF Calls
<1>1. ASSUME NEW k \in Sources \cup {NoKey}, StartCreate(r, k)
      PROVE  TypeInv'
  <2>1. [op |-> "create", key |-> k, attempt |-> 0, number |-> 0,
         rowsAtStart |-> Len(operations)] \in CreateCalls
    BY DEF CreateCalls, TypeInv, TypeOK
  <2> QED  BY <1>1, <2>1, AcceptTypes DEF StartCreate
<1>2. \A o \in Operations : /\ o \in Nat
                            /\ operations[o].version \in Nat
                            /\ operations[o].status \in Statuses
  <2>1. \A o \in Operations : o \in Nat /\ operations[o] \in Row
    BY SeqElements DEF TypeInv, TypeOK, Operations
  <2> QED  BY <2>1 DEF Row
<1>3. ASSUME NEW o \in Operations, NEW to \in Statuses, StartTransition(r, o, to)
      PROVE  TypeInv'
  <2>1. [op |-> "transition", id |-> o, version |-> operations[o].version,
         status |-> operations[o].status, to |-> to] \in ChangeCalls
    BY <1>2 DEF ChangeCalls
  <2> QED  BY <1>3, <2>1, AcceptTypes DEF StartTransition
<1>4. ASSUME NEW o \in Operations, NEW op \in {"update", "delete"}, StartChange(r, o, op)
      PROVE  TypeInv'
  <2>1. [op |-> op, id |-> o, version |-> operations[o].version,
         status |-> operations[o].status] \in ChangeCalls
    BY <1>2 DEF ChangeCalls
  <2> QED  BY <1>4, <2>1, AcceptTypes DEF StartChange
<1>5. ASSUME NEW o \in Operations, StartAssign(r, o)
      PROVE  TypeInv'
  <2>1. [op |-> "assign", id |-> o] \in AssignmentCalls
    BY <1>2 DEF AssignmentCalls
  <2> QED  BY <1>5, <2>1, AcceptTypes DEF StartAssign
<1>6. ASSUME NEW a \in DOMAIN assignments, StartUnassign(r, a)
      PROVE  TypeInv'
  <2> DEFINE o == assignments[a].operation
  <2>1. o \in Operations /\ a \in Nat
    BY <1>6, SeqElements DEF TypeInv, TypeOK, StartUnassign, Present
  <2>2. [op |-> "unassign", id |-> o, assignment |-> a] \in AssignmentCalls
    BY <1>2, <2>1 DEF AssignmentCalls
  <2> QED  BY <1>6, <2>1, <2>2, AcceptTypes DEF StartUnassign
<1> QED  BY <1>1, <1>3, <1>4, <1>5, <1>6 DEF Start

LEMMA InsertTypes ==
    ASSUME TypeInv, NEW r \in Requests, Insert(r)
    PROVE  /\ TypeInv'
           /\ Operations \subseteq Operations'
           /\ Len(operations') = Len(operations) + 1
           /\ Operations = 1 .. Len(operations) /\ Operations' = 1 .. Len(operations) + 1
           /\ \A o \in Operations : operations'[o] = operations[o] /\ timeline'[o] = timeline[o]
           /\ operations'[Len(operations) + 1] = NewRow(call[r])
           /\ timeline'[Len(operations) + 1] = <<CreateEvent>>
<1>1. call[r] \in CreateCalls
  BY DEF Insert, TypeInv, CallsInFlight
<1>2. NewRow(call[r]) \in Row
  BY <1>1, StatusFacts DEF NewRow, Row, CreateCalls
<1>3. <<CreateEvent>> \in Seq(Event)
  BY StatusFacts DEF CreateEvent, Event
<1>4. /\ operations \in Seq(Row) /\ timeline \in Seq(Seq(Event))
      /\ Len(timeline) = Len(operations)
  BY DEF TypeInv, TypeOK
<1>5. /\ operations' = Append(operations, NewRow(call[r]))
      /\ timeline' = Append(timeline, <<CreateEvent>>)
  BY DEF Insert
<1>6. /\ operations' \in Seq(Row) /\ Len(operations') = Len(operations) + 1
      /\ \A o \in 1 .. Len(operations) : operations'[o] = operations[o]
      /\ operations'[Len(operations) + 1] = NewRow(call[r])
  BY <1>2, <1>4, <1>5, AppendProperties
<1>7. /\ timeline' \in Seq(Seq(Event)) /\ Len(timeline') = Len(operations) + 1
      /\ \A o \in 1 .. Len(operations) : timeline'[o] = timeline[o]
      /\ timeline'[Len(operations) + 1] = <<CreateEvent>>
  BY <1>3, <1>4, <1>5, AppendProperties
<1>8. /\ Operations = 1 .. Len(operations) /\ Operations' = 1 .. Len(operations) + 1
      /\ Operations \subseteq Operations'
  BY <1>4, <1>6 DEF Operations
<1>9. assignments' \in Seq([operation : Nat, open : BOOLEAN])
  BY DEF Insert, TypeInv, TypeOK
<1>10. /\ pc' \in [Requests -> {"idle", "counting", "inserting", "exhausted", "loaded"}]
       /\ call' \in [Requests -> Calls \cup {NoCall}]
       /\ CallsInFlight'
  BY <1>8, FinishTypes DEF Insert
<1> QED  BY <1>6, <1>7, <1>8, <1>9, <1>10 DEF TypeInv, TypeOK

\* The steps of a creation that do not write.
LEMMA CreateTypes ==
    ASSUME TypeInv, NEW r \in Requests,
           CountRows(r) \/ RefuseDuplicate(r) \/ RetryNumber(r) \/ GiveUp(r)
    PROVE  TypeInv'
<1>0. UNCHANGED <<operations, timeline, assignments>>
  BY DEF CountRows, RefuseDuplicate, RetryNumber, GiveUp
<1>1. CASE CountRows(r) \/ RetryNumber(r)
  <2>1. call[r] \in CreateCalls
    BY <1>1 DEF CountRows, RetryNumber, TypeInv, CallsInFlight
  <2>2. Len(operations) \in Nat
    BY DEF TypeInv, TypeOK
  <2>3. /\ call'[r] \in CreateCalls
        /\ call' \in [Requests -> Calls \cup {NoCall}]
        /\ \A q \in Requests : q # r => pc'[q] = pc[q] /\ call'[q] = call[q]
    BY <1>1, <2>1, <2>2
       DEF CountRows, RetryNumber, NextNumber, CreateCalls, TypeInv, TypeOK, Calls
  <2>4. /\ pc' \in [Requests -> {"idle", "counting", "inserting", "exhausted", "loaded"}]
        /\ pc'[r] \in {"counting", "inserting", "exhausted"}
    BY <1>1 DEF CountRows, RetryNumber, TypeInv, TypeOK
  <2>5. CallsInFlight'
    BY <1>0, <2>3, <2>4 DEF TypeInv, CallsInFlight, Operations
  <2> QED  BY <1>0, <2>3, <2>4, <2>5, TablesUnchanged DEF TypeInv, TypeOK
<1>2. CASE RefuseDuplicate(r) \/ GiveUp(r)
  <2>1. Finish(r)
    BY <1>2 DEF RefuseDuplicate, GiveUp
  <2> QED  BY <1>0, <2>1, TablesUnchanged, FinishTypes DEF TypeInv, TypeOK
<1> QED  BY <1>1, <1>2

\* Overwriting one row.
LEMMA ReplaceFacts ==
    ASSUME TypeInv, NEW o \in Operations, NEW row \in Row, Replace(o, row)
    PROVE  /\ operations' \in Seq(Row) /\ Len(operations') = Len(operations)
           /\ Operations' = Operations
           /\ operations'[o] = row
           /\ \A p \in Operations : p # o => operations'[p] = operations[p]
<1>1. operations \in Seq(Row) /\ Operations = 1 .. Len(operations)
  BY DEF TypeInv, TypeOK, Operations
<1>2. operations' = [operations EXCEPT ![o] = row]
  BY DEF Replace
<1>3. /\ operations' \in Seq(Row) /\ Len(operations') = Len(operations)
      /\ \A j \in 1 .. Len(operations) : operations'[j] = IF j = o THEN row ELSE operations[j]
  BY <1>1, <1>2, ExceptSeq
<1>4. Operations' = 1 .. Len(operations)
  BY <1>3 DEF Operations
<1> QED  BY <1>1, <1>3, <1>4

\* Telling one event.
LEMMA TellFacts ==
    ASSUME TypeInv, NEW o \in Operations, NEW e \in Event, Tell(o, e)
    PROVE  /\ timeline' \in Seq(Seq(Event)) /\ Len(timeline') = Len(timeline)
           /\ timeline[o] \in Seq(Event)
           /\ timeline'[o] = Append(timeline[o], e)
           /\ \A p \in Operations : p # o => timeline'[p] = timeline[p]
<1>1. timeline \in Seq(Seq(Event)) /\ Operations = 1 .. Len(timeline)
  BY DEF TypeInv, TypeOK, Operations
<1>2. timeline[o] \in Seq(Event)
  BY <1>1, SeqElements
<1>3. Append(timeline[o], e) \in Seq(Event)
  BY <1>2, AppendProperties
<1>4. timeline' = [timeline EXCEPT ![o] = Append(timeline[o], e)]
  BY DEF Tell
<1>5. /\ timeline' \in Seq(Seq(Event)) /\ Len(timeline') = Len(timeline)
      /\ \A j \in 1 .. Len(timeline) :
             timeline'[j] = IF j = o THEN Append(timeline[o], e) ELSE timeline[j]
  BY <1>1, <1>3, <1>4, ExceptSeq
<1> QED  BY <1>1, <1>2, <1>5

\* What a request that has loaded an operation holds.
LEMMA LoadedCall ==
    ASSUME TypeInv, NEW r \in Requests, pc[r] = "loaded"
    PROVE  /\ call[r].id \in Operations
           /\ operations[call[r].id] \in Row
           /\ call[r].op = "transition" => call[r].status \in Statuses /\ call[r].to \in Statuses
           /\ call[r].op \in {"update", "delete"} => call[r].status \in Statuses
           /\ call[r].op = "unassign" => call[r].assignment \in DOMAIN assignments
<1>1. /\ call[r] \in ChangeCalls \cup AssignmentCalls /\ call[r].id \in Operations
      /\ call[r].op = "unassign" => call[r].assignment \in DOMAIN assignments
  BY DEF TypeInv, CallsInFlight
<1>2. operations[call[r].id] \in Row
  BY <1>1, SeqElements DEF TypeInv, TypeOK, Operations
<1> QED  BY <1>1, <1>2 DEF ChangeCalls, AssignmentCalls

LEMMA RowChanges ==
    ASSUME NEW row \in Row, NEW to \in Statuses
    PROVE  /\ [row EXCEPT !.status = to, !.version = @ + 1,
                          !.dedupeKey = KeyAfter(to, @)] \in Row
           /\ [row EXCEPT !.version = @ + 1] \in Row
           /\ [row EXCEPT !.deleted = TRUE, !.dedupeKey = NoKey, !.version = @ + 1] \in Row
<1>1. row.dedupeKey \in Sources \cup {NoKey} /\ row.version + 1 \in Nat
  BY DEF Row
<1>2. KeyAfter(to, row.dedupeKey) \in Sources \cup {NoKey}
  BY <1>1, KeyAfterType
<1> QED  BY <1>1, <1>2 DEF Row

LEMMA WriteTypes ==
    ASSUME TypeInv, NEW r \in Requests, Write(r)
    PROVE  TypeInv'
<1> DEFINE c   == call[r]
           row == operations[c.id]
<1>1. pc[r] = "loaded" /\ Finish(r)
  BY DEF Write, CommitTransition, CommitUpdate, CommitDelete, Conflict, CommitAssign, CommitUnassign
<1>2. /\ c.id \in Operations /\ row \in Row
      /\ c.op = "transition" => c.status \in Statuses /\ c.to \in Statuses
      /\ c.op \in {"update", "delete"} => c.status \in Statuses
      /\ c.op = "unassign" => c.assignment \in DOMAIN assignments
  BY <1>1, LoadedCall
<1>3. SUFFICES /\ operations' \in Seq(Row) /\ timeline' \in Seq(Seq(Event))
               /\ Len(timeline') = Len(operations') /\ Operations' = Operations
               /\ assignments' \in Seq([operation : Nat, open : BOOLEAN])
               /\ DOMAIN assignments \subseteq DOMAIN assignments'
  BY <1>1, FinishTypes DEF TypeInv, TypeOK
<1>4. CASE CommitTransition(r)
  <2>1. [type |-> "STATUS", from |-> c.status, to |-> c.to] \in Event
    BY <1>2, <1>4 DEF Event, CommitTransition
  <2>2. [row EXCEPT !.status = c.to, !.version = @ + 1, !.dedupeKey = KeyAfter(c.to, @)] \in Row
    BY <1>2, <1>4, RowChanges DEF CommitTransition
  <2> HIDE DEF c, row
  <2>3. /\ Replace(c.id, [row EXCEPT !.status = c.to, !.version = @ + 1,
                                     !.dedupeKey = KeyAfter(c.to, @)])
        /\ Tell(c.id, [type |-> "STATUS", from |-> c.status, to |-> c.to])
        /\ assignments' = assignments
    BY <1>4 DEF CommitTransition, c, row
  <2> QED  BY <1>2, <2>1, <2>2, <2>3, ReplaceFacts, TellFacts DEF TypeInv, TypeOK
<1>5. CASE CommitUpdate(r)
  <2>1. [row EXCEPT !.version = @ + 1] \in Row
    BY <1>2, RowChanges, StatusFacts
  <2> HIDE DEF c, row
  <2>2. /\ Replace(c.id, [row EXCEPT !.version = @ + 1])
        /\ timeline' = timeline /\ assignments' = assignments
    BY <1>5 DEF CommitUpdate, c, row
  <2> QED  BY <1>2, <2>1, <2>2, ReplaceFacts DEF TypeInv, TypeOK
<1>6. CASE CommitDelete(r)
  <2>1. [type |-> "SOFT_DELETED", from |-> c.status, to |-> NoStatus] \in Event
    BY <1>2, <1>6 DEF Event, CommitDelete
  <2>2. [row EXCEPT !.deleted = TRUE, !.dedupeKey = NoKey, !.version = @ + 1] \in Row
    BY <1>2, RowChanges, StatusFacts
  <2> HIDE DEF c, row
  <2>3. /\ Replace(c.id, [row EXCEPT !.deleted = TRUE, !.dedupeKey = NoKey, !.version = @ + 1])
        /\ Tell(c.id, [type |-> "SOFT_DELETED", from |-> c.status, to |-> NoStatus])
        /\ assignments' = assignments
    BY <1>6 DEF CommitDelete, c, row
  <2> QED  BY <1>2, <2>1, <2>2, <2>3, ReplaceFacts, TellFacts DEF TypeInv, TypeOK
<1>7. CASE Conflict(r)
  BY <1>7, TablesUnchanged DEF Conflict
<1>8. CASE CommitAssign(r)
  <2>1. [type |-> "ASSIGN", from |-> NoStatus, to |-> NoStatus] \in Event
    BY DEF Event
  <2>2. [operation |-> c.id, open |-> TRUE] \in [operation : Nat, open : BOOLEAN]
    BY <1>2 DEF Operations, TypeInv, TypeOK
  <2> HIDE DEF c
  <2>3. /\ assignments' = Append(assignments, [operation |-> c.id, open |-> TRUE])
        /\ Tell(c.id, [type |-> "ASSIGN", from |-> NoStatus, to |-> NoStatus])
        /\ operations' = operations
    BY <1>8 DEF CommitAssign, c
  <2>4. /\ assignments' \in Seq([operation : Nat, open : BOOLEAN])
        /\ Len(assignments') = Len(assignments) + 1 /\ Len(assignments) \in Nat
        /\ DOMAIN assignments = 1 .. Len(assignments) /\ DOMAIN assignments' = 1 .. Len(assignments')
    BY <2>2, <2>3, AppendProperties DEF TypeInv, TypeOK
  <2> QED  BY <1>2, <2>1, <2>3, <2>4, TellFacts DEF TypeInv, TypeOK, Operations
<1>9. CASE CommitUnassign(r)
  <2> DEFINE a == c.assignment
             s == assignments
  <2>1. [type |-> "UNASSIGN", from |-> NoStatus, to |-> NoStatus] \in Event
    BY DEF Event
  <2>2. s \in Seq([operation : Nat, open : BOOLEAN]) /\ a \in 1 .. Len(s)
    BY <1>2, <1>9 DEF CommitUnassign, TypeInv, TypeOK
  <2>3. s[a] \in [operation : Nat, open : BOOLEAN]
    BY <2>2, SeqElements
  <2>4. [s[a] EXCEPT !.open = FALSE] \in [operation : Nat, open : BOOLEAN]
    BY <2>3
  <2>5. /\ assignments' = [s EXCEPT ![a] = [s[a] EXCEPT !.open = FALSE]]
        /\ Tell(c.id, [type |-> "UNASSIGN", from |-> NoStatus, to |-> NoStatus])
        /\ operations' = operations
    BY <1>9 DEF CommitUnassign
  <2> HIDE DEF c, a, s
  <2>6. /\ assignments' \in Seq([operation : Nat, open : BOOLEAN])
        /\ DOMAIN assignments' = 1 .. Len(s) /\ DOMAIN s = 1 .. Len(s)
    BY <2>2, <2>4, <2>5, ExceptSeq
  <2> QED  BY <1>2, <2>1, <2>5, <2>6, TellFacts DEF TypeInv, TypeOK, Operations, s
<1> QED  BY <1>4, <1>5, <1>6, <1>7, <1>8, <1>9 DEF Write

LEMMA IdleTypes ==
    ASSUME TypeInv, UNCHANGED vars
    PROVE  TypeInv'
BY DEF vars, TypeInv, TypeOK, CallsInFlight, Operations

LEMMA AbortTypes ==
    ASSUME TypeInv, NEW r \in Requests, Abort(r)
    PROVE  TypeInv'
BY TablesUnchanged, FinishTypes DEF Abort, TypeInv, TypeOK

LEMMA TypesPreserved == TypeInv /\ [Next]_vars => TypeInv'
<1> SUFFICES ASSUME TypeInv, [Next]_vars  PROVE TypeInv'
  OBVIOUS
<1>1. ASSUME NEW r \in Requests, Start(r) \/ Create(r) \/ Write(r) \/ Abort(r)
      PROVE  TypeInv'
  BY <1>1, StartTypes, InsertTypes, CreateTypes, WriteTypes, AbortTypes DEF Create
<1> QED  BY <1>1, IdleTypes DEF Next

\* Every reachable state is well typed; in particular every operation has its timeline,
\* whatever is created, changed, deleted and assigned at the same time.
THEOREM TypeCorrect == Spec => []TypeOK
<1>1. Spec => []TypeInv
  BY InitTypes, TypesPreserved, PTL DEF Spec
<1>2. TypeInv => TypeOK
  BY DEF TypeInv
<1> QED  BY <1>1, <1>2, PTL

-----------------------------------------------------------------------------
(* What a step may do to the table of operations.                           *)

Changes(r) == CommitTransition(r) \/ CommitUpdate(r) \/ CommitDelete(r)

LEMMA StepKinds ==
    ASSUME [Next]_vars
    PROVE  \/ \E r \in Requests : Insert(r)
           \/ \E r \in Requests : Changes(r)
           \/ operations' = operations
<1>1. ASSUME NEW r \in Requests, Start(r)
      PROVE  operations' = operations
  BY <1>1 DEF Start, StartCreate, StartTransition, StartChange, StartAssign, StartUnassign, Accept
<1>2. ASSUME NEW r \in Requests, Create(r)
      PROVE  Insert(r) \/ operations' = operations
  BY <1>2 DEF Create, CountRows, RefuseDuplicate, RetryNumber, GiveUp
<1>3. ASSUME NEW r \in Requests, Write(r)
      PROVE  Changes(r) \/ operations' = operations
  BY <1>3 DEF Write, Conflict, CommitAssign, CommitUnassign, Changes
<1> QED  BY <1>1, <1>2, <1>3 DEF Next, Abort, vars

\* A change touches one operation, in the state that was loaded, and never its source
\* or its number.
LEMMA ChangeFacts ==
    ASSUME TypeInv, NEW r \in Requests, Changes(r)
    PROVE  LET c   == call[r]
               old == operations[c.id]
               new == operations'[c.id]
           IN  /\ c.id \in Operations /\ Operations' = Operations
               /\ Len(operations') = Len(operations)
               /\ \A p \in Operations : p # c.id => operations'[p] = operations[p]
               /\ ~old.deleted /\ old.version = c.version
               /\ new.source = old.source /\ new.number = old.number
               /\ old.version \in Nat /\ new.version = old.version + 1
               /\ \/ /\ CommitTransition(r) /\ c.op = "transition"
                     /\ new.status = c.to /\ ~new.deleted
                     /\ new.dedupeKey = KeyAfter(c.to, old.dedupeKey)
                  \/ /\ CommitUpdate(r) /\ c.op = "update"
                     /\ new.status = old.status /\ ~new.deleted /\ new.dedupeKey = old.dedupeKey
                  \/ /\ CommitDelete(r) /\ c.op = "delete"
                     /\ new.status = old.status /\ new.deleted /\ new.dedupeKey = NoKey
<1> DEFINE c   == call[r]
           old == operations[c.id]
<1>1. pc[r] = "loaded" /\ StillCurrent(c)
  BY DEF Changes, CommitTransition, CommitUpdate, CommitDelete
<1>2. /\ c.id \in Operations /\ old \in Row
      /\ c.op = "transition" => c.to \in Statuses
  BY <1>1, LoadedCall
<1>3. ~old.deleted /\ old.version = c.version
  BY <1>1 DEF StillCurrent
<1>4. CASE CommitTransition(r)
  <2> DEFINE row == [old EXCEPT !.status = c.to, !.version = @ + 1, !.dedupeKey = KeyAfter(c.to, @)]
  <2>1. c.op = "transition" /\ Replace(c.id, row)
    BY <1>4 DEF CommitTransition
  <2>2. row \in Row
    BY <1>2, <2>1, RowChanges
  <2>3. /\ row.source = old.source /\ row.number = old.number /\ row.deleted = old.deleted
        /\ row.status = c.to /\ row.dedupeKey = KeyAfter(c.to, old.dedupeKey)
        /\ old.version \in Nat /\ row.version = old.version + 1
    BY <1>2 DEF Row
  <2> HIDE DEF row, c
  <2>4. /\ Operations' = Operations /\ Len(operations') = Len(operations)
        /\ operations'[c.id] = row
        /\ \A p \in Operations : p # c.id => operations'[p] = operations[p]
    BY <1>2, <2>1, <2>2, ReplaceFacts
  <2> QED  BY <1>2, <1>3, <1>4, <2>1, <2>3, <2>4 DEF c
<1>5. CASE CommitUpdate(r)
  <2> DEFINE row == [old EXCEPT !.version = @ + 1]
  <2>1. c.op = "update" /\ Replace(c.id, row)
    BY <1>5 DEF CommitUpdate
  <2>2. row \in Row
    BY <1>2, RowChanges, StatusFacts
  <2>3. /\ row.source = old.source /\ row.number = old.number /\ row.deleted = old.deleted
        /\ row.status = old.status /\ row.dedupeKey = old.dedupeKey
        /\ old.version \in Nat /\ row.version = old.version + 1
    BY <1>2 DEF Row
  <2> HIDE DEF row, c
  <2>4. /\ Operations' = Operations /\ Len(operations') = Len(operations)
        /\ operations'[c.id] = row
        /\ \A p \in Operations : p # c.id => operations'[p] = operations[p]
    BY <1>2, <2>1, <2>2, ReplaceFacts
  <2> QED  BY <1>2, <1>3, <1>5, <2>1, <2>3, <2>4 DEF c
<1>6. CASE CommitDelete(r)
  <2> DEFINE row == [old EXCEPT !.deleted = TRUE, !.dedupeKey = NoKey, !.version = @ + 1]
  <2>1. c.op = "delete" /\ Replace(c.id, row)
    BY <1>6 DEF CommitDelete
  <2>2. row \in Row
    BY <1>2, RowChanges, StatusFacts
  <2>3. /\ row.source = old.source /\ row.number = old.number /\ row.deleted
        /\ row.status = old.status /\ row.dedupeKey = NoKey
        /\ old.version \in Nat /\ row.version = old.version + 1
    BY <1>2 DEF Row
  <2> HIDE DEF row, c
  <2>4. /\ Operations' = Operations /\ Len(operations') = Len(operations)
        /\ operations'[c.id] = row
        /\ \A p \in Operations : p # c.id => operations'[p] = operations[p]
    BY <1>2, <2>1, <2>2, ReplaceFacts
  <2> QED  BY <1>2, <1>3, <1>6, <2>1, <2>3, <2>4 DEF c
<1> QED  BY <1>4, <1>5, <1>6 DEF Changes

-----------------------------------------------------------------------------
(* What a request has loaded is what it will overwrite, or the version has  *)
(* moved on and it will overwrite nothing.                                  *)

IsChange(c) == c.op \in {"transition", "update", "delete"}

HonestLoad(c) ==
    /\ c.version <= operations[c.id].version
    /\ c.version = operations[c.id].version => c.status = operations[c.id].status
    /\ c.op = "transition" => c.to \in AllowedNext[c.status]

LoadsAreHonest ==
    \A r \in Requests : pc[r] = "loaded" /\ IsChange(call[r]) => HonestLoad(call[r])

LoadInv == TypeInv /\ LoadsAreHonest

\* A row that changes gets a new version; a row that does not keeps its version.
LEMMA VersionsMoveOn ==
    ASSUME TypeInv, [Next]_vars, NEW o \in Operations
    PROVE  /\ o \in Operations'
           /\ operations'[o] # operations[o] => operations'[o].version = operations[o].version + 1
           /\ operations[o].version \in Nat
<1>1. operations[o].version \in Nat
  <2>1. operations[o] \in Row
    BY SeqElements DEF TypeInv, TypeOK, Operations
  <2> QED  BY <2>1 DEF Row
<1>2. CASE \E r \in Requests : Insert(r)
  BY <1>1, <1>2, InsertTypes
<1>3. CASE \E r \in Requests : Changes(r)
  <2>1. PICK r \in Requests : Changes(r)
    BY <1>3
  <2>2. /\ Operations' = Operations
        /\ o # call[r].id => operations'[o] = operations[o]
        /\ operations'[call[r].id].version = operations[call[r].id].version + 1
    BY <2>1, ChangeFacts
  <2> QED  BY <1>1, <2>2
<1>4. CASE operations' = operations
  BY <1>1, <1>4 DEF Operations
<1>5. \/ \E r \in Requests : Insert(r)
      \/ \E r \in Requests : Changes(r)
      \/ operations' = operations
  BY StepKinds
<1> QED  BY <1>2, <1>3, <1>4, <1>5

\* A load that was honest stays honest.
LEMMA LoadStaysHonest ==
    ASSUME TypeInv, [Next]_vars, NEW r \in Requests, pc[r] = "loaded",
           IsChange(call[r]), HonestLoad(call[r]), call'[r] = call[r]
    PROVE  HonestLoad(call[r])'
<1> DEFINE c == call[r]
<1>1. c.id \in Operations /\ c.version \in Nat
  BY LoadedCall DEF TypeInv, CallsInFlight, IsChange, ChangeCalls, AssignmentCalls
<1>2. /\ operations'[c.id] # operations[c.id] =>
             operations'[c.id].version = operations[c.id].version + 1
      /\ operations[c.id].version \in Nat
  BY <1>1, VersionsMoveOn
<1> QED  BY <1>1, <1>2 DEF HonestLoad

LEMMA LoadsPreserved == LoadInv /\ [Next]_vars => LoadInv'
<1> SUFFICES ASSUME LoadInv, [Next]_vars  PROVE LoadInv'
  OBVIOUS
<1>1. TypeInv'
  BY TypesPreserved DEF LoadInv
<1>2. ASSUME NEW q \in Requests, pc'[q] = "loaded", IsChange(call[q])',
             pc[q] = "loaded", call'[q] = call[q]
      PROVE  HonestLoad(call[q])'
  <2>1. IsChange(call[q]) /\ HonestLoad(call[q])
    BY <1>2 DEF LoadInv, LoadsAreHonest, IsChange
  <2> QED  BY <1>2, <2>1, LoadStaysHonest DEF LoadInv
<1>3. ASSUME NEW r \in Requests, Start(r)
      PROVE  LoadsAreHonest'
  <2>1. \E place, c : /\ Accept(r, place, c)
                      /\ place = "loaded" /\ IsChange(c) =>
                            /\ c.id \in Operations
                            /\ c.version = operations[c.id].version
                            /\ c.status = operations[c.id].status
                            /\ c.op = "transition" => c.to \in AllowedNext[c.status]
    <3>1. ASSUME NEW k \in Sources \cup {NoKey}, StartCreate(r, k)
          PROVE  \E c : Accept(r, "counting", c)
      BY <3>1 DEF StartCreate
    <3>2. ASSUME NEW o \in Operations, NEW to \in Statuses, StartTransition(r, o, to)
          PROVE  \E c : /\ Accept(r, "loaded", c) /\ c.id = o
                        /\ c.version = operations[o].version /\ c.status = operations[o].status
                        /\ c.to \in AllowedNext[c.status]
      BY <3>2 DEF StartTransition
    <3>3. ASSUME NEW o \in Operations, NEW op \in {"update", "delete"}, StartChange(r, o, op)
          PROVE  \E c : /\ Accept(r, "loaded", c) /\ c.op = op /\ c.id = o
                        /\ c.version = operations[o].version /\ c.status = operations[o].status
      BY <3>3 DEF StartChange
    <3>4. ASSUME NEW o \in Operations, StartAssign(r, o)
          PROVE  \E c : Accept(r, "loaded", c) /\ c.op = "assign"
      BY <3>4 DEF StartAssign
    <3>5. ASSUME NEW a \in DOMAIN assignments, StartUnassign(r, a)
          PROVE  \E c : Accept(r, "loaded", c) /\ c.op = "unassign"
      BY <3>5 DEF StartUnassign
    <3> QED  BY <1>3, <3>1, <3>2, <3>3, <3>4, <3>5 DEF Start, IsChange
  <2>2. PICK place, c : /\ Accept(r, place, c)
                        /\ place = "loaded" /\ IsChange(c) =>
                              /\ c.id \in Operations
                              /\ c.version = operations[c.id].version
                              /\ c.status = operations[c.id].status
                              /\ c.op = "transition" => c.to \in AllowedNext[c.status]
    BY <2>1
  <2>3. /\ pc'[r] = place /\ call'[r] = c /\ operations' = operations
        /\ \A q \in Requests : q # r => pc'[q] = pc[q] /\ call'[q] = call[q]
    BY <2>2 DEF Accept, LoadInv, TypeInv, TypeOK
  <2>4. ASSUME NEW q \in Requests, pc'[q] = "loaded", IsChange(call[q])'
        PROVE  HonestLoad(call[q])'
    <3>1. CASE q # r
      BY <1>2, <2>3, <2>4, <3>1
    <3>2. CASE q = r
      <4>1. /\ c.version = operations'[c.id].version
            /\ c.status = operations'[c.id].status
            /\ c.op = "transition" => c.to \in AllowedNext[c.status]
            /\ operations[c.id].version \in Nat
        BY <2>2, <2>3, <2>4, <3>2, VersionsMoveOn DEF IsChange, LoadInv
      <4> QED  BY <2>3, <3>2, <4>1 DEF HonestLoad
    <3> QED  BY <3>1, <3>2
  <2> QED  BY <2>4 DEF LoadsAreHonest
<1>4. ASSUME NEW r \in Requests, Create(r) \/ Write(r) \/ Abort(r)
      PROVE  LoadsAreHonest'
  <2>1. /\ pc'[r] # "loaded"
        /\ \A q \in Requests : q # r => pc'[q] = pc[q] /\ call'[q] = call[q]
    BY <1>4 DEF Create, CountRows, Insert, RefuseDuplicate, RetryNumber, GiveUp, Write,
                CommitTransition, CommitUpdate, CommitDelete, Conflict, CommitAssign,
                CommitUnassign, Abort, Finish, LoadInv, TypeInv, TypeOK
  <2>2. ASSUME NEW q \in Requests, pc'[q] = "loaded", IsChange(call[q])'
        PROVE  HonestLoad(call[q])'
    BY <1>2, <2>1, <2>2
  <2> QED  BY <2>2 DEF LoadsAreHonest
<1>5. ASSUME UNCHANGED vars
      PROVE  LoadsAreHonest'
  BY <1>5 DEF vars, LoadInv, LoadsAreHonest, IsChange, HonestLoad
<1>6. LoadsAreHonest'
  BY <1>3, <1>4, <1>5 DEF Next
<1> QED  BY <1>1, <1>6 DEF LoadInv

LEMMA LoadInvariant == Spec => []LoadInv
<1>1. Init => LoadInv
  BY InitTypes DEF Init, LoadInv, LoadsAreHonest
<1> QED  BY <1>1, LoadsPreserved, PTL DEF Spec

\* What a status change replaces was not an end.
LEMMA TransitionLeavesNoEnd ==
    ASSUME LoadInv, NEW r \in Requests, CommitTransition(r)
    PROVE  /\ call[r].status = operations[call[r].id].status
           /\ call[r].to \in AllowedNext[call[r].status]
           /\ operations[call[r].id].status \notin Terminal
<1>1. pc[r] = "loaded" /\ call[r].op = "transition" /\ StillCurrent(call[r])
  BY DEF CommitTransition
<1>2. HonestLoad(call[r]) /\ call[r].version = operations[call[r].id].version
  BY <1>1 DEF LoadInv, LoadsAreHonest, IsChange, StillCurrent
<1> QED  BY <1>1, <1>2, StatusFacts DEF HonestLoad, Terminal

-----------------------------------------------------------------------------
(* The duplicate guard.  The key is a unique copy of the source that lasts  *)
(* as long as the operation is active.                                      *)

KeysAreUnique ==
    \A o1, o2 \in Operations :
        o1 # o2 /\ operations[o1].dedupeKey = operations[o2].dedupeKey =>
            operations[o1].dedupeKey = NoKey

KeyInv == LoadInv /\ KeyHeldWhileActive /\ KeysAreUnique

LEMMA KeysPreserved == KeyInv /\ [Next]_vars => KeyInv'
<1> SUFFICES ASSUME KeyInv, [Next]_vars  PROVE KeyInv'
  OBVIOUS
<1>1. LoadInv'
  BY LoadsPreserved DEF KeyInv
<1>2. ASSUME NEW r \in Requests, Insert(r)
      PROVE  KeyHeldWhileActive' /\ KeysAreUnique'
  <2> DEFINE n == Len(operations) + 1
  <2>1. /\ Operations = 1 .. Len(operations) /\ Operations' = 1 .. n
        /\ Len(operations) \in Nat
        /\ \A o \in Operations : operations'[o] = operations[o]
        /\ operations'[n] = NewRow(call[r])
    BY <1>2, InsertTypes DEF KeyInv, LoadInv, TypeInv, TypeOK
  <2>2. ~KeyTaken(call[r].key)
    BY <1>2 DEF Insert
  <2>3. /\ NewRow(call[r]).dedupeKey = call[r].key /\ NewRow(call[r]).source = call[r].key
        /\ NewRow(call[r]).status = "PLANNED" /\ ~NewRow(call[r]).deleted
    BY DEF NewRow
  <2>4. KeyHeldWhileActive'
    BY <2>1, <2>3 DEF KeyInv, KeyHeldWhileActive, Active, Terminal
  <2>5. KeysAreUnique'
    BY <2>1, <2>2, <2>3 DEF KeyInv, KeysAreUnique, KeyTaken
  <2> QED  BY <2>4, <2>5
<1>3. ASSUME NEW r \in Requests, Changes(r)
      PROVE  KeyHeldWhileActive' /\ KeysAreUnique'
  <2> DEFINE o == call[r].id
  <2>1. /\ o \in Operations /\ Operations' = Operations
        /\ \A p \in Operations : p # o => operations'[p] = operations[p]
        /\ ~operations[o].deleted /\ operations'[o].source = operations[o].source
    BY <1>3, ChangeFacts DEF KeyInv, LoadInv
  <2>2. \/ /\ operations'[o].status = call[r].to /\ ~operations'[o].deleted
           /\ operations'[o].dedupeKey = KeyAfter(call[r].to, operations[o].dedupeKey)
           /\ operations[o].status \notin Terminal
        \/ /\ operations'[o].status = operations[o].status /\ ~operations'[o].deleted
           /\ operations'[o].dedupeKey = operations[o].dedupeKey
        \/ operations'[o].deleted /\ operations'[o].dedupeKey = NoKey
    BY <1>3, ChangeFacts, TransitionLeavesNoEnd DEF KeyInv, LoadInv
  <2> HIDE DEF o
  <2>3. operations'[o].dedupeKey \in {operations[o].dedupeKey, NoKey}
    BY <2>2 DEF KeyAfter
  <2>4. KeysAreUnique'
    BY <2>1, <2>3 DEF KeyInv, KeysAreUnique
  <2>5. KeyHeldWhileActive'
    BY <2>1, <2>2 DEF KeyInv, KeyHeldWhileActive, Active, KeyAfter
  <2> QED  BY <2>4, <2>5
<1>4. ASSUME operations' = operations
      PROVE  KeyHeldWhileActive' /\ KeysAreUnique'
  BY <1>4 DEF KeyInv, KeyHeldWhileActive, KeysAreUnique, Active, Operations
<1>5. \/ \E r \in Requests : Insert(r)
      \/ \E r \in Requests : Changes(r)
      \/ operations' = operations
  BY StepKinds
<1>6. KeyHeldWhileActive' /\ KeysAreUnique'
  BY <1>2, <1>3, <1>4, <1>5
<1> QED  BY <1>1, <1>6 DEF KeyInv

LEMMA KeyInvariant == Spec => []KeyInv
<1>1. Init => KeyInv
  BY InitTypes DEF Init, KeyInv, LoadInv, LoadsAreHonest, KeyHeldWhileActive, KeysAreUnique,
                   Operations
<1> QED  BY <1>1, KeysPreserved, PTL DEF Spec

\* An operation holds the key of its source exactly as long as it is active.
THEOREM KeysFollowTheWork == Spec => []KeyHeldWhileActive
<1>1. KeyInv => KeyHeldWhileActive
  BY DEF KeyInv
<1> QED  BY <1>1, KeyInvariant, PTL

\* No source ever has two active operations, however many requests create, end and
\* delete them at once.
THEOREM NoDuplicates == Spec => []OneActivePerSource
<1>1. KeyInv => OneActivePerSource
  BY DEF KeyInv, KeyHeldWhileActive, KeysAreUnique, OneActivePerSource
<1> QED  BY <1>1, KeyInvariant, PTL

-----------------------------------------------------------------------------
(* The end of an operation is final: a request that loaded it before finds  *)
(* another version when it writes.                                          *)

LEMMA EndsAreKept == LoadInv /\ [Next]_vars => EndedStaysEnded
<1> SUFFICES ASSUME LoadInv, [Next]_vars, NEW o \in Operations
             PROVE  /\ operations[o].status \in Terminal =>
                           operations'[o].status = operations[o].status
                    /\ operations[o].deleted => operations'[o] = operations[o]
  BY DEF EndedStaysEnded
<1>1. CASE \E r \in Requests : Insert(r)
  BY <1>1, InsertTypes DEF LoadInv
<1>2. CASE \E r \in Requests : Changes(r)
  <2>1. PICK r \in Requests : Changes(r)
    BY <1>2
  <2>2. /\ o # call[r].id => operations'[o] = operations[o]
        /\ ~operations[call[r].id].deleted
        /\ \/ CommitTransition(r)
           \/ operations'[call[r].id].status = operations[call[r].id].status
    BY <2>1, ChangeFacts DEF LoadInv
  <2> QED  BY <2>2, TransitionLeavesNoEnd
<1>3. CASE operations' = operations
  BY <1>3
<1> QED  BY <1>1, <1>2, <1>3, StepKinds

\* A closed or cancelled operation is never reopened and a deleted one never changes.
THEOREM EndsAreFinal == Spec => EndIsFinal
<1>1. LoadInv /\ [Next]_vars => [EndedStaysEnded]_vars
  BY EndsAreKept
<1> QED  BY <1>1, LoadInvariant, PTL DEF Spec, EndIsFinal

-----------------------------------------------------------------------------
(* Operation numbers.  A number is at most the count it was taken from plus *)
(* the attempts, and the row that bears it was not yet counted: with rows   *)
(* for a count, the number after the last attempt is free.                  *)

NumbersStayLow ==
    \A o \in Operations : operations[o].number <= Len(operations) + MAX_CREATE_ATTEMPTS - 1

\* While nobody else creates an operation, every attempt has tried its own number.
SoundCount(r) ==
    LET c == call[r]
    IN
    /\ c.rowsAtStart <= Len(operations)
    /\ pc[r] # "exhausted" => c.attempt < MAX_CREATE_ATTEMPTS
    /\ pc[r] = "exhausted" => c.attempt = MAX_CREATE_ATTEMPTS
    /\ pc[r] = "inserting" => c.number <= Len(operations) + 1 + c.attempt
    /\ Len(operations) = c.rowsAtStart =>
          /\ pc[r] = "inserting" => c.number = c.rowsAtStart + 1 + c.attempt
          /\ \A k \in 1 .. c.attempt : NumberTaken(c.rowsAtStart + k)

CountsAreSound ==
    \A r \in Requests : pc[r] \in {"counting", "inserting", "exhausted"} => SoundCount(r)

NumberInv == TypeInv /\ NumbersStayLow /\ CountsAreSound

LEMMA NumbersPreserved == NumberInv /\ [Next]_vars => NumberInv'
<1> SUFFICES ASSUME NumberInv, [Next]_vars  PROVE NumberInv'
  OBVIOUS
<1> USE AttemptsAssumption
<1>1. TypeInv'
  BY TypesPreserved DEF NumberInv
<1>2. /\ Len(operations) \in Nat
      /\ \A o \in Operations : operations[o].number \in Nat
  <2>1. Len(operations) \in Nat /\ \A o \in Operations : operations[o] \in Row
    BY SeqElements DEF NumberInv, TypeInv, TypeOK, Operations
  <2> QED  BY <2>1 DEF Row
<1>3. \A r \in Requests : pc[r] \in {"counting", "inserting", "exhausted"} =>
          call[r].attempt \in Nat /\ call[r].number \in Nat /\ call[r].rowsAtStart \in Nat
  BY DEF NumberInv, TypeInv, CallsInFlight, CreateCalls
<1>4. ASSUME NEW r \in Requests, Insert(r)
      PROVE  NumbersStayLow' /\ CountsAreSound'
  <2>1. /\ Operations = 1 .. Len(operations) /\ Operations' = 1 .. Len(operations) + 1
        /\ Len(operations') = Len(operations) + 1
        /\ \A o \in Operations : operations'[o] = operations[o]
        /\ operations'[Len(operations) + 1].number = call[r].number
    <3>1. NewRow(call[r]).number = call[r].number
      BY DEF NewRow
    <3> QED  BY <1>4, <3>1, InsertTypes DEF NumberInv
  <2>2. /\ call[r].number <= Len(operations) + 1 + call[r].attempt
        /\ call[r].attempt < MAX_CREATE_ATTEMPTS
        /\ pc[r] = "inserting"
    BY <1>4 DEF Insert, NumberInv, CountsAreSound, SoundCount
  <2>3. NumbersStayLow'
    BY <1>2, <1>3, <2>1, <2>2 DEF NumberInv, NumbersStayLow
  <2>4. /\ pc'[r] = "idle"
        /\ \A q \in Requests : q # r => pc'[q] = pc[q] /\ call'[q] = call[q]
    BY <1>4 DEF Insert, Finish, NumberInv, TypeInv, TypeOK
  <2>5. ASSUME NEW q \in Requests, pc'[q] \in {"counting", "inserting", "exhausted"}
        PROVE  SoundCount(q)'
    <3>1. pc'[q] = pc[q] /\ call'[q] = call[q] /\ SoundCount(q)
      BY <2>4, <2>5 DEF NumberInv, CountsAreSound
    <3>2. Len(operations') = Len(operations) + 1 /\ Len(operations) \in Nat
      BY <1>2, <2>1
    <3>3. /\ call[q].attempt \in Nat /\ call[q].number \in Nat /\ call[q].rowsAtStart \in Nat
          /\ call[q].rowsAtStart <= Len(operations)
      BY <1>3, <2>5, <3>1 DEF SoundCount
    <3>4. Len(operations') # call[q].rowsAtStart
      BY <3>2, <3>3
    <3> QED  BY <3>1, <3>2, <3>3, <3>4 DEF SoundCount
  <2>6. CountsAreSound'
    BY <2>5 DEF CountsAreSound
  <2> QED  BY <2>3, <2>6
<1>5. ASSUME NEW r \in Requests, Changes(r)
      PROVE  NumbersStayLow' /\ CountsAreSound'
  <2>1. /\ Operations' = Operations /\ Len(operations') = Len(operations)
        /\ \A o \in Operations : operations'[o].number = operations[o].number
    BY <1>5, ChangeFacts DEF NumberInv
  <2>2. /\ pc'[r] = "idle"
        /\ \A q \in Requests : q # r => pc'[q] = pc[q] /\ call'[q] = call[q]
    BY <1>5 DEF Changes, CommitTransition, CommitUpdate, CommitDelete, Finish,
                NumberInv, TypeInv, TypeOK
  <2> QED  BY <2>1, <2>2 DEF NumberInv, NumbersStayLow, CountsAreSound, SoundCount, NumberTaken
<1>6. ASSUME UNCHANGED operations, NEW r \in Requests,
             \A q \in Requests : q # r => pc'[q] = pc[q] /\ call'[q] = call[q],
             pc'[r] \in {"counting", "inserting", "exhausted"} => SoundCount(r)'
      PROVE  NumbersStayLow' /\ CountsAreSound'
  <2>1. NumbersStayLow'
    BY <1>6 DEF NumberInv, NumbersStayLow, Operations
  <2>2. ASSUME NEW q \in Requests, pc'[q] \in {"counting", "inserting", "exhausted"}, q # r
        PROVE  SoundCount(q)'
    BY <1>6, <2>2 DEF NumberInv, CountsAreSound, SoundCount, NumberTaken, Operations
  <2> QED  BY <1>6, <2>1, <2>2 DEF CountsAreSound
<1>7. ASSUME NEW r \in Requests, NEW k \in Sources \cup {NoKey}, StartCreate(r, k)
      PROVE  NumbersStayLow' /\ CountsAreSound'
  <2>1. /\ pc'[r] = "counting" /\ call'[r].attempt = 0
        /\ call'[r].rowsAtStart = Len(operations)
        /\ UNCHANGED operations
        /\ \A q \in Requests : q # r => pc'[q] = pc[q] /\ call'[q] = call[q]
    BY <1>7 DEF StartCreate, Accept, NumberInv, TypeInv, TypeOK
  <2>2. SoundCount(r)'
    BY <1>2, <2>1 DEF SoundCount
  <2> QED  BY <1>6, <2>1, <2>2
<1>8. ASSUME NEW r \in Requests, Start(r)
      PROVE  NumbersStayLow' /\ CountsAreSound'
  <2>1. CASE \E k \in Sources \cup {NoKey} : StartCreate(r, k)
    BY <1>7, <2>1
  <2>2. CASE ~ \E k \in Sources \cup {NoKey} : StartCreate(r, k)
    <3>1. \E c : Accept(r, "loaded", c)
      BY <1>8, <2>2 DEF Start, StartTransition, StartChange, StartAssign, StartUnassign
    <3>2. /\ pc'[r] = "loaded" /\ UNCHANGED operations
          /\ \A q \in Requests : q # r => pc'[q] = pc[q] /\ call'[q] = call[q]
      BY <3>1 DEF Accept, NumberInv, TypeInv, TypeOK
    <3> QED  BY <1>6, <3>2
  <2> QED  BY <2>1, <2>2
<1>9. ASSUME NEW r \in Requests, CountRows(r)
      PROVE  NumbersStayLow' /\ CountsAreSound'
  <2>1. /\ pc[r] = "counting" /\ pc'[r] = "inserting" /\ UNCHANGED operations
        /\ call'[r].attempt = call[r].attempt
        /\ call'[r].rowsAtStart = call[r].rowsAtStart
        /\ call'[r].number = Len(operations) + 1 + call[r].attempt
        /\ \A q \in Requests : q # r => pc'[q] = pc[q] /\ call'[q] = call[q]
    <3>1. call[r] \in CreateCalls
      BY <1>9 DEF CountRows, NumberInv, TypeInv, CallsInFlight
    <3> QED  BY <1>9, <3>1 DEF CountRows, NextNumber, CreateCalls, NumberInv, TypeInv, TypeOK
  <2>2. SoundCount(r)'
    BY <1>2, <1>3, <2>1 DEF NumberInv, CountsAreSound, SoundCount, NumberTaken, Operations
  <2> QED  BY <1>6, <2>1, <2>2
<1>10. ASSUME NEW r \in Requests, RetryNumber(r)
       PROVE  NumbersStayLow' /\ CountsAreSound'
  <2> DEFINE n == call[r].attempt + 1
  <2>1. /\ pc[r] = "inserting" /\ UNCHANGED operations
        /\ pc'[r] = IF n < MAX_CREATE_ATTEMPTS THEN "counting" ELSE "exhausted"
        /\ call'[r].attempt = n
        /\ call'[r].rowsAtStart = call[r].rowsAtStart
        /\ NumberTaken(call[r].number)
        /\ \A q \in Requests : q # r => pc'[q] = pc[q] /\ call'[q] = call[q]
    <3>1. call[r] \in CreateCalls
      BY <1>10 DEF RetryNumber, NumberInv, TypeInv, CallsInFlight
    <3> QED  BY <1>10, <3>1 DEF RetryNumber, CreateCalls, NumberInv, TypeInv, TypeOK
  <2>2. SoundCount(r)
    BY <2>1 DEF NumberInv, CountsAreSound
  <2>3. /\ call[r].rowsAtStart <= Len(operations) /\ call[r].attempt < MAX_CREATE_ATTEMPTS
        /\ call[r].attempt \in Nat /\ call[r].rowsAtStart \in Nat
        /\ Len(operations) = call[r].rowsAtStart =>
              /\ call[r].number = call[r].rowsAtStart + n
              /\ \A k \in 1 .. call[r].attempt : NumberTaken(call[r].rowsAtStart + k)
    BY <1>2, <1>3, <2>1, <2>2 DEF SoundCount
  <2>4. Len(operations) = call[r].rowsAtStart =>
            \A k \in 1 .. n : NumberTaken(call[r].rowsAtStart + k)
    <3> SUFFICES ASSUME Len(operations) = call[r].rowsAtStart, NEW k \in 1 .. n
                 PROVE  NumberTaken(call[r].rowsAtStart + k)
      OBVIOUS
    <3>1. k \in 1 .. call[r].attempt \/ k = n
      BY <2>3
    <3> QED  BY <2>1, <2>3, <3>1
  <2>5. \A m : NumberTaken(m)' <=> NumberTaken(m)
    BY <2>1 DEF NumberTaken, Operations
  <2>6. SoundCount(r)'
    BY <1>2, <2>1, <2>3, <2>4, <2>5 DEF SoundCount
  <2> QED  BY <1>6, <2>1, <2>6
<1>11. ASSUME NEW r \in Requests, Finish(r), UNCHANGED operations
       PROVE  NumbersStayLow' /\ CountsAreSound'
  <2>1. /\ pc'[r] = "idle"
        /\ \A q \in Requests : q # r => pc'[q] = pc[q] /\ call'[q] = call[q]
    BY <1>11 DEF Finish, NumberInv, TypeInv, TypeOK
  <2> QED  BY <1>6, <1>11, <2>1
<1>12. ASSUME UNCHANGED vars
       PROVE  NumbersStayLow' /\ CountsAreSound'
  BY <1>12 DEF vars, NumberInv, NumbersStayLow, CountsAreSound, SoundCount, NumberTaken, Operations
<1>13. ASSUME NEW r \in Requests, Create(r)
       PROVE  NumbersStayLow' /\ CountsAreSound'
  <2>1. CASE RefuseDuplicate(r) \/ GiveUp(r)
    BY <1>11, <2>1 DEF RefuseDuplicate, GiveUp
  <2> QED  BY <1>4, <1>9, <1>10, <1>13, <2>1 DEF Create
<1>14. ASSUME NEW r \in Requests, Write(r)
       PROVE  NumbersStayLow' /\ CountsAreSound'
  <2>1. CASE Conflict(r) \/ CommitAssign(r) \/ CommitUnassign(r)
    BY <1>11, <2>1 DEF Conflict, CommitAssign, CommitUnassign
  <2> QED  BY <1>5, <1>14, <2>1 DEF Write, Changes
<1>15. ASSUME NEW r \in Requests, Abort(r)
       PROVE  NumbersStayLow' /\ CountsAreSound'
  BY <1>11, <1>15 DEF Abort
<1>16. NumbersStayLow' /\ CountsAreSound'
  BY <1>8, <1>12, <1>13, <1>14, <1>15 DEF Next
<1> QED  BY <1>1, <1>16 DEF NumberInv

\* A creation that nobody overtakes finds a number: with as many rows as it started
\* with, the last number it tried is above every number in the table.
THEOREM NumbersSuffice == Spec => []ExhaustedOnlyWhenRaced
<1>1. Init => NumberInv
  BY InitTypes DEF Init, NumberInv, NumbersStayLow, CountsAreSound, Operations
<1>2. NumberInv => ExhaustedOnlyWhenRaced
  <2> SUFFICES ASSUME NumberInv, NEW r \in Requests, pc[r] = "exhausted",
                      ~(Len(operations) > call[r].rowsAtStart)
               PROVE  FALSE
    BY DEF ExhaustedOnlyWhenRaced
  <2>1. /\ Len(operations) \in Nat /\ call[r].rowsAtStart \in Nat
        /\ \A o \in Operations : operations[o] \in Row
    BY SeqElements DEF NumberInv, TypeInv, TypeOK, CallsInFlight, CreateCalls, Operations
  <2>2. SoundCount(r)
    BY DEF NumberInv, CountsAreSound
  <2>3. /\ Len(operations) = call[r].rowsAtStart
        /\ call[r].attempt = MAX_CREATE_ATTEMPTS
        /\ \A k \in 1 .. MAX_CREATE_ATTEMPTS : NumberTaken(call[r].rowsAtStart + k)
    BY <2>1, <2>2 DEF SoundCount
  <2>4. NumberTaken(Len(operations) + MAX_CREATE_ATTEMPTS)
    BY <2>3, AttemptsAssumption
  <2> QED  BY <2>1, <2>4, AttemptsAssumption DEF NumberInv, NumbersStayLow, NumberTaken, Row
<1> QED  BY <1>1, <1>2, NumbersPreserved, PTL DEF Spec

-----------------------------------------------------------------------------
(* The timeline.  A writer that is still current appends to the story that  *)
(* ends in the status it loaded.                                            *)

StoryOf(o) ==
    /\ timeline[o] # << >> /\ timeline[o][1] = CreateEvent
    /\ \A i, j \in StatusEvents(o) :
           Follows(o, i, j) =>
               /\ timeline[o][j].from = timeline[o][i].to
               /\ timeline[o][j].to \in AllowedNext[timeline[o][i].to]
    /\ \A i \in StatusEvents(o) :
           (\A k \in StatusEvents(o) : k <= i) => timeline[o][i].to = operations[o].status
    /\ \A i \in DOMAIN timeline[o] :
           timeline[o][i].type = "SOFT_DELETED" =>
               /\ operations[o].deleted
               /\ timeline[o][i].from = operations[o].status
               /\ \A k \in i + 1 .. Len(timeline[o]) :
                      timeline[o][k].type \in {"ASSIGN", "UNASSIGN"}

StoryInv == LoadInv /\ TimelineTellsTheStory

\* The log of an operation after one more event.
LEMMA OneMoreEvent ==
    ASSUME TypeInv, NEW o \in Operations, NEW e \in Event, StoryOf(o),
           timeline'[o] = Append(timeline[o], e)
    PROVE  LET n == Len(timeline[o]) + 1
           IN  /\ n \in Nat /\ n > 1
               /\ DOMAIN timeline[o] = 1 .. n - 1 /\ DOMAIN timeline'[o] = 1 .. n
               /\ Len(timeline'[o]) = n
               /\ timeline'[o][n] = e
               /\ \A i \in 1 .. n - 1 : timeline'[o][i] = timeline[o][i]
               /\ timeline'[o] # << >> /\ timeline'[o][1] = CreateEvent
               /\ StatusEvents(o) \subseteq 1 .. n - 1
               /\ StatusEvents(o)' = StatusEvents(o) \cup (IF e.to = NoStatus THEN {} ELSE {n})
<1> DEFINE n == Len(timeline[o]) + 1
<1>1. timeline[o] \in Seq(Event)
  BY SeqElements DEF TypeInv, TypeOK, Operations
<1>2. timeline[o] # << >> /\ timeline[o][1] = CreateEvent
  BY DEF StoryOf
<1>3. /\ n \in Nat /\ n > 1
      /\ DOMAIN timeline[o] = 1 .. n - 1
  BY <1>1, <1>2, EmptySeq
<1>4. /\ timeline'[o] \in Seq(Event) /\ Len(timeline'[o]) = n
      /\ \A i \in 1 .. n - 1 : timeline'[o][i] = timeline[o][i]
      /\ timeline'[o][n] = e
  BY <1>1, AppendProperties
<1>5. DOMAIN timeline'[o] = 1 .. n
  BY <1>4
<1>6. timeline'[o] # << >> /\ timeline'[o][1] = CreateEvent
  BY <1>2, <1>3, <1>4
<1>7. StatusEvents(o) \subseteq 1 .. n - 1
  BY <1>3 DEF StatusEvents
<1>8. StatusEvents(o)' = StatusEvents(o) \cup (IF e.to = NoStatus THEN {} ELSE {n})
  BY <1>3, <1>4, <1>5 DEF StatusEvents
<1> QED  BY <1>3, <1>4, <1>5, <1>6, <1>7, <1>8

\* Assigning, unassigning and deleting: no status event.
LEMMA SilentEvent ==
    ASSUME TypeInv, NEW o \in Operations, NEW e \in Event, StoryOf(o),
           timeline'[o] = Append(timeline[o], e), e.to = NoStatus,
           operations'[o].status = operations[o].status,
           \/ e.type \in {"ASSIGN", "UNASSIGN"} /\ operations'[o] = operations[o]
           \/ /\ e.type = "SOFT_DELETED" /\ e.from = operations[o].status
              /\ ~operations[o].deleted /\ operations'[o].deleted
    PROVE  StoryOf(o)'
<1> DEFINE n == Len(timeline[o]) + 1
<1>1. /\ n \in Nat /\ n > 1
      /\ DOMAIN timeline[o] = 1 .. n - 1 /\ DOMAIN timeline'[o] = 1 .. n
      /\ Len(timeline'[o]) = n /\ Len(timeline[o]) = n - 1
      /\ timeline'[o][n] = e
      /\ \A i \in 1 .. n - 1 : timeline'[o][i] = timeline[o][i]
      /\ timeline'[o] # << >> /\ timeline'[o][1] = CreateEvent
      /\ StatusEvents(o) \subseteq 1 .. n - 1
      /\ StatusEvents(o)' = StatusEvents(o)
  <2>1. Len(timeline[o]) \in Nat
    BY SeqElements DEF TypeInv, TypeOK, Operations
  <2>2. Len(timeline[o]) = n - 1
    BY <2>1
  <2>3. StatusEvents(o)' = StatusEvents(o)
    BY OneMoreEvent
  <2> QED  BY <2>2, <2>3, OneMoreEvent
<1> HIDE DEF n
<1>2. \A i, j : Follows(o, i, j)' <=> Follows(o, i, j)
  BY <1>1 DEF Follows
<1>3. \A i, j \in StatusEvents(o)' :
          Follows(o, i, j)' =>
              /\ timeline'[o][j].from = timeline'[o][i].to
              /\ timeline'[o][j].to \in AllowedNext[timeline'[o][i].to]
  BY <1>1, <1>2 DEF StoryOf
<1>4. \A i \in StatusEvents(o)' :
          (\A k \in StatusEvents(o)' : k <= i) => timeline'[o][i].to = operations'[o].status
  BY <1>1 DEF StoryOf
<1>5. \A i \in DOMAIN timeline'[o] :
          timeline'[o][i].type = "SOFT_DELETED" =>
              /\ operations'[o].deleted
              /\ timeline'[o][i].from = operations'[o].status
              /\ \A k \in i + 1 .. Len(timeline'[o]) :
                     timeline'[o][k].type \in {"ASSIGN", "UNASSIGN"}
  <2> SUFFICES ASSUME NEW i \in 1 .. n, timeline'[o][i].type = "SOFT_DELETED"
               PROVE  /\ operations'[o].deleted
                      /\ timeline'[o][i].from = operations'[o].status
                      /\ \A k \in i + 1 .. n : timeline'[o][k].type \in {"ASSIGN", "UNASSIGN"}
    BY <1>1
  <2>1. CASE i = n
    BY <1>1, <2>1
  <2>2. CASE i # n
    <3>1. /\ i \in 1 .. n - 1 /\ timeline[o][i].type = "SOFT_DELETED"
          /\ timeline'[o][i] = timeline[o][i]
      BY <1>1, <2>2
    <3>2. /\ operations[o].deleted /\ timeline[o][i].from = operations[o].status
          /\ \A k \in i + 1 .. n - 1 : timeline[o][k].type \in {"ASSIGN", "UNASSIGN"}
      BY <1>1, <3>1 DEF StoryOf
    <3>3. e.type \in {"ASSIGN", "UNASSIGN"} /\ operations'[o] = operations[o]
      BY <3>2
    <3>4. \A k \in i + 1 .. n : k = n \/ (k \in i + 1 .. n - 1 /\ k \in 1 .. n - 1)
      BY <1>1, <3>1
    <3> QED  BY <1>1, <3>1, <3>2, <3>3, <3>4
  <2> QED  BY <2>1, <2>2
<1> QED  BY <1>1, <1>3, <1>4, <1>5 DEF StoryOf

\* A status event that starts where the story ends.
LEMMA StatusEvent ==
    ASSUME TypeInv, NEW o \in Operations, NEW e \in Event, StoryOf(o),
           timeline'[o] = Append(timeline[o], e), e.to # NoStatus, e.type = "STATUS",
           e.from = operations[o].status, e.to \in AllowedNext[e.from],
           operations'[o].status = e.to, ~operations[o].deleted
    PROVE  StoryOf(o)'
<1> DEFINE n == Len(timeline[o]) + 1
<1>1. /\ n \in Nat /\ n > 1
      /\ DOMAIN timeline[o] = 1 .. n - 1 /\ DOMAIN timeline'[o] = 1 .. n
      /\ timeline'[o][n] = e
      /\ \A i \in 1 .. n - 1 : timeline'[o][i] = timeline[o][i]
      /\ timeline'[o] # << >> /\ timeline'[o][1] = CreateEvent
      /\ StatusEvents(o) \subseteq 1 .. n - 1
      /\ StatusEvents(o)' = StatusEvents(o) \cup {n}
  <2>1. Len(timeline[o]) \in Nat
    BY SeqElements DEF TypeInv, TypeOK, Operations
  <2> QED  BY <2>1, OneMoreEvent
<1> HIDE DEF n
<1>2. ASSUME NEW i \in StatusEvents(o)', NEW j \in StatusEvents(o)', Follows(o, i, j)'
      PROVE  /\ timeline'[o][j].from = timeline'[o][i].to
             /\ timeline'[o][j].to \in AllowedNext[timeline'[o][i].to]
  <2>1. i < j /\ \A k \in StatusEvents(o) : k <= i \/ j <= k
    BY <1>1, <1>2 DEF Follows
  <2>2. i \in StatusEvents(o) /\ timeline'[o][i] = timeline[o][i]
    BY <1>1, <2>1
  <2>3. CASE j = n
    <3>1. \A k \in StatusEvents(o) : k <= i
      BY <1>1, <2>1, <2>3
    <3>2. timeline[o][i].to = operations[o].status
      BY <2>2, <3>1 DEF StoryOf
    <3> QED  BY <1>1, <2>2, <2>3, <3>2
  <2>4. CASE j # n
    <3>1. j \in StatusEvents(o) /\ timeline'[o][j] = timeline[o][j] /\ Follows(o, i, j)
      BY <1>1, <2>1, <2>4 DEF Follows
    <3> QED  BY <2>2, <3>1 DEF StoryOf
  <2> QED  BY <2>3, <2>4
<1>3. \A i \in StatusEvents(o)' :
          (\A k \in StatusEvents(o)' : k <= i) => timeline'[o][i].to = operations'[o].status
  BY <1>1
<1>4. \A i \in DOMAIN timeline'[o] : timeline'[o][i].type # "SOFT_DELETED"
  BY <1>1 DEF StoryOf
<1> QED  BY <1>1, <1>2, <1>3, <1>4 DEF StoryOf

LEMMA StoriesPreserved == StoryInv /\ [Next]_vars => StoryInv'
<1> SUFFICES ASSUME StoryInv, [Next]_vars  PROVE StoryInv'
  OBVIOUS
<1> USE DEF StoryInv
<1>1. LoadInv' /\ TypeInv
  BY LoadsPreserved DEF LoadInv
<1>2. \A o \in Operations : StoryOf(o)
  BY DEF TimelineTellsTheStory, StoryOf
<1>3. ASSUME NEW o \in Operations, timeline'[o] = timeline[o], operations'[o] = operations[o]
      PROVE  StoryOf(o)'
  BY <1>2, <1>3 DEF StoryOf, StatusEvents, Follows
<1>4. ASSUME NEW r \in Requests, Insert(r)
      PROVE  \A o \in Operations' : StoryOf(o)'
  <2>0. PICK n \in Nat : n = Len(operations) + 1
    BY <1>1 DEF TypeInv, TypeOK
  <2>1. /\ Operations = 1 .. Len(operations) /\ Operations' = 1 .. n /\ Len(operations) \in Nat
        /\ \A o \in Operations : operations'[o] = operations[o] /\ timeline'[o] = timeline[o]
        /\ operations'[n] = NewRow(call[r]) /\ timeline'[n] = <<CreateEvent>>
    BY <1>1, <1>4, <2>0, InsertTypes DEF TypeInv, TypeOK
  <2>2. StoryOf(n)'
    <3>1. /\ CreateEvent.to = "PLANNED" /\ CreateEvent.type = "CREATE"
          /\ NewRow(call[r]).status = "PLANNED"
      BY DEF CreateEvent, NewRow
    <3>2. /\ DOMAIN timeline'[n] = {1} /\ timeline'[n][1] = CreateEvent
          /\ timeline'[n] # << >> /\ StatusEvents(n)' \subseteq {1}
      BY <2>1 DEF StatusEvents
    <3> QED  BY <2>1, <3>1, <3>2 DEF StoryOf, Follows
  <2> QED  BY <1>3, <2>0, <2>1, <2>2
<1>5. ASSUME NEW r \in Requests, Write(r), ~CommitUpdate(r), ~Conflict(r)
      PROVE  \A p \in Operations' : StoryOf(p)'
  <2> DEFINE c == call[r]
  <2>1. /\ pc[r] = "loaded" /\ c.id \in Operations
        /\ c.op = "transition" => c.status \in Statuses /\ c.to \in Statuses
        /\ c.op \in {"update", "delete"} => c.status \in Statuses
    <3>1. pc[r] = "loaded"
      BY <1>5 DEF Write, CommitTransition, CommitDelete, CommitAssign, CommitUnassign
    <3> QED  BY <1>1, <3>1, LoadedCall
  <2>0. PICK o \in Operations : o = c.id
    BY <2>1
  <2>2. ASSUME NEW e \in Event, Tell(o, e), StoryOf(o)', Operations' = Operations,
               \A p \in Operations : p # o => operations'[p] = operations[p]
        PROVE  \A p \in Operations' : StoryOf(p)'
    <3>1. \A p \in Operations : p # o => timeline'[p] = timeline[p]
      BY <1>1, <2>0, <2>1, <2>2, TellFacts
    <3> QED  BY <1>3, <2>2, <3>1
  <2>3. CASE CommitTransition(r)
    <3> DEFINE e == [type |-> "STATUS", from |-> c.status, to |-> c.to]
    <3>1. /\ Tell(o, e) /\ e \in Event
          /\ e.to = c.to /\ e.from = c.status /\ e.type = "STATUS" /\ c.to # NoStatus
      BY <2>0, <2>1, <2>3, StatusFacts DEF CommitTransition, Event
    <3>2. /\ Operations' = Operations
          /\ \A p \in Operations : p # o => operations'[p] = operations[p]
          /\ ~operations[o].deleted
      BY <1>1, <2>3, <2>0, ChangeFacts DEF Changes
    <3>3. operations'[o].status = c.to
      BY <1>1, <2>3, <2>0, ChangeFacts DEF Changes, CommitTransition, CommitUpdate, CommitDelete
    <3>4. c.status = operations[o].status /\ c.to \in AllowedNext[c.status]
      BY <2>3, <2>0, TransitionLeavesNoEnd
    <3> HIDE DEF e, c
    <3>5. timeline'[o] = Append(timeline[o], e)
      BY <1>1, <2>0, <2>1, <3>1, TellFacts
    <3>6. StoryOf(o)'
      BY <1>1, <1>2, <2>0, <2>1, <3>1, <3>2, <3>3, <3>4, <3>5, StatusEvent
    <3> QED  BY <2>2, <3>1, <3>2, <3>6
  <2>4. CASE CommitDelete(r)
    <3> DEFINE e == [type |-> "SOFT_DELETED", from |-> c.status, to |-> NoStatus]
    <3>1. /\ Tell(o, e) /\ e \in Event
          /\ e.to = NoStatus /\ e.from = c.status /\ e.type = "SOFT_DELETED"
      BY <2>0, <2>1, <2>4 DEF CommitDelete, Event
    <3>2. /\ Operations' = Operations
          /\ \A p \in Operations : p # o => operations'[p] = operations[p]
          /\ ~operations[o].deleted
      BY <1>1, <2>4, <2>0, ChangeFacts DEF Changes
    <3>3. operations'[o].status = operations[o].status /\ operations'[o].deleted
      BY <1>1, <2>4, <2>0, ChangeFacts DEF Changes, CommitTransition, CommitUpdate, CommitDelete
    <3>4. c.status = operations[o].status
      <4>1. c.op = "delete" /\ StillCurrent(c)
        BY <2>4 DEF CommitDelete
      <4> QED  BY <2>0, <2>1, <4>1 DEF LoadInv, LoadsAreHonest, HonestLoad, IsChange, StillCurrent
    <3> HIDE DEF e, c
    <3>5. timeline'[o] = Append(timeline[o], e)
      BY <1>1, <2>0, <2>1, <3>1, TellFacts
    <3>6. StoryOf(o)'
      BY <1>1, <1>2, <2>0, <2>1, <3>1, <3>2, <3>3, <3>4, <3>5, SilentEvent
    <3> QED  BY <2>2, <3>1, <3>2, <3>6
  <2>5. CASE CommitAssign(r) \/ CommitUnassign(r)
    <3>1. PICK type \in {"ASSIGN", "UNASSIGN"} :
              Tell(o, [type |-> type, from |-> NoStatus, to |-> NoStatus])
      BY <2>0, <2>5 DEF CommitAssign, CommitUnassign
    <3> DEFINE e == [type |-> type, from |-> NoStatus, to |-> NoStatus]
    <3>2. /\ Tell(o, e) /\ e \in Event /\ e.to = NoStatus /\ e.type \in {"ASSIGN", "UNASSIGN"}
      BY <3>1 DEF Event
    <3>3. operations' = operations /\ Operations' = Operations
      BY <2>5 DEF CommitAssign, CommitUnassign, Operations
    <3> HIDE DEF e, c
    <3>4. timeline'[o] = Append(timeline[o], e)
      BY <1>1, <2>0, <2>1, <3>2, TellFacts
    <3>5. StoryOf(o)'
      BY <1>1, <1>2, <2>0, <2>1, <3>2, <3>3, <3>4, SilentEvent
    <3> QED  BY <2>2, <3>2, <3>3, <3>5
  <2> QED  BY <1>5, <2>3, <2>4, <2>5 DEF Write
<1>6. ASSUME NEW r \in Requests, CommitUpdate(r)
      PROVE  \A o \in Operations' : StoryOf(o)'
  <2>1. /\ timeline' = timeline /\ Operations' = Operations
        /\ \A o \in Operations : /\ operations'[o].status = operations[o].status
                                 /\ operations'[o].deleted <=> operations[o].deleted
    <3>1. timeline' = timeline
      BY <1>6 DEF CommitUpdate
    <3>2. call[r].op = "update" /\ Changes(r)
      BY <1>6 DEF CommitUpdate, Changes
    <3>3. /\ Operations' = Operations
          /\ \A o \in Operations : o # call[r].id => operations'[o] = operations[o]
          /\ operations'[call[r].id].status = operations[call[r].id].status
          /\ ~operations'[call[r].id].deleted /\ ~operations[call[r].id].deleted
      BY <1>1, <3>2, ChangeFacts
    <3> QED  BY <3>1, <3>3
  <2> QED  BY <1>2, <2>1 DEF StoryOf, StatusEvents, Follows
<1>7. ASSUME operations' = operations, timeline' = timeline
      PROVE  \A o \in Operations' : StoryOf(o)'
  BY <1>3, <1>7 DEF Operations
<1>8. ASSUME NEW r \in Requests, Start(r)
      PROVE  operations' = operations /\ timeline' = timeline
  BY <1>8 DEF Start, StartCreate, StartTransition, StartChange, StartAssign, StartUnassign, Accept
<1>9. ASSUME NEW r \in Requests, Create(r)
      PROVE  Insert(r) \/ (operations' = operations /\ timeline' = timeline)
  BY <1>9 DEF Create, CountRows, RefuseDuplicate, RetryNumber, GiveUp
<1>10. ASSUME NEW r \in Requests, Conflict(r) \/ Abort(r)
       PROVE  operations' = operations /\ timeline' = timeline
  BY <1>10 DEF Conflict, Abort
<1>11. UNCHANGED vars => operations' = operations /\ timeline' = timeline
  BY DEF vars
<1>12. \A o \in Operations' : StoryOf(o)'
  BY <1>4, <1>5, <1>6, <1>7, <1>8, <1>9, <1>10, <1>11 DEF Next
<1> QED  BY <1>1, <1>12 DEF TimelineTellsTheStory, StoryOf

\* The timeline of every operation is one legal path to its current status, whoever
\* changed, assigned and deleted it at the same time.
THEOREM TimelineIsTheStory == Spec => []TimelineTellsTheStory
<1>1. Init => StoryInv
  BY InitTypes DEF Init, StoryInv, LoadInv, LoadsAreHonest, TimelineTellsTheStory, Operations
<1>2. StoryInv => TimelineTellsTheStory
  BY DEF StoryInv
<1> QED  BY <1>1, <1>2, StoriesPreserved, PTL DEF Spec

-----------------------------------------------------------------------------
(* Atomicity.  A request writes what it loaded only if nobody wrote since,   *)
(* so the call happens when it writes: every other step is invisible.       *)

Job == [source : Sources \cup {NoKey}, status : Statuses, deleted : BOOLEAN]

\* A request that takes somebody off tells it on the operation he was sent to.
CrewIsNamed ==
    \A r \in Requests :
        pc[r] = "loaded" /\ call[r].op = "unassign" =>
            assignments[call[r].assignment].operation = call[r].id

AtomicInv == KeyInv /\ CrewIsNamed

LEMMA JobsTyped ==
    ASSUME operations \in Seq(Row)
    PROVE  /\ Jobs \in Seq(Job) /\ DOMAIN Jobs = Operations /\ Len(Jobs) = Len(operations)
           /\ \A o \in Operations : /\ Jobs[o].source = operations[o].source
                                    /\ Jobs[o].status = operations[o].status
                                    /\ Jobs[o].deleted = operations[o].deleted
<1>1. Len(operations) \in Nat /\ Operations = 1 .. Len(operations)
  BY DEF Operations
<1>2. \A o \in Operations : operations[o] \in Row
  BY SeqElements DEF Operations
<1>3. Jobs \in [1 .. Len(operations) -> Job]
  BY <1>1, <1>2 DEF Jobs, Job, Row
<1>4. Jobs \in Seq(Job)
  BY <1>1, <1>3, SeqDef
<1> QED  BY <1>1, <1>3, <1>4 DEF Jobs

\* The same one step later, where the lemma cannot be cited.
LEMMA JobsTypedNext ==
    ASSUME operations' \in Seq(Row)
    PROVE  /\ Jobs' \in Seq(Job) /\ DOMAIN Jobs' = Operations' /\ Len(Jobs') = Len(operations')
           /\ \A o \in Operations' : /\ Jobs'[o].source = operations'[o].source
                                     /\ Jobs'[o].status = operations'[o].status
                                     /\ Jobs'[o].deleted = operations'[o].deleted
<1>1. Len(operations') \in Nat /\ Operations' = 1 .. Len(operations')
  BY DEF Operations
<1>2. \A o \in Operations' : operations'[o] \in Row
  <2>1. \A s \in Seq(Row) : \A o \in DOMAIN s : s[o] \in Row
    BY SeqElements
  <2> QED  BY <2>1 DEF Operations
<1>3. Jobs' \in [1 .. Len(operations') -> Job]
  BY <1>1, <1>2 DEF Jobs, Job, Row
<1>4. Jobs' \in Seq(Job)
  BY <1>1, <1>3, SeqDef
<1> QED  BY <1>1, <1>3, <1>4 DEF Jobs

\* To be over is to be in a status that nothing follows.
LEMMA RunningIsActive ==
    ASSUME TypeInv, NEW o \in Operations
    PROVE  Work!Running(o) <=> Active(o)
<1>1. \A s \in Statuses : AllowedNext[s] = {} <=> s \in Terminal
  BY DEF Statuses, AllowedNext, Terminal
<1>2. operations[o].status \in Statuses
  <2>1. operations[o] \in Row
    BY SeqElements DEF TypeInv, TypeOK, Operations
  <2> QED  BY <2>1 DEF Row
<1>3. Jobs[o].status = operations[o].status /\ Jobs[o].deleted = operations[o].deleted
  BY JobsTyped DEF TypeInv, TypeOK
<1> QED  BY <1>1, <1>2, <1>3 DEF Work!Running, Active

LEMMA InsertIsOpen ==
    ASSUME AtomicInv, NEW r \in Requests, Insert(r)
    PROVE  Work!Next
<1> DEFINE n   == Len(operations) + 1
           s   == call[r].key
           job == [source |-> s, status |-> "PLANNED", deleted |-> FALSE]
<1>1. TypeInv /\ KeyHeldWhileActive
  BY DEF AtomicInv, KeyInv, LoadInv
<1>2. /\ TypeInv' /\ Operations = 1 .. Len(operations) /\ Operations' = 1 .. n
      /\ Len(operations') = n /\ Len(operations) \in Nat
      /\ \A o \in Operations : operations'[o] = operations[o]
      /\ operations'[n] = NewRow(call[r])
  BY <1>1, InsertTypes DEF TypeInv, TypeOK
<1>3. s \in Sources \cup {NoKey}
  BY <1>1 DEF Insert, TypeInv, CallsInFlight, CreateCalls
<1>4. \A j \in DOMAIN Jobs : Work!Running(j) /\ Jobs[j].source = s => s = NoKey
  <2> SUFFICES ASSUME NEW j \in Operations, Work!Running(j), Jobs[j].source = s, s # NoKey
               PROVE  FALSE
    BY <1>1, JobsTyped DEF TypeInv, TypeOK
  <2>1. Active(j) /\ operations[j].source = s
    BY <1>1, RunningIsActive, JobsTyped DEF TypeInv, TypeOK
  <2>2. operations[j].dedupeKey = s
    BY <1>1, <2>1 DEF KeyHeldWhileActive
  <2> QED  BY <2>2 DEF Insert, KeyTaken
<1>5. Jobs' = Append(Jobs, job)
  <2>1. /\ Jobs \in Seq(Job) /\ Len(Jobs) = Len(operations) /\ DOMAIN Jobs = Operations
        /\ Jobs' \in Seq(Job) /\ Len(Jobs') = n
    BY <1>1, <1>2, JobsTyped, JobsTypedNext DEF TypeInv, TypeOK
  <2>2. job \in Job
    BY <1>3, StatusFacts DEF Job
  <2>3. /\ Append(Jobs, job) \in Seq(Job) /\ Len(Append(Jobs, job)) = n
        /\ \A i \in 1 .. Len(Jobs) : Append(Jobs, job)[i] = Jobs[i]
        /\ Append(Jobs, job)[n] = job
    BY <2>1, <2>2, AppendProperties
  <2>4. \A i \in 1 .. n : Jobs'[i] = Append(Jobs, job)[i]
    <3>1. \A i \in 1 .. Len(operations) : Jobs'[i] = Jobs[i]
      BY <1>2 DEF Jobs
    <3>2. Jobs'[n] = job
      <4>1. n \in Operations'
        BY <1>2
      <4>2. /\ NewRow(call[r]).source = s /\ NewRow(call[r]).status = "PLANNED"
            /\ NewRow(call[r]).deleted = FALSE
        BY DEF NewRow
      <4> QED  BY <1>2, <4>1, <4>2 DEF Jobs
    <3> QED  BY <1>2, <2>1, <2>3, <3>1, <3>2
  <2> QED  BY <2>1, <2>3, <2>4, SeqEqual
<1>6. UNCHANGED assignments
      /\ timeline' = Append(timeline, <<[type |-> "CREATE", from |-> NoStatus, to |-> "PLANNED"]>>)
  BY DEF Insert, CreateEvent
<1>7. Work!Open(s)
  BY <1>4, <1>5, <1>6 DEF Work!Open
<1> QED  BY <1>3, <1>7 DEF Work!Next
\* A change of one row is a change of one job.
LEMMA ChangedJobs ==
    ASSUME TypeInv, NEW r \in Requests, Changes(r), NEW job \in Job,
           job.source = operations[call[r].id].source,
           job.status = operations'[call[r].id].status,
           job.deleted = operations'[call[r].id].deleted
    PROVE  Jobs' = [Jobs EXCEPT ![call[r].id] = job]
<1>1. PICK o \in Operations : o = call[r].id
  BY ChangeFacts
<1>2. /\ Operations' = Operations
      /\ \A p \in Operations : p # o => operations'[p] = operations[p]
      /\ operations'[o].source = operations[o].source
  BY <1>1, ChangeFacts
<1>3. job = [source |-> operations'[o].source, status |-> operations'[o].status,
             deleted |-> operations'[o].deleted]
  BY <1>1, <1>2 DEF Job
<1> QED  BY <1>1, <1>2, <1>3 DEF Jobs

LEMMA TransitionIsMove ==
    ASSUME AtomicInv, NEW r \in Requests, CommitTransition(r)
    PROVE  Work!Next
<1> DEFINE c == call[r]
<1>1. TypeInv /\ LoadInv /\ Changes(r)
  BY DEF AtomicInv, KeyInv, LoadInv, Changes
<1>2. /\ pc[r] = "loaded" /\ c.op = "transition" /\ UNCHANGED assignments
      /\ Tell(c.id, [type |-> "STATUS", from |-> c.status, to |-> c.to])
  BY DEF CommitTransition
<1>3. PICK o \in Operations : o = c.id
  BY <1>1, ChangeFacts
<1>4. PICK to \in Statuses : to = c.to
  BY <1>1, <1>2, LoadedCall
<1>5. /\ ~operations[o].deleted /\ ~operations'[o].deleted
      /\ operations'[o].status = to
  BY <1>1, <1>2, <1>3, <1>4, ChangeFacts
<1>6. c.status = operations[o].status /\ to \in AllowedNext[c.status]
  BY <1>1, <1>3, <1>4, TransitionLeavesNoEnd
<1>7. /\ DOMAIN Jobs = Operations /\ Jobs[o] \in Job
      /\ Jobs[o].status = c.status /\ ~Jobs[o].deleted
      /\ Jobs[o].source = operations[o].source
  <2>1. operations \in Seq(Row)
    BY <1>1 DEF TypeInv, TypeOK
  <2>2. Jobs \in Seq(Job) /\ DOMAIN Jobs = Operations
    BY <2>1, JobsTyped
  <2> QED  BY <1>5, <1>6, <2>1, <2>2, JobsTyped, SeqElements
<1> DEFINE job == [Jobs[o] EXCEPT !.status = to]
<1>8. /\ job \in Job /\ job.status = to /\ job.deleted = Jobs[o].deleted
      /\ job.source = Jobs[o].source
  BY <1>7 DEF Job
<1>9. operations'[o].deleted = Jobs[o].deleted
  <2>1. operations'[o] \in Row /\ operations[o] \in Row
    BY <1>1, <1>3, TypesPreserved, WriteTypes, ChangeFacts, SeqElements
       DEF TypeInv, TypeOK, Operations, Write, Changes
  <2>2. Jobs[o].deleted = FALSE /\ operations'[o].deleted = FALSE
    BY <1>5, <1>7, <2>1 DEF Row, Job
  <2> QED  BY <2>2
<1> HIDE DEF job
<1>10. Jobs' = [Jobs EXCEPT ![o] = job]
  BY <1>1, <1>3, <1>5, <1>7, <1>8, <1>9, ChangedJobs
<1>11. Jobs' = [Jobs EXCEPT ![o].status = to]
  BY <1>10 DEF job
<1>12. timeline' = [timeline EXCEPT ![o] =
                       Append(@, [type |-> "STATUS", from |-> Jobs[o].status, to |-> to])]
  BY <1>2, <1>3, <1>4, <1>7 DEF Tell
<1>13. Work!Move(o, to)
  BY <1>2, <1>6, <1>7, <1>11, <1>12 DEF Work!Move, Work!Tell
<1> QED  BY <1>7, <1>13 DEF Work!Next, Statuses

LEMMA DeletionIsDelete ==
    ASSUME AtomicInv, NEW r \in Requests, CommitDelete(r)
    PROVE  Work!Next
<1> DEFINE c == call[r]
<1>1. TypeInv /\ LoadInv /\ Changes(r)
  BY DEF AtomicInv, KeyInv, LoadInv, Changes
<1>2. /\ pc[r] = "loaded" /\ c.op = "delete" /\ UNCHANGED assignments /\ StillCurrent(c)
      /\ Tell(c.id, [type |-> "SOFT_DELETED", from |-> c.status, to |-> NoStatus])
  BY DEF CommitDelete
<1>3. PICK o \in Operations : o = c.id
  BY <1>1, ChangeFacts
<1>4. /\ ~operations[o].deleted /\ operations'[o].deleted
      /\ operations'[o].status = operations[o].status
  BY <1>1, <1>2, <1>3, ChangeFacts
<1>5. c.status = operations[o].status
  BY <1>1, <1>2, <1>3 DEF LoadInv, LoadsAreHonest, HonestLoad, IsChange, StillCurrent
<1>6. /\ DOMAIN Jobs = Operations /\ Jobs[o] \in Job
      /\ Jobs[o].status = c.status /\ ~Jobs[o].deleted
      /\ Jobs[o].source = operations[o].source
  <2>1. operations \in Seq(Row)
    BY <1>1 DEF TypeInv, TypeOK
  <2>2. Jobs \in Seq(Job) /\ DOMAIN Jobs = Operations
    BY <2>1, JobsTyped
  <2> QED  BY <1>4, <1>5, <2>1, <2>2, JobsTyped, SeqElements
<1> DEFINE job == [Jobs[o] EXCEPT !.deleted = TRUE]
<1>7. /\ job \in Job /\ job.deleted = TRUE /\ job.status = Jobs[o].status
      /\ job.source = Jobs[o].source
  BY <1>6 DEF Job
<1>8. operations'[o].deleted = TRUE
  <2>1. operations'[o] \in Row
    BY <1>1, <1>3, WriteTypes, ChangeFacts, SeqElements
       DEF TypeInv, TypeOK, Operations, Write, Changes
  <2> QED  BY <1>4, <2>1 DEF Row
<1> HIDE DEF job
<1>9. Jobs' = [Jobs EXCEPT ![o] = job]
  <2>1. /\ job \in Job /\ job.source = operations[o].source
        /\ job.status = operations'[o].status /\ job.deleted = operations'[o].deleted
    BY <1>4, <1>5, <1>6, <1>7, <1>8
  <2> QED  BY <1>1, <1>3, <2>1, ChangedJobs
<1>10. Jobs' = [Jobs EXCEPT ![o].deleted = TRUE]
  BY <1>9 DEF job
<1>11. timeline' = [timeline EXCEPT ![o] =
                       Append(@, [type |-> "SOFT_DELETED", from |-> Jobs[o].status, to |-> NoStatus])]
  BY <1>2, <1>3, <1>6 DEF Tell
<1>12. Work!Delete(o)
  BY <1>2, <1>6, <1>10, <1>11 DEF Work!Delete, Work!Tell
<1> QED  BY <1>6, <1>12 DEF Work!Next

LEMMA UpdateIsSilent ==
    ASSUME AtomicInv, NEW r \in Requests, CommitUpdate(r)
    PROVE  UNCHANGED <<Jobs, timeline, assignments>>
<1>1. TypeInv /\ Changes(r)
  BY DEF AtomicInv, KeyInv, LoadInv, Changes
<1>2. UNCHANGED <<timeline, assignments>> /\ call[r].op = "update"
  BY DEF CommitUpdate
<1>3. PICK o \in Operations : o = call[r].id
  BY <1>1, ChangeFacts
<1>4. /\ Operations' = Operations
      /\ \A p \in Operations : p # o => operations'[p] = operations[p]
      /\ operations'[o].source = operations[o].source
      /\ operations'[o].status = operations[o].status
      /\ ~operations[o].deleted /\ ~operations'[o].deleted
  BY <1>1, <1>2, <1>3, ChangeFacts
<1>5. operations'[o].deleted = operations[o].deleted
  <2>1. operations'[o] \in Row /\ operations[o] \in Row
    BY <1>1, <1>4, WriteTypes, SeqElements DEF TypeInv, TypeOK, Operations, Write, Changes
  <2> QED  BY <1>4, <2>1 DEF Row
<1>6. Jobs' = Jobs
  BY <1>4, <1>5 DEF Jobs
<1> QED  BY <1>2, <1>6

LEMMA CrewChangesAreCrewSteps ==
    ASSUME AtomicInv, NEW r \in Requests, CommitAssign(r) \/ CommitUnassign(r)
    PROVE  Work!Next
<1> DEFINE c == call[r]
<1>1. TypeInv /\ pc[r] = "loaded" /\ UNCHANGED operations
  BY DEF AtomicInv, KeyInv, LoadInv, CommitAssign, CommitUnassign
<1>2. UNCHANGED Jobs /\ DOMAIN Jobs = Operations
  BY <1>1, JobsTyped DEF Jobs, Operations, TypeInv, TypeOK
<1>3. CASE CommitAssign(r)
  <2>1. PICK o \in Operations : o = c.id
    BY <1>1, LoadedCall
  <2>2. Work!Assign(o)
    BY <1>2, <1>3, <2>1 DEF CommitAssign, Tell, Work!Assign, Work!Tell
  <2> QED  BY <1>2, <2>2 DEF Work!Next
<1>4. CASE CommitUnassign(r)
  <2>1. PICK a \in DOMAIN assignments : a = c.assignment
    BY <1>1, <1>4, LoadedCall DEF CommitUnassign
  <2>2. assignments[a].operation = c.id
    BY <1>1, <1>4, <2>1 DEF AtomicInv, CrewIsNamed, CommitUnassign
  <2>3. Work!Unassign(a)
    BY <1>2, <1>4, <2>1, <2>2 DEF CommitUnassign, Tell, Work!Unassign, Work!Tell
  <2> QED  BY <2>3 DEF Work!Next
<1> QED  BY <1>3, <1>4
\* Whoever was sent somewhere stays listed there.
LEMMA AssignmentsOnlyGrow ==
    ASSUME TypeInv, [Next]_vars, NEW a \in DOMAIN assignments
    PROVE  a \in DOMAIN assignments' /\ assignments'[a].operation = assignments[a].operation
<1> DEFINE Entry == [operation : Nat, open : BOOLEAN]
<1>1. /\ assignments \in Seq(Entry) /\ DOMAIN assignments = 1 .. Len(assignments)
      /\ Len(assignments) \in Nat /\ assignments[a] \in Entry
  BY SeqElements DEF TypeInv, TypeOK
<1>2. CASE \E r \in Requests : CommitAssign(r)
  <2>1. PICK r \in Requests : CommitAssign(r)
    BY <1>2
  <2>2. call[r].id \in Nat
    BY <2>1, LoadedCall DEF CommitAssign, TypeInv, TypeOK, Operations
  <2> DEFINE entry == [operation |-> call[r].id, open |-> TRUE]
  <2>3. entry \in Entry /\ assignments' = Append(assignments, entry)
    BY <2>1, <2>2 DEF CommitAssign
  <2> HIDE DEF entry, Entry
  <2>4. /\ DOMAIN assignments' = 1 .. Len(assignments) + 1
        /\ \A i \in 1 .. Len(assignments) : assignments'[i] = assignments[i]
    BY <1>1, <2>3, AppendProperties
  <2> QED  BY <1>1, <2>4
<1>3. CASE \E r \in Requests : CommitUnassign(r)
  <2>1. PICK r \in Requests : CommitUnassign(r)
    BY <1>3
  <2>2. assignments' = [assignments EXCEPT ![call[r].assignment].open = FALSE]
    BY <2>1 DEF CommitUnassign
  <2> QED  BY <1>1, <2>2
<1>4. CASE UNCHANGED assignments
  BY <1>4
<1>5. \/ \E r \in Requests : CommitAssign(r) \/ CommitUnassign(r)
      \/ UNCHANGED assignments
  <2>1. ASSUME NEW r \in Requests, Start(r)
        PROVE  UNCHANGED assignments
    BY <2>1 DEF Start, StartCreate, StartTransition, StartChange, StartAssign, StartUnassign, Accept
  <2>2. ASSUME NEW r \in Requests, Create(r)
        PROVE  UNCHANGED assignments
    BY <2>2 DEF Create, CountRows, Insert, RefuseDuplicate, RetryNumber, GiveUp
  <2>3. ASSUME NEW r \in Requests, Write(r)
        PROVE  CommitAssign(r) \/ CommitUnassign(r) \/ UNCHANGED assignments
    BY <2>3 DEF Write, CommitTransition, CommitUpdate, CommitDelete, Conflict
  <2> QED  BY <2>1, <2>2, <2>3 DEF Next, Abort, vars
<1> QED  BY <1>2, <1>3, <1>4, <1>5

LEMMA CrewsPreserved == TypeInv /\ CrewIsNamed /\ [Next]_vars => CrewIsNamed'
<1> SUFFICES ASSUME TypeInv, CrewIsNamed, [Next]_vars, NEW q \in Requests,
                    pc'[q] = "loaded", call'[q].op = "unassign"
             PROVE  assignments'[call'[q].assignment].operation = call'[q].id
  BY DEF CrewIsNamed
<1>1. CASE pc[q] = "loaded" /\ call'[q] = call[q]
  <2>1. call[q].assignment \in DOMAIN assignments
    BY <1>1, LoadedCall
  <2> QED  BY <1>1, <2>1, AssignmentsOnlyGrow DEF CrewIsNamed
<1>2. ASSUME NEW r \in Requests, Start(r), ~(pc[q] = "loaded" /\ call'[q] = call[q])
      PROVE  assignments'[call'[q].assignment].operation = call'[q].id
  <2>1. ASSUME NEW place, NEW c, Accept(r, place, c)
        PROVE  /\ UNCHANGED assignments /\ q = r /\ call'[q] = c /\ pc'[q] = place
    BY <1>2, <2>1 DEF Accept, TypeInv, TypeOK
  <2>2. ASSUME NEW k \in Sources \cup {NoKey}, StartCreate(r, k)
        PROVE  FALSE
    BY <2>1, <2>2 DEF StartCreate
  <2>3. ASSUME NEW o \in Operations, NEW to \in Statuses, StartTransition(r, o, to)
        PROVE  FALSE
    BY <2>1, <2>3 DEF StartTransition
  <2>4. ASSUME NEW o \in Operations, NEW op \in {"update", "delete"}, StartChange(r, o, op)
        PROVE  FALSE
    BY <2>1, <2>4 DEF StartChange
  <2>5. ASSUME NEW o \in Operations, StartAssign(r, o)
        PROVE  FALSE
    BY <2>1, <2>5 DEF StartAssign
  <2>6. PICK a \in DOMAIN assignments : StartUnassign(r, a)
    BY <1>2, <2>2, <2>3, <2>4, <2>5 DEF Start
  <2>7. Accept(r, "loaded", [op |-> "unassign", id |-> assignments[a].operation, assignment |-> a])
    BY <2>6 DEF StartUnassign
  <2> QED  BY <2>1, <2>7
<1>3. ASSUME NEW r \in Requests, Create(r) \/ Write(r) \/ Abort(r)
      PROVE  pc[q] = "loaded" /\ call'[q] = call[q]
  BY <1>3 DEF Create, CountRows, Insert, RefuseDuplicate, RetryNumber, GiveUp, Write,
              CommitTransition, CommitUpdate, CommitDelete, Conflict, CommitAssign,
              CommitUnassign, Abort, Finish, TypeInv, TypeOK
<1>4. UNCHANGED vars => pc[q] = "loaded" /\ call'[q] = call[q]
  BY DEF vars
<1> QED  BY <1>1, <1>2, <1>3, <1>4 DEF Next

LEMMA AtomicPreserved == AtomicInv /\ [Next]_vars => AtomicInv' /\ [Work!Next]_(Work!vars)
<1> SUFFICES ASSUME AtomicInv, [Next]_vars
             PROVE  AtomicInv' /\ [Work!Next]_(Work!vars)
  OBVIOUS
<1>1. AtomicInv'
  BY KeysPreserved, CrewsPreserved DEF AtomicInv, KeyInv, LoadInv
<1>2. ASSUME UNCHANGED <<operations, timeline, assignments>>
      PROVE  UNCHANGED <<Jobs, timeline, assignments>>
  BY <1>2 DEF Jobs, Operations
<1>3. ASSUME NEW r \in Requests, Start(r)
      PROVE  UNCHANGED <<operations, timeline, assignments>>
  BY <1>3 DEF Start, StartCreate, StartTransition, StartChange, StartAssign, StartUnassign, Accept
<1>4. ASSUME NEW r \in Requests, Create(r)
      PROVE  Work!Next \/ UNCHANGED <<operations, timeline, assignments>>
  BY <1>4, InsertIsOpen DEF Create, CountRows, RefuseDuplicate, RetryNumber, GiveUp
<1>5. ASSUME NEW r \in Requests, Write(r)
      PROVE  Work!Next \/ UNCHANGED <<Jobs, timeline, assignments>>
  <2>1. CASE Conflict(r)
    BY <1>2, <2>1 DEF Conflict
  <2> QED  BY <1>5, <2>1, TransitionIsMove, DeletionIsDelete, UpdateIsSilent,
              CrewChangesAreCrewSteps DEF Write
<1>6. ASSUME NEW r \in Requests, Abort(r)
      PROVE  UNCHANGED <<operations, timeline, assignments>>
  BY <1>6 DEF Abort
<1>7. Work!Next \/ UNCHANGED <<Jobs, timeline, assignments>>
  <2>1. UNCHANGED vars => UNCHANGED <<operations, timeline, assignments>>
    BY DEF vars
  <2> QED  BY <1>2, <1>3, <1>4, <1>5, <1>6, <2>1 DEF Next
<1> QED  BY <1>1, <1>7 DEF Work!vars

\* However many requests load, check and write at once, and whichever of them die, the
\* tables change as if every call were carried out at one moment, on the job as it is
\* at that moment, with its story told in the same breath.
THEOREM CallsAreAtomic == Spec => HandlersAreAtomic
<1>1. Init => AtomicInv /\ Work!Init
  <2>1. Init => KeyInv /\ CrewIsNamed
    BY InitTypes DEF Init, KeyInv, LoadInv, LoadsAreHonest, KeyHeldWhileActive,
                     KeysAreUnique, CrewIsNamed, Operations
  <2>2. Init => Work!Init
    <3>1. Init => Operations = {}
      BY DEF Init, Operations
    <3>2. ASSUME Init
          PROVE  Jobs = << >>
      BY <3>1, <3>2 DEF Jobs
    <3> QED  BY <3>2 DEF Init, Work!Init
  <2> QED  BY <2>1, <2>2 DEF AtomicInv
<1> QED  BY <1>1, AtomicPreserved, PTL DEF Spec, HandlersAreAtomic, Work!Spec
=============================================================================
