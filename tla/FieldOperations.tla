--------------------------- MODULE FieldOperations ---------------------------
(***************************************************************************)
(* Field operations: creating one (duplicate guard, operation number),     *)
(* moving it through its statuses, editing, assigning people, deleting it  *)
(* softly, and the append-only timeline that tells all of it.              *)
(*                                                                         *)
(* Every handler first loads the operation and checks it, then writes in a *)
(* transaction.  Status changes, edits and deletions compare the version   *)
(* they loaded with the one they overwrite; assignments do not.  A         *)
(* transaction writes one row of a table and its timeline event under that *)
(* row's lock, so it is one step.                                          *)
(*                                                                         *)
(* Primary keys are uuids; here a row's key is its position in its table.  *)
(* The semantic type of a status event (ON_THE_WAY, STARTED, ...) follows  *)
(* from the status it leads to and is left out, as are the fields that     *)
(* PATCH edits.  A call whose expectedVersion is not the loaded version is *)
(* refused before anything happens, so only the others are steps.          *)
(***************************************************************************)
EXTENDS Integers, Sequences, FiniteSets

CONSTANTS
    Requests,             \* the requests the API can be serving at one moment
    Sources,              \* dedupe keys: a source record with a type of work
    NoKey,                \* the NULL dedupe key
    MAX_CREATE_ATTEMPTS,
    MaxOperations,        \* bound on the rows of field_operations
    MaxVersion,           \* bound on FieldOperation.version
    MaxEvents             \* bound on the events that an assignment may follow

ASSUME KeysAssumption == NoKey \notin Sources
ASSUME AttemptsAssumption == MAX_CREATE_ATTEMPTS \in Nat \ {0}

VARIABLES
    operations,    \* field_operations, in the order of insertion
    timeline,      \* the events of each operation, in the order of commits
    assignments,   \* field_operation_assignments
    pc,            \* where each request stands
    call           \* the call each request is serving and what it has read

vars == <<operations, timeline, assignments, pc, call>>

-----------------------------------------------------------------------------
(* Statuses                                                                 *)

AllowedNext ==
    [PLANNED                   |-> {"ASSIGNED", "RESCHEDULED", "CANCELLED"},
     ASSIGNED                  |-> {"PREPARING", "ON_THE_WAY", "RESCHEDULED", "CANCELLED"},
     PREPARING                 |-> {"READY", "ON_THE_WAY", "BLOCKED", "RESCHEDULED", "CANCELLED"},
     READY                     |-> {"ON_THE_WAY", "RESCHEDULED", "CANCELLED"},
     ON_THE_WAY                |-> {"ARRIVED", "BLOCKED", "RESCHEDULED", "CANCELLED"},
     ARRIVED                   |-> {"IN_PROGRESS", "BLOCKED", "WAITING", "RESCHEDULED"},
     IN_PROGRESS               |-> {"BLOCKED", "WAITING", "PARTIAL_COMPLETED", "COMPLETED"},
     BLOCKED                   |-> {"IN_PROGRESS", "WAITING", "RESCHEDULED", "CANCELLED"},
     WAITING                   |-> {"IN_PROGRESS", "BLOCKED", "RESCHEDULED", "CANCELLED"},
     PARTIAL_COMPLETED         |-> {"IN_PROGRESS", "COMPLETED", "CUSTOMER_APPROVAL_PENDING", "CLOSED"},
     COMPLETED                 |-> {"CUSTOMER_APPROVAL_PENDING", "CLOSED"},
     CUSTOMER_APPROVAL_PENDING |-> {"CLOSED", "IN_PROGRESS"},
     CLOSED                    |-> {},
     CANCELLED                 |-> {},
     RESCHEDULED               |-> {"PLANNED", "ASSIGNED", "CANCELLED"}]

Statuses == DOMAIN AllowedNext
NoStatus == "NONE"

Terminal == {"CLOSED", "CANCELLED"}

-----------------------------------------------------------------------------
(* Rows and events                                                          *)

Row == [source    : Sources \cup {NoKey},
        dedupeKey : Sources \cup {NoKey},
        number    : Nat,
        status    : Statuses,
        version   : Nat,
        deleted   : BOOLEAN]

Event == [type : {"CREATE", "STATUS", "ASSIGN", "UNASSIGN", "SOFT_DELETED"},
          from : Statuses \cup {NoStatus},
          to   : Statuses \cup {NoStatus}]

Operations == DOMAIN operations

Active(o) == ~operations[o].deleted /\ operations[o].status \notin Terminal

\* The unique index on dedupeKey (NULLs never collide).
KeyTaken(k) == k # NoKey /\ \E o \in Operations : operations[o].dedupeKey = k

\* The unique index on operationNumber.
NumberTaken(n) == \E o \in Operations : operations[o].number = n

\* Fault: deleted rows are not counted, though their numbers stay taken.
NumberAfterLive(attempt) ==
    Cardinality({o \in Operations : ~operations[o].deleted}) + 1 + attempt

\* generateOperationNumber: soft-deleted rows are counted too.
NextNumber(attempt) == Len(operations) + 1 + attempt

\* Fault: putting the work off frees the source, although it is not over.
KeyFreedByRescheduling(to, key) == IF to \in Terminal \cup {"RESCHEDULED"} THEN NoKey ELSE key

\* Fault: only closing frees the source.
KeyKeptByCancellation(to, key) == IF to = "CLOSED" THEN NoKey ELSE key

KeyAfter(to, key) == IF to \in Terminal THEN NoKey ELSE key

-----------------------------------------------------------------------------
(* Calls                                                                    *)

\* rowsAtStart is not in the code: it remembers how many rows there were when the
\* call started.
CreateCalls == [op : {"create"}, key : Sources \cup {NoKey},
                attempt : Nat, number : Nat, rowsAtStart : Nat]
ChangeCalls == [op : {"transition"}, id : Nat, version : Nat, status : Statuses, to : Statuses]
                 \cup [op : {"update", "delete"}, id : Nat, version : Nat, status : Statuses]
AssignmentCalls == [op : {"assign"}, id : Nat]
                     \cup [op : {"unassign"}, id : Nat, assignment : Nat]
Calls == CreateCalls \cup ChangeCalls \cup AssignmentCalls
NoCall == [op |-> "none"]

Init ==
    /\ operations = << >>
    /\ timeline = << >>
    /\ assignments = << >>
    /\ pc = [r \in Requests |-> "idle"]
    /\ call = [r \in Requests |-> NoCall]

Accept(r, place, c) ==
    /\ pc[r] = "idle"
    /\ pc' = [pc EXCEPT ![r] = place]
    /\ call' = [call EXCEPT ![r] = c]
    /\ UNCHANGED <<operations, timeline, assignments>>

Finish(r) ==
    /\ pc' = [pc EXCEPT ![r] = "idle"]
    /\ call' = [call EXCEPT ![r] = NoCall]

-----------------------------------------------------------------------------
(* Creating                                                                 *)

StartCreate(r, k) ==
    /\ Len(operations) < MaxOperations
    /\ ~KeyTaken(k)
    /\ Accept(r, "counting", [op |-> "create", key |-> k, attempt |-> 0, number |-> 0,
                              rowsAtStart |-> Len(operations)])

CountRows(r) ==
    /\ pc[r] = "counting"
    /\ pc' = [pc EXCEPT ![r] = "inserting"]
    /\ call' = [call EXCEPT ![r].number = NextNumber(call[r].attempt)]
    /\ UNCHANGED <<operations, timeline, assignments>>

NewRow(c) == [source |-> c.key, dedupeKey |-> c.key, number |-> c.number,
              status |-> "PLANNED", version |-> 1, deleted |-> FALSE]

CreateEvent == [type |-> "CREATE", from |-> NoStatus, to |-> "PLANNED"]

\* Fault: the timeline event of the creation is forgotten.
InsertUntold(r) ==
    /\ pc[r] = "inserting"
    /\ Len(operations) < MaxOperations
    /\ ~KeyTaken(call[r].key)
    /\ ~NumberTaken(call[r].number)
    /\ operations' = Append(operations, NewRow(call[r]))
    /\ Finish(r)
    /\ UNCHANGED <<timeline, assignments>>

Insert(r) ==
    /\ pc[r] = "inserting"
    /\ Len(operations) < MaxOperations
    /\ ~KeyTaken(call[r].key)
    /\ ~NumberTaken(call[r].number)
    /\ operations' = Append(operations, NewRow(call[r]))
    /\ timeline' = Append(timeline, <<CreateEvent>>)
    /\ Finish(r)
    /\ UNCHANGED assignments

RefuseDuplicate(r) ==
    /\ pc[r] = "inserting"
    /\ KeyTaken(call[r].key)
    /\ Finish(r)
    /\ UNCHANGED <<operations, timeline, assignments>>

\* The number is taken.  (When the key is taken too, either violation may be the
\* one PostgreSQL reports.)
RetryNumber(r) ==
    LET attempt == call[r].attempt + 1
    IN
    /\ pc[r] = "inserting"
    /\ NumberTaken(call[r].number)
    /\ pc' = [pc EXCEPT ![r] = IF attempt < MAX_CREATE_ATTEMPTS THEN "counting" ELSE "exhausted"]
    /\ call' = [call EXCEPT ![r].attempt = attempt]
    /\ UNCHANGED <<operations, timeline, assignments>>

\* 500 "operationNumber uretilemedi".
GiveUp(r) ==
    /\ pc[r] = "exhausted"
    /\ Finish(r)
    /\ UNCHANGED <<operations, timeline, assignments>>

-----------------------------------------------------------------------------
(* Loading an operation that is not deleted, and checking the call on it    *)

Present(o) == o \in Operations /\ ~operations[o].deleted

StartTransition(r, o, to) ==
    /\ Present(o)
    /\ to \in AllowedNext[operations[o].status]
    /\ operations[o].version < MaxVersion
    /\ Accept(r, "loaded", [op |-> "transition", id |-> o, version |-> operations[o].version,
                            status |-> operations[o].status, to |-> to])

StartChange(r, o, op) ==
    /\ Present(o)
    /\ operations[o].version < MaxVersion
    /\ Accept(r, "loaded", [op |-> op, id |-> o, version |-> operations[o].version,
                            status |-> operations[o].status])

StartAssign(r, o) ==
    /\ Present(o)
    /\ Len(timeline[o]) < MaxEvents
    /\ Accept(r, "loaded", [op |-> "assign", id |-> o])

StartUnassign(r, a) ==
    LET o == assignments[a].operation
    IN
    /\ Present(o)
    /\ Len(timeline[o]) < MaxEvents
    /\ Accept(r, "loaded", [op |-> "unassign", id |-> o, assignment |-> a])

-----------------------------------------------------------------------------
(* Writing                                                                  *)

\* Fault: the write is not conditional on the version.
StillPresent(c) == ~operations[c.id].deleted

\* updateMany ... where version = the loaded one and deletedAt is null.
StillCurrent(c) ==
    /\ operations[c.id].version = c.version
    /\ ~operations[c.id].deleted

Replace(o, row) == operations' = [operations EXCEPT ![o] = row]

Tell(o, event) == timeline' = [timeline EXCEPT ![o] = Append(@, event)]

CommitTransition(r) ==
    LET c == call[r]
    IN
    /\ pc[r] = "loaded" /\ c.op = "transition"
    /\ StillCurrent(c)
    /\ Replace(c.id, [operations[c.id] EXCEPT !.status = c.to, !.version = @ + 1,
                                              !.dedupeKey = KeyAfter(c.to, @)])
    /\ Tell(c.id, [type |-> "STATUS", from |-> c.status, to |-> c.to])
    /\ Finish(r)
    /\ UNCHANGED assignments

CommitUpdate(r) ==
    LET c == call[r]
    IN
    /\ pc[r] = "loaded" /\ c.op = "update"
    /\ StillCurrent(c)
    /\ Replace(c.id, [operations[c.id] EXCEPT !.version = @ + 1])
    /\ Finish(r)
    /\ UNCHANGED <<timeline, assignments>>

CommitDelete(r) ==
    LET c == call[r]
    IN
    /\ pc[r] = "loaded" /\ c.op = "delete"
    /\ StillCurrent(c)
    /\ Replace(c.id, [operations[c.id] EXCEPT !.deleted = TRUE, !.dedupeKey = NoKey,
                                              !.version = @ + 1])
    /\ Tell(c.id, [type |-> "SOFT_DELETED", from |-> c.status, to |-> NoStatus])
    /\ Finish(r)
    /\ UNCHANGED assignments

\* 409: somebody else changed or deleted the operation since it was loaded.
Conflict(r) ==
    /\ pc[r] = "loaded" /\ call[r].op \in {"transition", "update", "delete"}
    /\ ~StillCurrent(call[r])
    /\ Finish(r)
    /\ UNCHANGED <<operations, timeline, assignments>>

CommitAssign(r) ==
    LET c == call[r]
    IN
    /\ pc[r] = "loaded" /\ c.op = "assign"
    /\ assignments' = Append(assignments, [operation |-> c.id, open |-> TRUE])
    /\ Tell(c.id, [type |-> "ASSIGN", from |-> NoStatus, to |-> NoStatus])
    /\ Finish(r)
    /\ UNCHANGED operations

CommitUnassign(r) ==
    LET c == call[r]
    IN
    /\ pc[r] = "loaded" /\ c.op = "unassign"
    /\ assignments' = [assignments EXCEPT ![c.assignment].open = FALSE]
    /\ Tell(c.id, [type |-> "UNASSIGN", from |-> NoStatus, to |-> NoStatus])
    /\ Finish(r)
    /\ UNCHANGED operations

\* The request dies before it commits: nothing it did remains.
Abort(r) ==
    /\ pc[r] # "idle"
    /\ Finish(r)
    /\ UNCHANGED <<operations, timeline, assignments>>

-----------------------------------------------------------------------------
Start(r) ==
    \/ \E k \in Sources \cup {NoKey} : StartCreate(r, k)
    \/ \E o \in Operations, to \in Statuses : StartTransition(r, o, to)
    \/ \E o \in Operations, op \in {"update", "delete"} : StartChange(r, o, op)
    \/ \E o \in Operations : StartAssign(r, o)
    \/ \E a \in DOMAIN assignments : StartUnassign(r, a)

Create(r) == CountRows(r) \/ Insert(r) \/ RefuseDuplicate(r) \/ RetryNumber(r) \/ GiveUp(r)

Write(r) ==
    \/ CommitTransition(r) \/ CommitUpdate(r) \/ CommitDelete(r) \/ Conflict(r)
    \/ CommitAssign(r) \/ CommitUnassign(r)

Next == \E r \in Requests : Start(r) \/ Create(r) \/ Write(r) \/ Abort(r)

Spec == Init /\ [][Next]_vars

-----------------------------------------------------------------------------
(* Properties                                                               *)

TypeOK ==
    /\ operations \in Seq(Row)
    /\ timeline \in Seq(Seq(Event))
    /\ Len(timeline) = Len(operations)
    /\ assignments \in Seq([operation : Nat, open : BOOLEAN])
    /\ pc \in [Requests -> {"idle", "counting", "inserting", "exhausted", "loaded"}]
    /\ call \in [Requests -> Calls \cup {NoCall}]

\* fieldOperationDedupe: a source never has two active operations of one type, even
\* when two creations, or a creation and the end of the earlier operation, race.
OneActivePerSource ==
    \A o1, o2 \in Operations :
        o1 # o2 /\ Active(o1) /\ Active(o2) =>
            operations[o1].source # operations[o2].source \/ operations[o1].source = NoKey

\* An operation holds the key of its source exactly as long as it is active: a source
\* is neither unguarded while somebody works on it nor blocked by finished work.
KeyHeldWhileActive ==
    \A o \in Operations :
        operations[o].dedupeKey = IF Active(o) THEN operations[o].source ELSE NoKey

StatusEvents(o) == {i \in DOMAIN timeline[o] : timeline[o][i].to # NoStatus}

\* Status event j is the one that comes right after status event i.
Follows(o, i, j) ==
    /\ i < j
    /\ \A k \in StatusEvents(o) : k <= i \/ j <= k

\* The timeline tells what happened, whoever wrote at the same time: its status events
\* form one legal path from PLANNED to the current status, and a deletion, told once,
\* ends it.
TimelineTellsTheStory ==
    \A o \in Operations :
        /\ timeline[o] # << >> /\ timeline[o][1] = CreateEvent
        /\ \A i, j \in StatusEvents(o) :
               Follows(o, i, j) =>
                   /\ timeline[o][j].from = timeline[o][i].to
                   /\ timeline[o][j].to \in AllowedNext[timeline[o][i].to]
        /\ \A i \in StatusEvents(o) :
               (\A k \in StatusEvents(o) : k <= i) => timeline[o][i].to = operations[o].status
        /\ \A i \in DOMAIN timeline[o] :
               timeline[o][i].type = "SOFT_DELETED" =>
                   /\ operations[o].deleted
                   /\ timeline[o][i].from = operations[o].status
                   /\ \A k \in i + 1 .. Len(timeline[o]) :
                          timeline[o][k].type \in {"ASSIGN", "UNASSIGN"}

\* Nothing that was loaded earlier brings a closed or cancelled operation back, and a
\* deleted one never changes again.
EndedStaysEnded ==
    \A o \in Operations :
        /\ operations[o].status \in Terminal => operations'[o].status = operations[o].status
        /\ operations[o].deleted => operations'[o] = operations[o]

EndIsFinal == [][EndedStaysEnded]_vars

\* Numbers are handed out with gaps and creations race for them, yet one that has the
\* table to itself always finds a free number within its attempts: 500 means that
\* somebody else created an operation meanwhile.
ExhaustedOnlyWhenRaced ==
    \A r \in Requests : pc[r] = "exhausted" => Len(operations) > call[r].rowsAtStart

-----------------------------------------------------------------------------
(* The abstract jobs these requests implement, however they overlap.        *)

\* Versions, numbers and dedupe keys are the means and stay hidden.
Jobs == [o \in Operations |-> [source  |-> operations[o].source,
                               status  |-> operations[o].status,
                               deleted |-> operations[o].deleted]]

Work == INSTANCE FieldWork
            WITH None <- NoKey, Path <- AllowedNext, First <- "PLANNED",
                 jobs <- Jobs, story <- timeline, crew <- assignments

\* A handler loads and checks an operation in one step and writes it in another, while
\* others write.  To the outside each call still happens at one moment: what is written
\* was allowed on the row it replaces, and the timeline tells it as it was.
HandlersAreAtomic == Work!Spec
=============================================================================
