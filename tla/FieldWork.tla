----------------------------- MODULE FieldWork -----------------------------
(***************************************************************************)
(* What field operations promise, without requests, versions, numbers and  *)
(* dedupe keys: jobs that are opened, moved along the allowed path, staffed *)
(* and deleted, each at one moment and as the job is at that moment, with  *)
(* a story that is told in the same breath.                                *)
(***************************************************************************)
EXTENDS Integers, Sequences

CONSTANTS
    Sources,  \* what asks for work
    None,     \* no source
    Path,     \* the statuses that may follow each status
    First,    \* the status of a new job
    NoStatus  \* no status

VARIABLES
    jobs,     \* source, status and deletion of each job, in the order of opening
    story,    \* what was told of each job
    crew      \* who was sent where

vars == <<jobs, story, crew>>

Running(j) == ~jobs[j].deleted /\ Path[jobs[j].status] # {}

Init == jobs = << >> /\ story = << >> /\ crew = << >>

Tell(j, type, from, to) ==
    story' = [story EXCEPT ![j] = Append(@, [type |-> type, from |-> from, to |-> to])]

\* A source gets no second job while it has one.
Open(s) ==
    /\ \A j \in DOMAIN jobs : Running(j) /\ jobs[j].source = s => s = None
    /\ jobs' = Append(jobs, [source |-> s, status |-> First, deleted |-> FALSE])
    /\ story' = Append(story, <<[type |-> "CREATE", from |-> NoStatus, to |-> First]>>)
    /\ UNCHANGED crew

Move(j, to) ==
    /\ ~jobs[j].deleted /\ to \in Path[jobs[j].status]
    /\ jobs' = [jobs EXCEPT ![j].status = to]
    /\ Tell(j, "STATUS", jobs[j].status, to)
    /\ UNCHANGED crew

Delete(j) ==
    /\ ~jobs[j].deleted
    /\ jobs' = [jobs EXCEPT ![j].deleted = TRUE]
    /\ Tell(j, "SOFT_DELETED", jobs[j].status, NoStatus)
    /\ UNCHANGED crew

\* People may be sent to a job, and called back, after it was deleted.
Assign(j) ==
    /\ crew' = Append(crew, [operation |-> j, open |-> TRUE])
    /\ Tell(j, "ASSIGN", NoStatus, NoStatus)
    /\ UNCHANGED jobs

Unassign(a) ==
    /\ crew' = [crew EXCEPT ![a].open = FALSE]
    /\ Tell(crew[a].operation, "UNASSIGN", NoStatus, NoStatus)
    /\ UNCHANGED jobs

Next ==
    \/ \E s \in Sources \cup {None} : Open(s)
    \/ \E j \in DOMAIN jobs : \/ \E to \in DOMAIN Path : Move(j, to)
                              \/ Delete(j) \/ Assign(j)
    \/ \E a \in DOMAIN crew : Unassign(a)

Spec == Init /\ [][Next]_vars
=============================================================================
