----------------------------- MODULE OfflineQueue -----------------------------
(***************************************************************************)
(* The phone's queue of operations asked for while offline: the writing    *)
(* half of ContributionRepository, OfflineSyncService, the offline_queue   *)
(* table, the connectivity stream, and the sign-out that wipes them.  The  *)
(* queue survives the app; a sync under way does not.                      *)
(***************************************************************************)
EXTENDS Accounts

CONSTANTS
    Op,             \* operations users ask for, each with its own key
    Submission,     \* those that submit a contribution; the rest review one
    Run,            \* syncs under way at once
    MaxBusy,        \* bound on operations asked for, crashes seen and syncs
                    \* under way, together
    MaxRetries,     \* attempts after which an operation is given up
    MaxCrashes      \* bound on the crashes of the app

ASSUME QueueAssumption ==
    /\ Submission \subseteq Op
    /\ MaxRetries \in Nat \ {0}
    /\ MaxBusy \in Nat /\ MaxCrashes \in Nat
    /\ None \notin Person \cup {"call", "draft", "enqueue"}

VARIABLES
    online,         \* what the connectivity plugin reports
    signed,         \* the user whose tokens are stored
    wiping,         \* a sign-out has cleared the tokens, not yet the tables
    asked,          \* who asked for each operation
    doing,          \* how far the repository is with an operation
    draft,          \* submissions with a temporary row of contributions
    queue,          \* rows of offline_queue
    syncing,        \* the flag _isSyncing
    run,            \* the syncs under way
    applied,        \* server: as whom an operation took effect
    promised,       \* history: operations said to be queued, since the wipe
    overtaken,      \* history: a sign-out met calls or syncs under way, or
                    \* was cut short
    crashes

queueVars ==
    <<asked, doing, draft, queue, syncing, run, applied, promised>>
phoneVars == <<online, signed, wiping, overtaken, crashes>>
offlineVars == <<phoneVars, queueVars>>

\* "after" stands for createdAt: the operations that were in the queue before.
QueueRow ==
    [op : Op, after : SUBSET Op, retries : 0..MaxRetries,
     status : {"PENDING", "FAILED"}]

RunRow ==
    [pc : {"check", "read", "send", "done", "failed"},
     todo : SUBSET QueueRow,            \* the rows it read and has yet to send
     now : QueueRow \cup {None}]        \* the row it is at, as it was read

ASSUME QueueRowAssumption == None \notin QueueRow \cup RunRow

-----------------------------------------------------------------------------

RunAt(r, pc) == run[r] # None /\ run[r].pc = pc

RunGoto(r, pc) == run' = [run EXCEPT ![r].pc = pc]

\* Bound of the instance: room for one more operation or sync.
Idle ==
    Cardinality({op \in Op : asked[op] # None})
        + Cardinality({r \in Run : run[r] # None}) + crashes < MaxBusy

\* The sync goes on to its next operation.
Advance(r) == run' = [run EXCEPT ![r].pc = "send", ![r].now = None]

Pending == {row \in queue : row.status = "PENDING"}

Without(op) == {row \in queue : row.op # op}

\* The operations of "rows", in the order they were queued.
IsFirst(row, rows) == \A other \in rows : other.op \notin row.after

\* The server takes a review once; a submission it knows the key of it answers
\* again.  It may refuse either for reasons of its own.
Acceptable(op) ==
    /\ online /\ signed # None
    /\ applied[op] = None \/ op \in Submission

Apply(op) ==
    applied' = IF applied[op] = None
               THEN [applied EXCEPT ![op] = signed] ELSE applied

-----------------------------------------------------------------------------
(* Operations. *)

\* isConnected decides between the server and the queue.
Ask(op) ==
    /\ signed # None
    /\ asked[op] = None /\ Idle
    /\ asked' = [asked EXCEPT ![op] = signed]
    /\ doing' = [doing EXCEPT ![op] =
          IF online THEN "call"
          ELSE IF op \in Submission THEN "draft" ELSE "enqueue"]
    /\ UNCHANGED <<phoneVars, draft, queue, syncing, run, applied, promised>>

\* The call succeeds, or its error is shown; nothing is queued then.
CallServer(op) ==
    /\ doing[op] = "call"
    /\ doing' = [doing EXCEPT ![op] = None]
    /\ \/ Acceptable(op) /\ Apply(op)
       \/ UNCHANGED applied
    /\ UNCHANGED <<phoneVars, asked, draft, queue, syncing, run, promised>>

\* A submission is shown from its temporary row, which no sync removes.
SaveDraft(op) ==
    /\ doing[op] = "draft"
    /\ doing' = [doing EXCEPT ![op] = "enqueue"]
    /\ draft' = draft \cup {op}
    /\ UNCHANGED <<phoneVars, asked, queue, syncing, run, applied, promised>>

\* queueOperation
Enqueue(op) ==
    /\ doing[op] = "enqueue"
    /\ doing' = [doing EXCEPT ![op] = None]
    /\ queue' = queue \cup {[op |-> op, after |-> {row.op : row \in queue},
                             retries |-> 0, status |-> "PENDING"]}
    /\ promised' = promised \cup {op}
    /\ UNCHANGED <<phoneVars, asked, draft, syncing, run, applied>>

-----------------------------------------------------------------------------
(* Syncs. *)

\* The connectivity stream reports a connection, new or changed; its listener
\* starts a sync unless the flag is set.  One sync has room whatever the bound.
Connected ==
    /\ online' = TRUE
    /\ IF syncing THEN UNCHANGED run
       ELSE LET free == {r \in Run : run[r] = None} IN
            /\ free # {}
            /\ Idle \/ free = Run
            /\ run' = [run EXCEPT ![CHOOSE r \in free : TRUE] =
                  [pc |-> "check", todo |-> {}, now |-> None]]
    /\ UNCHANGED <<signed, wiping, overtaken, crashes, asked, doing, draft,
                   queue, syncing, applied, promised>>

Disconnected ==
    /\ online
    /\ online' = FALSE
    /\ UNCHANGED <<signed, wiping, overtaken, crashes, queueVars>>

\* The flag is set after the await: two syncs may both get here.
CheckOnline(r) ==
    /\ RunAt(r, "check")
    /\ IF online
       THEN RunGoto(r, "read") /\ syncing' = TRUE
       ELSE run' = [run EXCEPT ![r] = None] /\ UNCHANGED syncing
    /\ UNCHANGED <<phoneVars, asked, doing, draft, queue, applied, promised>>

ReadPending(r) ==
    /\ RunAt(r, "read")
    /\ run' = [run EXCEPT ![r].pc = "send", ![r].todo = Pending]
    /\ UNCHANGED <<phoneVars, asked, doing, draft, queue, syncing, applied,
                   promised>>

\* The server takes the operation or not, and its answer may be lost.
SendOperation(r) ==
    /\ RunAt(r, "send")
    /\ \E row \in run[r].todo :
          LET RunNow(pc) ==
                  run' = [run EXCEPT ![r].pc = pc, ![r].now = row,
                                     ![r].todo = @ \ {row}]
          IN
          /\ IsFirst(row, run[r].todo)
          /\ \/ /\ Acceptable(row.op)
                /\ Apply(row.op)
                /\ \E pc \in {"done", "failed"} : RunNow(pc)
             \/ RunNow("failed") /\ UNCHANGED applied
    /\ UNCHANGED <<phoneVars, asked, doing, draft, queue, syncing, promised>>

RemoveOperation(r) ==
    /\ RunAt(r, "done")
    /\ queue' = Without(run[r].now.op)
    /\ Advance(r)
    /\ UNCHANGED <<phoneVars, asked, doing, draft, syncing, applied, promised>>

\* Faulty variant: the limit is taken for one more attempt.
RetriedOnceMore(row) ==
    LET retries == row.retries + 1 IN
    [row EXCEPT !.retries = retries,
                !.status = IF retries > MaxRetries THEN "FAILED" ELSE "PENDING"]

\* The row after one more failed attempt.
Retried(row) ==
    LET retries == row.retries + 1 IN
    [row EXCEPT !.retries = retries,
                !.status = IF retries >= MaxRetries THEN "FAILED" ELSE "PENDING"]

\* Faulty variant: an operation given up leaves the queue.
KeepFailedNot(row) ==
    IF row.retries + 1 >= MaxRetries THEN Without(row.op)
    ELSE {IF old.op = row.op THEN Retried(row) ELSE old : old \in queue}

\* The count written is that of the row as it was read, plus one; the status
\* is only ever written to FAILED.
KeepFailed(row) ==
    {IF old.op # row.op THEN old
     ELSE IF Retried(row).status = "FAILED" THEN Retried(row)
     ELSE [old EXCEPT !.retries = Retried(row).retries] : old \in queue}

NoteFailure(r) ==
    /\ RunAt(r, "failed")
    /\ queue' = KeepFailed(run[r].now)
    /\ Advance(r)
    /\ UNCHANGED <<phoneVars, asked, doing, draft, syncing, applied, promised>>

\* Faulty variant: the flag is cleared only when something was left to send.
EndSyncEarly(r) ==
    /\ RunAt(r, "send") /\ run[r].todo = {}
    /\ syncing' = (syncing /\ queue # {})
    /\ run' = [run EXCEPT ![r] = None]
    /\ UNCHANGED <<phoneVars, asked, doing, draft, queue, applied, promised>>

\* finally: the flag is cleared, another sync under way or not.
EndSync(r) ==
    /\ RunAt(r, "send") /\ run[r].todo = {}
    /\ syncing' = FALSE
    /\ run' = [run EXCEPT ![r] = None]
    /\ UNCHANGED <<phoneVars, asked, doing, draft, queue, applied, promised>>

SyncStep(r) ==
    \/ CheckOnline(r) \/ ReadPending(r) \/ SendOperation(r)
    \/ RemoveOperation(r) \/ NoteFailure(r) \/ EndSync(r)

-----------------------------------------------------------------------------
(* The user and the app. *)

SignIn(u) ==
    /\ signed = None /\ ~ wiping
    /\ signed' = u
    /\ UNCHANGED <<online, wiping, overtaken, crashes, queueVars>>

\* AuthRepository.logout: the tokens go first.
SignOut ==
    /\ signed # None
    /\ signed' = None
    /\ wiping' = TRUE
    /\ UNCHANGED <<online, overtaken, crashes, queueVars>>

Busy ==
    \/ \E r \in Run : run[r] # None
    \/ \E op \in Op : doing[op] # None

\* Faulty variant: the queue is kept for the next user.
WipedQueueNot == queue

\* clearAllData deletes the queue with every other table.
WipedQueue == {}

Wipe ==
    /\ wiping
    /\ wiping' = FALSE
    /\ queue' = WipedQueue
    /\ draft' = {}
    /\ promised' = {}
    /\ overtaken' = (overtaken \/ Busy)
    /\ UNCHANGED <<online, signed, crashes, asked, doing, syncing, run,
                   applied>>

\* The app stops: what is in memory is gone, tokens and tables stay.
StopSyncs ==
    /\ syncing' = FALSE
    /\ run' = [r \in Run |-> None]
    /\ doing' = [op \in Op |-> None]

CrashPhone ==
    /\ crashes < MaxCrashes /\ Idle
    /\ crashes' = crashes + 1
    /\ overtaken' = (overtaken \/ wiping)
    /\ wiping' = FALSE

CrashQueue ==
    /\ CrashPhone
    /\ StopSyncs
    /\ UNCHANGED <<online, signed, asked, draft, queue, applied, promised>>

-----------------------------------------------------------------------------

\* The plugin's first report is an event like the others.
PhoneInit ==
    /\ online = FALSE
    /\ signed = None /\ wiping = FALSE
    /\ overtaken = FALSE /\ crashes = 0

QueueInit ==
    /\ asked = [op \in Op |-> None] /\ doing = [op \in Op |-> None]
    /\ draft = {} /\ queue = {} /\ syncing = FALSE
    /\ run = [r \in Run |-> None]
    /\ applied = [op \in Op |-> None]
    /\ promised = {}

QueueNext ==
    \/ \E op \in Op : Ask(op) \/ CallServer(op) \/ SaveDraft(op) \/ Enqueue(op)
    \/ \E r \in Run : SyncStep(r)
    \/ Connected \/ Disconnected
    \/ \E u \in Person : SignIn(u)
    \/ SignOut \/ Wipe
    \/ CrashQueue

-----------------------------------------------------------------------------
(* Properties. *)

PhoneTypeOK ==
    /\ online \in BOOLEAN /\ wiping \in BOOLEAN /\ overtaken \in BOOLEAN
    /\ signed \in Person \cup {None}
    /\ crashes \in 0..MaxCrashes

QueueTypeOK ==
    /\ asked \in [Op -> Person \cup {None}]
    /\ doing \in [Op -> {"call", "draft", "enqueue", None}]
    /\ draft \subseteq Submission
    /\ queue \subseteq QueueRow
    /\ syncing \in BOOLEAN
    /\ run \in [Run -> RunRow \cup {None}]
    /\ applied \in [Op -> Person \cup {None}]
    /\ promised \subseteq Op

\* An operation the app said it had queued is in the queue until the server
\* has it, through overlapping syncs, lost answers and crashes; one given up
\* stays there as FAILED.  Only a sign-out discards it.
QueuedNotLost ==
    \A op \in promised :
        applied[op] # None \/ \E row \in queue : row.op = op

\* The server takes an operation only as the user who asked for it, though the
\* tokens are read when it is sent and the phone may change hands: unless the
\* sign-out met something under way or was itself cut short.
ServedAsAuthor ==
    ~ overtaken =>
        \A op \in Op : applied[op] # None => applied[op] = asked[op]

IsPending(op) ==
    \E row \in queue : row.op = op /\ row.status = "PENDING"

\* If the phone at last stays online and its connection is reported when no
\* sync is under way, every queued operation is taken, given up or wiped,
\* although overlapping syncs write each other's retry counts back.
OpSettles ==
    <>[]online /\ WF_offlineVars(Connected) =>
        \A op \in Op : IsPending(op) ~> ~ IsPending(op)

=============================================================================
