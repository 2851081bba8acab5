----------------------------- MODULE Notifications -----------------------------
(***************************************************************************)
(* NotificationsService and NotificationsProcessor, with a Bull queue in   *)
(* Redis between them.  A request leaves a row, jobs, or both.  A worker   *)
(* that takes a job sends what is to be sent, then writes to the row; what *)
(* fails is tried again from the start, Attempts times in all.             *)
(***************************************************************************)
EXTENDS Accounts

CONSTANTS
    Notice,     \* ids of notifications rows
    Job,        \* ids that the queue gives to jobs
    Circle,     \* users who are notified: the active members of a group
    Offset,     \* days before the due date on which they are
    Phoned,     \* users with a phone number
    Provider,   \* the ways that have a provider
    Channels,   \* the sets of ways that callers ask for
    Notifier,   \* calls in flight at once
    Attempts,   \* how often a job is tried
    MaxOpen,    \* bound on the jobs that wait or run at once
    MaxTrouble  \* bound on the jobs and rows something goes wrong with

VARIABLES
    notice,     \* rows of notifications
    task,       \* what each job was queued for
    job,        \* the jobs in Redis
    notifying,  \* the call each caller is running
    missed      \* rows whose sender broke off, and jobs that failed for good

noticeVars == <<notice, task, job, notifying, missed>>

\* IN_APP stands for PUSH, which nobody sends either.
Way == {"EMAIL", "SMS", "IN_APP"}

\* of: the job whose handler left the row, which no column tells.
NoticeRow == [to : Circle, sent : BOOLEAN, of : Job \cup (Person \X Nat) \cup {None}]

\* A job for a row, or for an event that gets its row when all is sent.
Task == [notice : Notice \cup {None}, to : Circle, ways : SUBSET Way]

\* The ids that the service gives to its reminders.
Reminder == Circle \X Offset
JobId == Job \cup Reminder

\* queued: waiting, or delayed until its time or its next try.
Opened == {"queued", "active", "written"}

OpenJob ==
    [state : Opened, tries : 0..(Attempts - 1),
     stalled : BOOLEAN, done : SUBSET Way]

\* What the queue remembers of a finished job.
ClosedJob == [state : {"completed", "failed"}]

Notifying ==
    [pc : {"queue", "bulk"}, rest : SUBSET (Notice \X Way)]
    \cup [pc : {"remind", "cancel"}, rest : SUBSET Reminder]

ASSUME NoticeAssumption ==
    /\ Circle \subseteq Person
    /\ Offset \subseteq Nat
    /\ Provider \subseteq {"EMAIL", "SMS"}
    /\ Channels \subseteq (SUBSET Way) \ {{}}
    /\ Attempts \in Nat \ {0}
    /\ Job \cap (Person \X Nat) = {}
    /\ None \notin Notice \cup Job \cup (Person \X Nat)
                   \cup NoticeRow \cup Task \cup OpenJob \cup ClosedJob \cup Notifying

-----------------------------------------------------------------------------

Noticing(c, pc) == notifying[c] # None /\ notifying[c].pc = pc

NotifyReturn(c) == notifying' = [notifying EXCEPT ![c] = None]

\* The rest of a call's work, or its end.
NotifyRest(c, rest) ==
    notifying' = [notifying EXCEPT ![c] =
        IF rest = {} THEN None ELSE [@ EXCEPT !.rest = rest]]

TaskOf(j) ==
    IF j \in Job THEN task[j]
    ELSE [notice |-> None, to |-> j[1],
          ways |-> IF j[2] <= 1 THEN {"EMAIL", "SMS"} ELSE {"EMAIL"}]

\* The ways of a task that have an address and a provider: the others are
\* passed over in silence.
Reaches(t) ==
    {w \in t.ways \cap Provider : w = "SMS" => t.to \in Phoned}

NewJob == [state |-> "queued", tries |-> 0, stalled |-> FALSE, done |-> {}]

JobIn(j, states) == job[j] # None /\ job[j].state \in states

IsOpen(j) == JobIn(j, Opened)

\* The bound on trouble, which one more job or row may have.
JobTrouble(x) ==
    Cardinality(missed \cup {x}
        \cup {j \in JobId : IsOpen(j) /\ (job[j].tries > 0 \/ job[j].stalled)})
    <= MaxTrouble

\* The bound on open jobs, when so many more come.
Space(more) == Cardinality({j \in JobId : IsOpen(j)}) + more <= MaxOpen

-----------------------------------------------------------------------------
(* NotificationsService. *)

\* send: the row, and then a job for each channel.
SendNotice(c, u, ways) ==
    /\ notifying[c] = None
    /\ \E n \in Notice :
          /\ notice[n] = None
          /\ notice' = [notice EXCEPT ![n] = [to |-> u, sent |-> FALSE, of |-> None]]
          /\ notifying' = [notifying EXCEPT ![c] = [pc |-> "queue", rest |-> {n} \X ways]]
    /\ UNCHANGED <<task, job, missed>>

QueueOne(c) ==
    /\ Noticing(c, "queue") /\ Space(1)
    /\ \E p \in notifying[c].rest, j \in Job :
          /\ task[j] = None
          /\ task' = [task EXCEPT ![j] = [notice |-> p[1], to |-> notice[p[1]].to,
                                          ways |-> {p[2]}]]
          /\ job' = [job EXCEPT ![j] = NewJob]
          /\ NotifyRest(c, notifying[c].rest \ {p})
    /\ UNCHANGED <<notice, missed>>

\* sendBulk: the rows in a transaction, and then their jobs in another.
SendBulk(c, ids, ways) ==
    /\ notifying[c] = None
    /\ ids # {}
    /\ \A n \in ids : notice[n] = None
    /\ \E to \in [ids -> Circle] :
          notice' = [n \in Notice |->
              IF n \in ids THEN [to |-> to[n], sent |-> FALSE, of |-> None]
                           ELSE notice[n]]
    /\ notifying' = [notifying EXCEPT ![c] = [pc |-> "bulk", rest |-> ids \X ways]]
    /\ UNCHANGED <<task, job, missed>>

QueueAll(c) ==
    /\ Noticing(c, "bulk") /\ Space(Cardinality(notifying[c].rest))
    /\ \E id \in [notifying[c].rest -> {j \in Job : task[j] = None}] :
          /\ \A p, q \in notifying[c].rest : id[p] = id[q] => p = q
          /\ LET given == {id[p] : p \in notifying[c].rest}
                 For(j) == CHOOSE p \in notifying[c].rest : id[p] = j
             IN  /\ task' = [j \in Job |->
                       IF j \in given
                       THEN [notice |-> For(j)[1], to |-> notice[For(j)[1]].to,
                             ways |-> {For(j)[2]}]
                       ELSE task[j]]
                 /\ job' = [j \in JobId |->
                       IF j \in given THEN NewJob ELSE job[j]]
    /\ NotifyReturn(c)
    /\ UNCHANGED <<notice, missed>>

\* notifyContributionApproved and notifyPayoutScheduled: only a job.
NotifyEvent(u) ==
    /\ Space(1)
    /\ \E j \in Job :
          /\ task[j] = None
          /\ task' = [task EXCEPT ![j] =
                [notice |-> None, to |-> u, ways |-> {"EMAIL", "SMS"}]]
          /\ job' = [job EXCEPT ![j] = NewJob]
    /\ UNCHANGED <<notice, notifying, missed>>

\* scheduleContributionReminders, with at most so many days to go.
ScheduleReminders(c, days) ==
    /\ notifying[c] = None
    /\ LET due == {r \in Reminder : r[2] <= days}
       IN  /\ due # {}
           /\ notifying' = [notifying EXCEPT ![c] = [pc |-> "remind", rest |-> due]]
    /\ UNCHANGED <<notice, task, job, missed>>

\* An id that the queue still has a record of is not queued again.
QueueReminder(c) ==
    /\ Noticing(c, "remind") /\ Space(1)
    /\ \E r \in notifying[c].rest :
          /\ job' = IF job[r] = None THEN [job EXCEPT ![r] = NewJob] ELSE job
          /\ NotifyRest(c, notifying[c].rest \ {r})
    /\ UNCHANGED <<notice, task, missed>>

\* cancelScheduledReminders.
FindReminders(c) ==
    /\ notifying[c] = None
    /\ LET found == {r \in Reminder : JobIn(r, {"queued"})}
       IN  /\ found # {}
           /\ notifying' = [notifying EXCEPT ![c] = [pc |-> "cancel", rest |-> found]]
    /\ UNCHANGED <<notice, task, job, missed>>

\* A job that a worker holds cannot be removed, and the rest stay as well.
RemoveReminder(c) ==
    /\ Noticing(c, "cancel")
    /\ \E r \in notifying[c].rest :
          IF JobIn(r, {"active", "written"})
          THEN NotifyReturn(c) /\ UNCHANGED job
          ELSE /\ job' = [job EXCEPT ![r] = None]
               /\ NotifyRest(c, notifying[c].rest \ {r})
    /\ UNCHANGED <<notice, task, missed>>

\* The database or Redis fails, or the server stops: the rest does not happen.
BreakOff(c) ==
    /\ notifying[c] # None /\ JobTrouble(c)
    /\ missed' = missed \cup
          (IF notifying[c].pc \in {"queue", "bulk"}
           THEN {p[1] : p \in notifying[c].rest} ELSE {})
    /\ NotifyReturn(c)
    /\ UNCHANGED <<notice, task, job>>

-----------------------------------------------------------------------------
(* Bull and NotificationsProcessor. *)

TakeJob(j) ==
    /\ JobIn(j, {"queued"})
    /\ job' = [job EXCEPT ![j].state = "active"]
    /\ UNCHANGED <<notice, task, notifying, missed>>

\* The mail goes first, then the text message.
SendVia(j, way) ==
    /\ JobIn(j, {"active"})
    /\ LET open == Reaches(TaskOf(j)) \ job[j].done
       IN  way \in open /\ (way = "SMS" => "EMAIL" \notin open)
    /\ job' = [job EXCEPT ![j].done = @ \cup {way}]
    /\ UNCHANGED <<notice, task, notifying, missed>>

\* When all is sent: the row of the task is marked, or the event gets a row.
WriteNotice(j) ==
    /\ JobIn(j, {"active"})
    /\ Reaches(TaskOf(j)) \subseteq job[j].done
    /\ LET t == TaskOf(j)
       IN  IF t.notice # None
           THEN notice' = [notice EXCEPT ![t.notice].sent = TRUE]
           ELSE \E n \in Notice :
                   /\ notice[n] = None
                   /\ notice' = [notice EXCEPT ![n] =
                                    [to |-> t.to, sent |-> TRUE, of |-> j]]
    /\ job' = [job EXCEPT ![j].state = "written", ![j].done = {}]
    /\ UNCHANGED <<task, notifying, missed>>

CompleteJob(j) ==
    /\ JobIn(j, {"written"})
    /\ job' = [job EXCEPT ![j] = [state |-> "completed"]]
    /\ UNCHANGED <<notice, task, notifying, missed>>

\* Faulty variant: the handler logs the error and does not throw it.
SwallowError(j) ==
    /\ JobIn(j, {"active"})
    /\ job' = [job EXCEPT ![j] = [state |-> "completed"]]
    /\ UNCHANGED <<notice, task, notifying, missed>>

\* The job is out of tries, or may not be taken from a dead worker once more.
FailForGood(j) ==
    /\ job' = [job EXCEPT ![j] = [state |-> "failed"]]
    /\ missed' = missed \cup {j}

\* A provider or the database fails, and the handler throws.
FailJob(j) ==
    /\ JobIn(j, {"active"}) /\ JobTrouble(j)
    /\ IF job[j].tries + 1 < Attempts
       THEN /\ job' = [job EXCEPT ![j].state = "queued", ![j].tries = @ + 1,
                                   ![j].done = {}]
            /\ UNCHANGED missed
       ELSE FailForGood(j)
    /\ UNCHANGED <<notice, task, notifying>>

\* The worker dies: the job is stalled, and given to another worker once.
StallJob(j) ==
    /\ JobIn(j, {"active", "written"}) /\ JobTrouble(j)
    /\ IF ~ job[j].stalled
       THEN /\ job' = [job EXCEPT ![j].state = "queued", ![j].stalled = TRUE,
                                   ![j].done = {}]
            /\ UNCHANGED missed
       ELSE FailForGood(j)
    /\ UNCHANGED <<notice, task, notifying>>

\* Only so many finished jobs are kept.
ForgetJob(j) ==
    /\ JobIn(j, {"completed", "failed"})
    /\ job' = [job EXCEPT ![j] = None]
    /\ UNCHANGED <<notice, task, notifying, missed>>

-----------------------------------------------------------------------------

NoticeInit ==
    /\ notice = [n \in Notice |-> None]
    /\ task = [j \in Job |-> None]
    /\ job = [j \in JobId |-> None]
    /\ notifying = [c \in Notifier |-> None]
    /\ missed = {}

NoticeNext ==
    \/ \E c \in Notifier :
          \/ \E ways \in Channels :
                \/ \E u \in Circle : SendNotice(c, u, ways)
                \/ \E ids \in SUBSET Notice : SendBulk(c, ids, ways)
          \/ \E days \in Offset : ScheduleReminders(c, days)
          \/ QueueOne(c) \/ QueueAll(c)
          \/ QueueReminder(c) \/ FindReminders(c) \/ RemoveReminder(c)
          \/ BreakOff(c)
    \/ \E u \in Circle : NotifyEvent(u)
    \/ \E j \in JobId :
          \/ TakeJob(j) \/ WriteNotice(j) \/ CompleteJob(j)
          \/ \E way \in Way : SendVia(j, way)
          \/ FailJob(j) \/ StallJob(j) \/ ForgetJob(j)

-----------------------------------------------------------------------------
(* Properties. *)

NoticeTypeOK ==
    /\ notice \in [Notice -> NoticeRow \cup {None}]
    /\ task \in [Job -> Task \cup {None}]
    /\ job \in [JobId -> OpenJob \cup ClosedJob \cup {None}]
    /\ notifying \in [Notifier -> Notifying \cup {None}]
    /\ missed \subseteq Notice \cup JobId

\* A caller has jobs for the row still to queue.
Sending(n) ==
    \E c \in Notifier :
        /\ notifying[c] # None
        /\ notifying[c].pc \in {"queue", "bulk"}
        /\ \E w \in Way : <<n, w>> \in notifying[c].rest

\* Whatever fails, stalls, is repeated, cancelled or evicted meanwhile: a row
\* that is not sent yet has a job that will be tried, or a sender who is at it,
\* unless all tries of a job failed or the sender broke off; and an event that
\* was accepted is in the queue until its member has a row about it.
NothingForgotten ==
    /\ \A n \in Notice : notice[n] # None /\ ~ notice[n].sent =>
          \/ n \in missed \/ Sending(n)
          \/ \E j \in Job : /\ task[j] # None
                            /\ task[j].notice = n
                            /\ IsOpen(j) \/ j \in missed
    /\ \A j \in Job : task[j] # None /\ task[j].notice = None =>
          \/ IsOpen(j) \/ j \in missed
          \/ \E n \in Notice : notice[n] # None /\ notice[n].of = j

=============================================================================
