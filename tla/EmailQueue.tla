------------------------------ MODULE EmailQueue ------------------------------
(***************************************************************************)
(* Mails: Enqueue puts a task in the asynq queue, or mails directly when   *)
(* that fails; a worker of the same process takes tasks and retries them.  *)
(* Queue and worker belong to asynq, which is modelled as internal/email   *)
(* uses it; one action is one step of the worker or of its SMTP dialogue.  *)
(***************************************************************************)
EXTENDS Naturals

CONSTANTS
    Tasks,          \* calls of Enqueue
    MaxRetry,       \* retries of a task
    MailFaults,     \* whether SMTP, the log and the process fail
    MaxRestarts     \* bound of the model: orderly restarts

ASSUME MaxRetryType    == MaxRetry \in Nat
ASSUME MailFaultsType  == MailFaults \in BOOLEAN
ASSUME MaxRestartsType == MaxRestarts \in Nat

VARIABLES
    task,       \* task -> its place in asynq: "none", "direct" (not there),
                \* "pending", "active", "done", "archived"
    retried,    \* task -> retries so far
    attempt,    \* task -> its current attempt: "none", "sending", "sent"
    loose,      \* task -> attempts that asynq gave up and that still talk to SMTP
    logged,     \* task -> rows of email_send_log
    unlogged,   \* history: tasks that were archived although the log failed or the worker died
    mails,      \* history: task -> mails delivered
    restarts    \* orderly restarts so far

queueVars == <<task, retried, attempt, loose, logged, unlogged, mails, restarts>>

-----------------------------------------------------------------------------
(* Mutated forms: the last failure is not recognised, retries are not counted,
   a shutdown leaves its tasks where they are. *)
ExhaustedAfter(t) == retried[t] > MaxRetry
CountNothing(t)   == retried[t]
LeaveActive(t)    == task[t]

-----------------------------------------------------------------------------
QueueInit ==
    /\ task = [t \in Tasks |-> "none"]
    /\ retried = [t \in Tasks |-> 0]
    /\ attempt = [t \in Tasks |-> "none"]
    /\ loose = [t \in Tasks |-> 0]
    /\ logged = [t \in Tasks |-> 0]
    /\ unlogged = {}
    /\ mails = [t \in Tasks |-> 0]
    /\ restarts = 0

Deliver(t) == mails' = [mails EXCEPT ![t] = @ + 1]

-----------------------------------------------------------------------------
(* Enqueue *)

Enqueue(t) ==
    /\ task[t] = "none"
    /\ task' = [task EXCEPT ![t] = "pending"]
    /\ UNCHANGED <<retried, attempt, loose, logged, unlogged, mails, restarts>>

\* Redis reports an error, whether it took the task (kept) or not; SMTP takes the mail
\* (mailed) or not.  What Enqueue returns is up to the caller: SMTP may take a mail and
\* report an error, but reports no success without it.
EnqueueDirect(t, kept, mailed) ==
    /\ task[t] = "none"
    /\ task' = [task EXCEPT ![t] = IF kept THEN "pending" ELSE "direct"]
    /\ IF mailed THEN Deliver(t) ELSE UNCHANGED mails
    /\ UNCHANGED <<retried, attempt, loose, logged, unlogged, restarts>>

-----------------------------------------------------------------------------
(* The worker. *)

Take(t) ==
    /\ task[t] = "pending"
    /\ task' = [task EXCEPT ![t] = "active"]
    /\ attempt' = [attempt EXCEPT ![t] = "sending"]
    /\ UNCHANGED <<retried, loose, logged, unlogged, mails, restarts>>

SmtpAccepts(t) ==
    /\ attempt[t] = "sending"
    /\ attempt' = [attempt EXCEPT ![t] = "sent"]
    /\ Deliver(t)
    /\ UNCHANGED <<task, retried, loose, logged, unlogged, restarts>>

Succeed(t) ==
    /\ attempt[t] = "sent"
    /\ task' = [task EXCEPT ![t] = "done"]
    /\ attempt' = [attempt EXCEPT ![t] = "none"]
    /\ UNCHANGED <<retried, loose, logged, unlogged, mails, restarts>>

Exhausted(t) == retried[t] >= MaxRetry

NextRetry(t) == retried[t] + 1

\* What asynq does with a task whose attempt failed.
RetryOrArchive(t) ==
    IF retried[t] >= MaxRetry
    THEN task' = [task EXCEPT ![t] = "archived"] /\ UNCHANGED retried
    ELSE task' = [task EXCEPT ![t] = "pending"] /\ retried' = [retried EXCEPT ![t] = NextRetry(t)]

\* The error handler comes first.  Its own INSERT may fail.
HandleError(t) ==
    \/ Exhausted(t) /\ logged' = [logged EXCEPT ![t] = @ + 1] /\ UNCHANGED unlogged
    \/ Exhausted(t) /\ unlogged' = unlogged \cup {t} /\ UNCHANGED logged
    \/ ~Exhausted(t) /\ UNCHANGED <<logged, unlogged>>

\* SMTP reports an error, whether it took the mail or not.
SmtpFails(t) ==
    /\ MailFaults
    /\ attempt[t] # "none"
    /\ HandleError(t)
    /\ RetryOrArchive(t)
    /\ attempt' = [attempt EXCEPT ![t] = "none"]
    /\ UNCHANGED <<loose, mails, restarts>>

\* After 30 seconds asynq gives the attempt up; sendSMTP knows nothing of it and goes on.
Timeout(t) ==
    /\ MailFaults
    /\ attempt[t] # "none"
    /\ HandleError(t)
    /\ RetryOrArchive(t)
    /\ loose' = [loose EXCEPT ![t] = IF attempt[t] = "sending" THEN @ + 1 ELSE @]
    /\ attempt' = [attempt EXCEPT ![t] = "none"]
    /\ UNCHANGED <<mails, restarts>>

LooseEnds(t) ==
    /\ loose[t] > 0
    /\ loose' = [loose EXCEPT ![t] = @ - 1]
    /\ Deliver(t) \/ UNCHANGED mails
    /\ UNCHANGED <<task, retried, attempt, logged, unlogged, restarts>>

\* The process dies.  Its leases expire, and asynq retries or archives what it was at,
\* without the error handler.
WorkerDies ==
    /\ MailFaults
    /\ LET active == {t \in Tasks : task[t] = "active"}
           last   == {t \in active : retried[t] >= MaxRetry}
       IN  /\ task' = [t \in Tasks |-> IF t \in last THEN "archived"
                                       ELSE IF t \in active THEN "pending" ELSE task[t]]
           /\ retried' = [t \in Tasks |-> IF t \in active \ last THEN NextRetry(t) ELSE retried[t]]
           /\ unlogged' = unlogged \cup last
    /\ attempt' = [t \in Tasks |-> "none"]
    /\ loose' = [t \in Tasks |-> 0]
    /\ UNCHANGED <<logged, mails, restarts>>

PutBack(t) == IF task[t] = "active" THEN "pending" ELSE task[t]

\* Shutdown puts back what is not finished in time, and does not count it as a retry.
Restart ==
    /\ restarts < MaxRestarts
    /\ restarts' = restarts + 1
    /\ task' = [t \in Tasks |-> PutBack(t)]
    /\ attempt' = [t \in Tasks |-> "none"]
    /\ loose' = [t \in Tasks |-> 0]
    /\ UNCHANGED <<retried, logged, unlogged, mails>>

Attempt(t) == SmtpAccepts(t) \/ Succeed(t) \/ SmtpFails(t) \/ Timeout(t)

WorkerNext ==
    \/ \E t \in Tasks : Take(t) \/ Attempt(t) \/ LooseEnds(t)
    \/ WorkerDies
    \/ Restart

QueueNext ==
    \/ \E t \in Tasks : \/ Enqueue(t)
                       \/ \E kept, mailed \in BOOLEAN : MailFaults /\ EnqueueDirect(t, kept, mailed)
    \/ WorkerNext

\* The worker polls the queue, and an attempt ends or is given up after 30 seconds.
QueueSpec ==
    /\ QueueInit /\ [][QueueNext]_queueVars
    /\ \A t \in Tasks : WF_queueVars(Take(t)) /\ WF_queueVars(Attempt(t))

-----------------------------------------------------------------------------
(* Properties. *)

QueueTypeOK ==
    /\ task \in [Tasks -> {"none", "direct", "pending", "active", "done", "archived"}]
    /\ retried \in [Tasks -> 0..MaxRetry]
    /\ attempt \in [Tasks -> {"none", "sending", "sent"}]
    /\ \A t \in Tasks : task[t] = "active" <=> attempt[t] # "none"
    /\ loose \in [Tasks -> Nat]
    /\ logged \in [Tasks -> Nat]
    /\ unlogged \subseteq Tasks
    /\ mails \in [Tasks -> Nat]
    /\ restarts \in 0..MaxRestarts

\* However attempts time out, die or are mailed although SMTP reports an error, a task
\* yields no more mails than its attempts, the direct one and those that a restart
\* repeats (email.go Enqueue, worker.go).
MailsBounded == \A t \in Tasks : mails[t] + loose[t] <= MaxRetry + 2 + restarts

\* A failure is logged once, when no attempt follows, and every task that ends was mailed
\* or is in the log, unless the log failed or the worker died (worker.go NewServer).
EndsAccounted ==
    \A t \in Tasks :
        /\ logged[t] <= 1
        /\ logged[t] > 0 => task[t] = "archived" /\ t \notin unlogged
        /\ task[t] = "archived" => logged[t] > 0 \/ t \in unlogged

\* Every task ends, whatever fails on the way.
TasksEnd == \A t \in Tasks : task[t] \in {"pending", "active"} ~> task[t] \in {"done", "archived"}

=============================================================================
