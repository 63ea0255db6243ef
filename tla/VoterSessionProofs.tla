-------------------------- MODULE VoterSessionProofs --------------------------
(* Theorems of VoterSession, and of the EmailQueue it extends, for every value of *)
(* their constants.  The queue comes first.                                       *)
EXTENDS VoterSession, TLAPS

USE MaxRetryType, MaxRestartsType

-----------------------------------------------------------------------------
(* Types of the queue. *)

\* The steps by what they do, for the case distinctions below.
LEMMA QueueSteps ==
    ASSUME QueueNext
    PROVE  \/ \E t \in Tasks : Enqueue(t)
           \/ \E t \in Tasks, kept, mailed \in BOOLEAN : EnqueueDirect(t, kept, mailed)
           \/ \E t \in Tasks : Take(t)
           \/ \E t \in Tasks : SmtpAccepts(t)
           \/ \E t \in Tasks : Succeed(t)
           \/ \E t \in Tasks : SmtpFails(t)
           \/ \E t \in Tasks : Timeout(t)
           \/ \E t \in Tasks : LooseEnds(t)
           \/ WorkerDies
           \/ Restart
BY DEF QueueNext, WorkerNext, Attempt

LEMMA InitQueueTyped == QueueInit => QueueTypeOK
BY DEF QueueInit, QueueTypeOK

\* A failed attempt leaves the task in the queue, with one retry more, or archives it.
LEMMA Failed ==
    ASSUME QueueTypeOK, NEW t \in Tasks, RetryOrArchive(t), HandleError(t)
    PROVE  /\ \/ /\ retried[t] = MaxRetry
                 /\ task' = [task EXCEPT ![t] = "archived"] /\ retried' = retried
                 /\ \/ logged' = [logged EXCEPT ![t] = @ + 1] /\ unlogged' = unlogged
                    \/ unlogged' = unlogged \cup {t} /\ logged' = logged
              \/ /\ retried[t] < MaxRetry
                 /\ task' = [task EXCEPT ![t] = "pending"]
                 /\ retried' = [retried EXCEPT ![t] = retried[t] + 1]
                 /\ logged' = logged /\ unlogged' = unlogged
           /\ retried' \in [Tasks -> 0..MaxRetry]
           /\ logged' \in [Tasks -> Nat]
           /\ unlogged' \subseteq Tasks
<1>1. retried[t] \in 0..MaxRetry
  BY DEF QueueTypeOK
<1>2. CASE retried[t] >= MaxRetry
  BY <1>1, <1>2 DEF QueueTypeOK, RetryOrArchive, HandleError, Exhausted
<1>3. CASE ~(retried[t] >= MaxRetry)
  BY <1>1, <1>3 DEF QueueTypeOK, RetryOrArchive, HandleError, Exhausted, NextRetry
<1> QED BY <1>2, <1>3

LEMMA DirectTyped ==
    ASSUME QueueTypeOK, NEW t \in Tasks, NEW kept \in BOOLEAN, NEW mailed \in BOOLEAN,
           EnqueueDirect(t, kept, mailed)
    PROVE  QueueTypeOK'
BY DEF QueueTypeOK, EnqueueDirect, Deliver

LEMMA NextQueueTyped ==
    ASSUME QueueTypeOK, [QueueNext]_queueVars
    PROVE  QueueTypeOK'
<1> USE DEF QueueTypeOK
<1>1. CASE UNCHANGED queueVars
  BY <1>1 DEF queueVars
<1>2. ASSUME NEW t \in Tasks, Enqueue(t) \/ Take(t) \/ SmtpAccepts(t) \/ Succeed(t)
      PROVE  QueueTypeOK'
  BY <1>2 DEF Enqueue, Take, SmtpAccepts, Succeed, Deliver
<1>3. ASSUME NEW t \in Tasks, NEW kept \in BOOLEAN, NEW mailed \in BOOLEAN,
             EnqueueDirect(t, kept, mailed)
      PROVE  QueueTypeOK'
  BY <1>3, DirectTyped
<1>4. ASSUME NEW t \in Tasks, SmtpFails(t)
      PROVE  QueueTypeOK'
  BY <1>4, Failed DEF SmtpFails
<1>5. ASSUME NEW t \in Tasks, Timeout(t)
      PROVE  QueueTypeOK'
  BY <1>5, Failed DEF Timeout
<1>6. ASSUME NEW t \in Tasks, LooseEnds(t)
      PROVE  QueueTypeOK'
  BY <1>6 DEF LooseEnds, Deliver
<1>7. CASE WorkerDies
  BY <1>7 DEF WorkerDies, NextRetry
<1>8. CASE Restart
  BY <1>8 DEF Restart, PutBack
<1> QED BY <1>1, <1>2, <1>3, <1>4, <1>5, <1>6, <1>7, <1>8, QueueSteps

\* The tasks of the queue and the attempts at them have their types, and exactly the
\* tasks that a worker holds have an attempt under way (worker.go).
THEOREM QueueTypesHold == QueueSpec => []QueueTypeOK
BY InitQueueTyped, NextQueueTyped, PTL DEF QueueSpec

-----------------------------------------------------------------------------
(* No more mails than attempts.  Every attempt that is over, and not the last one, was
   counted as a retry or ended by a restart, or it was Enqueue's own. *)

Busy(t) == IF attempt[t] = "sending" THEN 1 ELSE 0
Last(t) == IF task[t] \in {"active", "done", "archived"} THEN 1 ELSE 0

Untouched(t) == task[t] = "none" => mails[t] = 0 /\ loose[t] = 0 /\ retried[t] = 0
Counted(t)   == mails[t] + loose[t] + Busy(t) <= retried[t] + restarts + 1 + Last(t)

Attempts == \A t \in Tasks : Untouched(t) /\ Counted(t)

LEMMA InitAttempts == QueueInit => Attempts
<1> SUFFICES ASSUME QueueInit, NEW t \in Tasks
             PROVE  Untouched(t) /\ Counted(t)
  BY DEF Attempts
<1>1. Busy(t) = 0 /\ Last(t) = 0
  BY DEF QueueInit, Busy, Last
<1>2. mails[t] = 0 /\ loose[t] = 0 /\ retried[t] = 0 /\ restarts = 0
  BY DEF QueueInit
<1> QED BY <1>1, <1>2 DEF Untouched, Counted

LEMMA NextAttempts ==
    ASSUME QueueTypeOK, QueueTypeOK', Attempts, [QueueNext]_queueVars
    PROVE  Attempts'
<1> USE DEF Attempts, Untouched, Counted, Busy, Last
<1>1. CASE UNCHANGED queueVars
  BY <1>1 DEF queueVars
<1> SUFFICES ASSUME QueueNext, NEW s \in Tasks
             PROVE  (Untouched(s) /\ Counted(s))'
  BY <1>1
<1>2. /\ mails[s] \in Nat /\ loose[s] \in Nat /\ retried[s] \in Nat /\ restarts \in Nat
      /\ task[s] = "active" <=> attempt[s] # "none"
      /\ mails'[s] \in Nat /\ loose'[s] \in Nat /\ retried'[s] \in Nat /\ restarts' \in Nat
  BY DEF QueueTypeOK
<1>3. ASSUME NEW t \in Tasks, Enqueue(t) \/ Take(t) \/ SmtpAccepts(t) \/ Succeed(t)
      PROVE  (Untouched(s) /\ Counted(s))'
  BY <1>2, <1>3 DEF Enqueue, Take, SmtpAccepts, Succeed, Deliver, QueueTypeOK
<1>4. ASSUME NEW t \in Tasks, NEW kept \in BOOLEAN, NEW mailed \in BOOLEAN,
             EnqueueDirect(t, kept, mailed)
      PROVE  (Untouched(s) /\ Counted(s))'
  BY <1>2, <1>4 DEF EnqueueDirect, Deliver, QueueTypeOK
<1>5. ASSUME NEW t \in Tasks, SmtpFails(t)
      PROVE  (Untouched(s) /\ Counted(s))'
  BY <1>2, <1>5, Failed DEF SmtpFails, QueueTypeOK
<1>6. ASSUME NEW t \in Tasks, Timeout(t)
      PROVE  (Untouched(s) /\ Counted(s))'
  BY <1>2, <1>6, Failed DEF Timeout, QueueTypeOK
<1>7. ASSUME NEW t \in Tasks, LooseEnds(t)
      PROVE  (Untouched(s) /\ Counted(s))'
  BY <1>2, <1>7 DEF LooseEnds, Deliver, QueueTypeOK
<1>8. CASE WorkerDies
  BY <1>2, <1>8 DEF WorkerDies, NextRetry, QueueTypeOK
<1>9. CASE Restart
  BY <1>2, <1>9 DEF Restart, PutBack, QueueTypeOK
<1> QED BY <1>3, <1>4, <1>5, <1>6, <1>7, <1>8, <1>9, QueueSteps

\* A task yields no more mails than its attempts, the direct one and those that a restart
\* repeats, for any retry limit and any number of tasks and restarts (Enqueue, worker.go).
THEOREM MailsStayBounded == QueueSpec => []MailsBounded
<1>1. QueueTypeOK /\ Attempts => MailsBounded
  <2> SUFFICES ASSUME QueueTypeOK, Attempts, NEW t \in Tasks
               PROVE  mails[t] + loose[t] <= MaxRetry + 2 + restarts
    BY DEF MailsBounded
  <2>1. /\ mails[t] \in Nat /\ loose[t] \in Nat /\ restarts \in Nat
        /\ retried[t] \in Nat /\ retried[t] <= MaxRetry
    BY DEF QueueTypeOK
  <2>2. mails[t] + loose[t] <= retried[t] + restarts + 2
    BY <2>1 DEF Attempts, Counted, Busy, Last
  <2> QED BY <2>1, <2>2
<1> QED BY <1>1, QueueTypesHold, InitAttempts, NextAttempts, PTL DEF QueueSpec

-----------------------------------------------------------------------------
(* Every end is in the log. *)

UnloggedEnded == \A t \in unlogged : task[t] = "archived"

Accounted == EndsAccounted /\ UnloggedEnded

LEMMA InitAccounted == QueueInit => Accounted
<1> SUFFICES ASSUME QueueInit
             PROVE  Accounted
  OBVIOUS
<1>1. unlogged = {} /\ \A t \in Tasks : logged[t] = 0 /\ task[t] = "none"
  BY DEF QueueInit
<1> QED BY <1>1 DEF Accounted, EndsAccounted, UnloggedEnded

LEMMA NextAccounted ==
    ASSUME QueueTypeOK, Accounted, [QueueNext]_queueVars
    PROVE  Accounted'
<1> USE DEF Accounted, EndsAccounted, UnloggedEnded
<1>1. CASE UNCHANGED queueVars
  BY <1>1 DEF queueVars
<1>2. ASSUME NEW t \in Tasks, Enqueue(t) \/ Take(t) \/ SmtpAccepts(t) \/ Succeed(t) \/ LooseEnds(t)
      PROVE  Accounted'
  BY <1>2 DEF Enqueue, Take, SmtpAccepts, Succeed, LooseEnds, QueueTypeOK
<1>3. ASSUME NEW t \in Tasks, NEW kept \in BOOLEAN, NEW mailed \in BOOLEAN,
             EnqueueDirect(t, kept, mailed)
      PROVE  Accounted'
  BY <1>3 DEF EnqueueDirect, QueueTypeOK
<1>4. ASSUME NEW t \in Tasks, attempt[t] # "none", RetryOrArchive(t), HandleError(t)
      PROVE  Accounted'
  <2>1. task[t] = "active" /\ logged[t] = 0 /\ t \notin unlogged
    BY <1>4 DEF QueueTypeOK
  <2>2. \/ /\ task' = [task EXCEPT ![t] = "archived"]
           /\ \/ logged' = [logged EXCEPT ![t] = @ + 1] /\ unlogged' = unlogged
              \/ unlogged' = unlogged \cup {t} /\ logged' = logged
        \/ /\ task' = [task EXCEPT ![t] = "pending"]
           /\ logged' = logged /\ unlogged' = unlogged
    BY <1>4, Failed
  <2> QED BY <2>1, <2>2 DEF QueueTypeOK
<1>5. CASE WorkerDies
  BY <1>5 DEF WorkerDies, QueueTypeOK
<1>6. CASE Restart
  BY <1>6 DEF Restart, PutBack, QueueTypeOK
<1> QED BY <1>1, <1>2, <1>3, <1>4, <1>5, <1>6, QueueSteps DEF SmtpFails, Timeout

\* A failure is logged once, when no attempt follows, and every task that ends was mailed
\* or is in the log, unless the log failed or the worker died (worker.go NewServer).
THEOREM FailuresLogged == QueueSpec => []EndsAccounted
<1>1. Accounted => EndsAccounted
  BY DEF Accounted
<1> QED BY <1>1, InitAccounted, QueueTypesHold, NextAccounted, PTL DEF QueueSpec

-----------------------------------------------------------------------------
(* Tasks only go forward. *)

\* A task that ended stays so; one in the queue is taken before it ends; an attempt goes on to
\* its answer; and a task comes back to the queue only for one of its retries or at a restart.
Forward ==
    \A t \in Tasks :
        /\ task[t] \in {"direct", "done", "archived"} => task'[t] = task[t]
        /\ task[t] = "pending" => task'[t] \in {"pending", "active"}
        /\ task[t] = "active" =>
             \/ task'[t] = "active" /\ (attempt'[t] = attempt[t] \/ attempt'[t] = "sent")
             \/ task'[t] \in {"done", "archived"}
             \/ task'[t] = "pending" /\ (retried'[t] > retried[t] \/ restarts' > restarts)
        /\ retried'[t] >= retried[t] /\ restarts' >= restarts

\* What TasksEnd rests on, with the bounds of QueueTypeOK: a task is attempted once more than it
\* has retries and restarts at most (worker.go NewServer, MaxRetry), for any number of tasks.
THEOREM TasksGoForward == QueueSpec => [][Forward]_queueVars
<1>1. QueueTypeOK /\ [QueueNext]_queueVars => Forward
  <2> SUFFICES ASSUME QueueTypeOK, [QueueNext]_queueVars
               PROVE  Forward
    OBVIOUS
  <2> USE DEF Forward, QueueTypeOK
  <2>1. CASE UNCHANGED queueVars
    BY <2>1 DEF queueVars
  <2>2. ASSUME NEW t \in Tasks, Enqueue(t) \/ Take(t) \/ SmtpAccepts(t) \/ Succeed(t) \/ LooseEnds(t)
        PROVE  Forward
    BY <2>2 DEF Enqueue, Take, SmtpAccepts, Succeed, LooseEnds
  <2>3. ASSUME NEW t \in Tasks, NEW kept \in BOOLEAN, NEW mailed \in BOOLEAN,
               EnqueueDirect(t, kept, mailed)
        PROVE  Forward
    BY <2>3 DEF EnqueueDirect
  <2>4. ASSUME NEW t \in Tasks, SmtpFails(t)
        PROVE  Forward
    BY <2>4, Failed DEF SmtpFails
  <2>5. ASSUME NEW t \in Tasks, Timeout(t)
        PROVE  Forward
    BY <2>5, Failed DEF Timeout
  <2>6. CASE WorkerDies
    BY <2>6 DEF WorkerDies, NextRetry
  <2>7. CASE Restart
    BY <2>7 DEF Restart, PutBack
  <2> QED BY <2>1, <2>2, <2>3, <2>4, <2>5, <2>6, <2>7, QueueSteps
<1> QED BY <1>1, QueueTypesHold, PTL DEF QueueSpec

USE NoneIsNew, CodesType

-----------------------------------------------------------------------------
(* Types of the session.  A dialog waits for one call at a time, and is shown while it does. *)

Own(c, t) == call[c] # None /\ call[c].tab = t /\ call[c].owner = "dialog"

TabFine(t) ==
    /\ dialog[t].loading <=> \E c \in Slots : Own(c, t)
    /\ \A c, d \in Slots : Own(c, t) /\ Own(d, t) => c = d
    /\ \A c \in Slots : Own(c, t) => dialog[t].step # "closed"
    /\ dialog[t].step # "closed" => selected[t] # None
    /\ dialog[t].step = "email" /\ dialog[t].captcha = "used" =>
         \E c \in Slots : Own(c, t) /\ call[c].kind = "request"

LEMMA TabKept ==
    ASSUME NEW t \in Tabs, TabFine(t), dialog'[t] = dialog[t], selected'[t] = selected[t],
           \A c \in Slots : /\ Own(c, t)' <=> Own(c, t)
                            /\ Own(c, t) => call'[c].kind = call[c].kind
    PROVE  TabFine(t)'
BY DEF TabFine

\* TypeOK but for the queue and the waiting dialogs.
SessionTyped ==
    /\ open \in [Tabs -> BOOLEAN] /\ selected \in [Tabs -> Candidates \cup {None}]
    /\ dialog \in [Tabs -> Dialog]
    /\ marked \in Candidates \cup {None}
    /\ shown \in [Tabs -> Candidates \cup {None}]
    /\ call \in [Slots -> Call \cup {None}]
    /\ stored \in [code : Codes, candidate : Candidates] \cup {None}
    /\ vote \in Candidates \cup {None}
    /\ named \in [Codes -> Candidates \cup {None}]

Typed == QueueTypeOK /\ SessionTyped /\ \A t \in Tabs : TabFine(t)

LEMMA InitTyped == Init => Typed
<1> SUFFICES ASSUME Init
             PROVE  Typed
  OBVIOUS
<1>1. QueueTypeOK
  BY InitQueueTyped DEF Init
<1>2. Closed \in Dialog
  BY DEF Closed, Dialog
<1>3. SessionTyped
  BY <1>2 DEF Init, SessionTyped
<1>4. ASSUME NEW t \in Tabs
      PROVE  TabFine(t)
  BY DEF Init, TabFine, Own, Closed
<1> QED BY <1>1, <1>3, <1>4 DEF Typed

\* The server writes a status into a call, or drops one that nobody waits for.
LEMMA Responded ==
    ASSUME SessionTyped, NEW c \in Slots, NEW status \in {"ok", "conflict", "invalid", "error"},
           call[c] # None, Respond(c, status)
    PROVE  /\ call' \in [Slots -> Call \cup {None}]
           /\ \A d \in Slots : call'[d] # None =>
                /\ call[d] # None /\ call'[d].kind = call[d].kind /\ call'[d].code = call[d].code
                /\ call'[d].status = IF d = c THEN status ELSE call[d].status
           /\ \A d \in Slots, t \in Tabs : /\ Own(d, t)' <=> Own(d, t)
                                           /\ Own(d, t) => call'[d].kind = call[d].kind
<1>1. call[c] \in Call /\ call \in [Slots -> Call \cup {None}]
  BY DEF SessionTyped
<1>2. CASE call[c].owner = "gone"
  <2>1. call' = [call EXCEPT ![c] = None]
    BY <1>1, <1>2 DEF Respond
  <2> QED BY <1>1, <1>2, <2>1 DEF Own
<1>3. CASE call[c].owner # "gone"
  <2> DEFINE a == [call[c] EXCEPT !.status = status]
  <2>1. call' = [call EXCEPT ![c] = a]
    BY <1>1, <1>3 DEF Respond
  <2>2. /\ a \in Call /\ a.kind = call[c].kind /\ a.code = call[c].code /\ a.tab = call[c].tab
        /\ a.owner = call[c].owner /\ a.status = status
    BY <1>1 DEF Call
  <2>3. a # None
    BY <2>2
  <2>4. \A d \in Slots : call'[d] = IF d = c THEN a ELSE call[d]
    BY <1>1, <2>1
  <2>5. call' \in [Slots -> Call \cup {None}]
    BY <1>1, <2>1, <2>2
  <2> HIDE DEF a
  <2> QED BY <1>1, <2>2, <2>3, <2>4, <2>5 DEF Own
<1> QED BY <1>2, <1>3

LEMMA QueueKept == ASSUME QueueTypeOK, UNCHANGED queueVars PROVE QueueTypeOK'
BY NextQueueTyped

Answered == {"ok", "conflict", "invalid", "error"}

\* Dialog t moves to d, its calls stay.
LEMMA DialogMoves ==
    ASSUME Typed, NEW t \in Tabs, NEW d \in Dialog, dialog' = [dialog EXCEPT ![t] = d],
           UNCHANGED <<homeVars, marked, shown, call, stored, vote, named, queueVars>>,
           d.loading = dialog[t].loading, d.step # "closed", dialog[t].step # "closed",
           d.step = "email" /\ d.captcha = "used" =>
             dialog[t].step = "email" /\ dialog[t].captcha = "used"
    PROVE  Typed'
<1>1. QueueTypeOK /\ SessionTyped /\ \A s \in Tabs : TabFine(s)
  BY DEF Typed
<1>2. QueueTypeOK'
  BY <1>1, QueueKept
<1>3. SessionTyped'
  BY <1>1 DEF SessionTyped, homeVars
<1>4. \A c \in Slots, s \in Tabs : Own(c, s)' <=> Own(c, s)
  BY DEF Own
<1>5. ASSUME NEW s \in Tabs
      PROVE  TabFine(s)'
  <2>1. CASE s # t
    BY <1>1, <1>4, <2>1, TabKept DEF SessionTyped, homeVars
  <2>2. CASE s = t
    <3>1. dialog'[t] = d /\ selected' = selected /\ call' = call
      BY <1>1 DEF SessionTyped, homeVars
    <3> QED BY <1>1, <1>4, <2>2, <3>1 DEF TabFine
  <2> QED BY <2>1, <2>2
<1> QED BY <1>2, <1>3, <1>5 DEF Typed

\* Dialog t comes or goes, and leaves its calls.
LEMMA DialogTurns ==
    ASSUME Typed, NEW t \in Tabs, NEW d \in {Closed, Mounted}, dialog' = [dialog EXCEPT ![t] = d],
           call' = Orphaned(t), SessionTyped', UNCHANGED queueVars,
           \A s \in Tabs : s # t => selected'[s] = selected[s],
           d = Mounted => selected'[t] # None
    PROVE  Typed'
<1>1. QueueTypeOK /\ SessionTyped /\ \A s \in Tabs : TabFine(s)
  BY DEF Typed
<1>2. QueueTypeOK'
  BY <1>1, QueueKept
<1>3. \A c \in Slots : /\ call'[c] = None <=> call[c] = None
                       /\ call[c] # None =>
                            /\ call'[c].tab = call[c].tab /\ call'[c].kind = call[c].kind
                            /\ call'[c].owner = IF call[c].tab = t /\ call[c].owner = "dialog"
                                               THEN "closed" ELSE call[c].owner
  <2> SUFFICES ASSUME NEW c \in Slots
               PROVE  /\ call'[c] = None <=> call[c] = None
                      /\ call[c] # None =>
                           /\ call'[c].tab = call[c].tab /\ call'[c].kind = call[c].kind
                           /\ call'[c].owner = IF call[c].tab = t /\ call[c].owner = "dialog"
                                              THEN "closed" ELSE call[c].owner
    OBVIOUS
  <2>1. CASE call[c] # None /\ call[c].tab = t /\ call[c].owner = "dialog"
    <3>1. call[c] \in Call /\ call'[c] = [call[c] EXCEPT !.owner = "closed"]
      BY <1>1, <2>1 DEF SessionTyped, Orphaned
    <3>2. /\ [call[c] EXCEPT !.owner = "closed"] \in Call
          /\ [call[c] EXCEPT !.owner = "closed"].tab = call[c].tab
          /\ [call[c] EXCEPT !.owner = "closed"].kind = call[c].kind
          /\ [call[c] EXCEPT !.owner = "closed"].owner = "closed"
      BY <3>1 DEF Call
    <3> QED BY <2>1, <3>1, <3>2
  <2>2. CASE ~(call[c] # None /\ call[c].tab = t /\ call[c].owner = "dialog")
    <3>1. call'[c] = call[c]
      BY <2>2 DEF Orphaned
    <3> QED BY <2>2, <3>1
  <2> QED BY <2>1, <2>2
<1>4. \A c \in Slots, s \in Tabs : /\ s # t => (Own(c, s)' <=> Own(c, s))
                                   /\ Own(c, s) => call'[c].kind = call[c].kind
                                   /\ ~Own(c, t)'
  BY <1>3 DEF Own
<1>5. /\ dialog'[t] = d /\ \A s \in Tabs : s # t => dialog'[s] = dialog[s]
      /\ d.loading = FALSE /\ d.captcha = "none" /\ (d.step # "closed" => d = Mounted)
  BY <1>1 DEF SessionTyped, Closed, Mounted
<1>6. ASSUME NEW s \in Tabs
      PROVE  TabFine(s)'
  <2>1. CASE s # t
    BY <1>1, <1>4, <1>5, <2>1, TabKept
  <2>2. CASE s = t
    BY <1>4, <1>5, <2>2 DEF TabFine
  <2> QED BY <2>1, <2>2
<1> QED BY <1>2, <1>6 DEF Typed

LEMMA SendTyped ==
    ASSUME Typed, NEW t \in Tabs, NEW kind \in {"request", "verify"}, NEW code \in Codes \cup {None},
           dialog[t].step \in {"email", "otp"}, kind = "verify" => dialog[t].step = "otp",
           Send(t, kind, code)
    PROVE  Typed'
<1>1. QueueTypeOK /\ SessionTyped /\ \A s \in Tabs : TabFine(s)
  BY DEF Typed
<1>2. QueueTypeOK'
  BY <1>1, QueueKept DEF Send
<1>3. selected[t] \in Candidates /\ ~dialog[t].loading /\ dialog[t] \in Dialog
  BY <1>1 DEF TabFine, SessionTyped, Send
<1> DEFINE a == [kind |-> kind, tab |-> t, candidate |-> selected[t],
                 code |-> code, owner |-> "dialog", status |-> "pending"]
           d == [dialog[t] EXCEPT !.loading = TRUE, !.told = "nothing",
                                  !.captcha = IF kind = "request" THEN "used" ELSE @]
<1>4. PICK c \in Slots : call[c] = None /\ call' = [call EXCEPT ![c] = a]
  BY DEF Send
<1>5. /\ dialog' = [dialog EXCEPT ![t] = d]
      /\ UNCHANGED <<open, selected, marked, shown, stored, vote, named>>
  BY DEF Send, homeVars
<1>6. a \in Call /\ a # None /\ a.kind = kind /\ a.tab = t /\ a.owner = "dialog"
  <2>1. a \in Call
    BY <1>3 DEF Call
  <2> QED BY <2>1
<1>7. /\ d \in Dialog /\ d.loading = TRUE /\ d.step = dialog[t].step
      /\ d.captcha = IF kind = "request" THEN "used" ELSE dialog[t].captcha
  BY <1>3 DEF Dialog
<1> HIDE DEF a, d
<1>8. SessionTyped'
  BY <1>1, <1>4, <1>5, <1>6, <1>7 DEF SessionTyped
<1>9. /\ \A e \in Slots, s \in Tabs : Own(e, s)' <=> (e = c /\ s = t) \/ Own(e, s)
      /\ \A e \in Slots : call'[e] = IF e = c THEN a ELSE call[e]
      /\ \A s \in Tabs : ~Own(c, s)
      /\ \A s \in Tabs : dialog'[s] = IF s = t THEN d ELSE dialog[s]
  BY <1>1, <1>4, <1>5, <1>6 DEF Own, SessionTyped
<1>10. \A e \in Slots : ~Own(e, t)
  BY <1>1, <1>3 DEF TabFine
<1>11. ASSUME NEW s \in Tabs
       PROVE  TabFine(s)'
  <2>1. CASE s # t
    BY <1>1, <1>5, <1>9, <2>1, TabKept
  <2>2. CASE s = t
    BY <1>1, <1>3, <1>5, <1>6, <1>7, <1>9, <1>10, <2>2 DEF TabFine
  <2> QED BY <2>1, <2>2
<1> QED BY <1>2, <1>8, <1>11 DEF Typed

\* What a status makes of a waiting dialog.
LEMMA ShowsTyped ==
    ASSUME NEW d \in Dialog, d.step # "closed", NEW kind \in {"request", "verify"}, NEW status \in Answered
    PROVE  /\ Shows(d, kind, status) \in Dialog
           /\ Shows(d, kind, status).loading = FALSE
           /\ Shows(d, kind, status).step # "closed"
           /\ Shows(d, kind, status).step = "email" /\ Shows(d, kind, status).captcha = "used" =>
                d.step = "email" /\ d.captcha = "used" /\ kind # "request"
           /\ Shows(d, kind, status).told \in {"recorded", "already"} => Marks(kind, status)
<1> DEFINE captcha == IF kind = "request" /\ status \notin {"ok", "conflict"} THEN "none" ELSE d.captcha
           step == CASE status = "conflict" \/ (status = "ok" /\ kind = "verify") -> "done"
                     [] status = "ok" /\ kind = "request" -> "otp"
                     [] OTHER -> d.step
           told == CASE status = "conflict" -> "already"
                     [] status = "ok" -> IF kind = "verify" THEN "recorded" ELSE "nothing"
                     [] OTHER -> "failure"
<1>1. Shows(d, kind, status) = [d EXCEPT !.loading = FALSE, !.captcha = captcha, !.step = step, !.told = told]
  BY DEF Shows, Loading, TokenAfter, IsConflict
<1>2. /\ captcha \in {"none", "fresh", "used"} /\ step \in {"email", "otp", "done"}
      /\ told \in {"nothing", "failure", "recorded", "already"}
      /\ step = "email" /\ captcha = "used" => d.step = "email" /\ d.captcha = "used" /\ kind # "request"
      /\ told \in {"recorded", "already"} => Marks(kind, status)
  <2>1. d.step \in {"email", "otp", "done"} /\ d.captcha \in {"none", "fresh", "used"}
    BY DEF Dialog
  <2>2. CASE status = "conflict"
    BY <2>1, <2>2 DEF Marks, IsConflict
  <2>3. CASE status = "ok"
    BY <2>1, <2>3 DEF Marks, IsConflict
  <2>4. CASE status \in {"invalid", "error"}
    BY <2>1, <2>4 DEF Marks, IsConflict
  <2> QED BY <2>2, <2>3, <2>4 DEF Answered
<1> HIDE DEF captcha, step, told
<1>3. /\ [d EXCEPT !.loading = FALSE, !.captcha = captcha, !.step = step, !.told = told] \in Dialog
      /\ [d EXCEPT !.loading = FALSE, !.captcha = captcha, !.step = step, !.told = told].loading = FALSE
      /\ [d EXCEPT !.loading = FALSE, !.captcha = captcha, !.step = step, !.told = told].captcha = captcha
      /\ [d EXCEPT !.loading = FALSE, !.captcha = captcha, !.step = step, !.told = told].step = step
      /\ [d EXCEPT !.loading = FALSE, !.captcha = captcha, !.step = step, !.told = told].told = told
  BY <1>2 DEF Dialog
<1> QED BY <1>1, <1>2, <1>3

LEMMA ContinueTyped ==
    ASSUME Typed, NEW c \in Slots, NEW status \in Answered, NEW left \in Call \cup {None},
           call[c] # None, left # None => left.owner # "dialog",
           Continue(c, status, left)
    PROVE  Typed'
<1>1. QueueTypeOK /\ SessionTyped /\ \A s \in Tabs : TabFine(s)
  BY DEF Typed
<1>2. QueueTypeOK'
  BY <1>1, QueueKept DEF Continue
<1>3. /\ call[c] \in Call /\ call' = [call EXCEPT ![c] = left]
      /\ UNCHANGED <<open, selected, shown, stored, vote, named>>
      /\ marked' \in {marked, call[c].candidate}
  BY <1>1 DEF SessionTyped, Continue, homeVars
<1> DEFINE t == call[c].tab
<1>4. /\ call[c].tab \in Tabs /\ call[c].kind \in {"request", "verify"} /\ call[c].candidate \in Candidates
  BY <1>3 DEF Call
<1>5. \A d \in Slots, s \in Tabs : Own(d, s)' <=> d # c /\ Own(d, s)
  BY <1>1, <1>3 DEF Own, SessionTyped
<1>6. ASSUME NEW s \in Tabs, ~Own(c, s)
      PROVE  TabFine(s)' /\ dialog'[s] = dialog[s] /\ dialog'[s] \in Dialog
  <2>1. dialog'[s] = dialog[s]
    BY <1>1, <1>4, <1>6 DEF Continue, Own, SessionTyped
  <2>2. \A d \in Slots : Own(d, s) => call'[d] = call[d]
    BY <1>1, <1>3, <1>6 DEF SessionTyped
  <2> QED BY <1>1, <1>3, <1>5, <1>6, <2>1, <2>2, TabKept DEF SessionTyped
<1>7. ASSUME NEW s \in Tabs, Own(c, s)
      PROVE  TabFine(s)' /\ dialog'[s] \in Dialog
  <2>1. /\ s = call[c].tab /\ dialog[s] \in Dialog /\ dialog[s].step # "closed"
        /\ dialog'[s] = Shows(dialog[s], call[c].kind, status)
    BY <1>1, <1>3, <1>7 DEF Continue, Own, SessionTyped, TabFine
  <2>2. \A d \in Slots : ~Own(d, s)'
    BY <1>1, <1>5, <1>7 DEF TabFine
  <2>3. /\ dialog'[s] \in Dialog /\ dialog'[s].loading = FALSE /\ dialog'[s].step # "closed"
        /\ dialog'[s].step = "email" /\ dialog'[s].captcha = "used" =>
             dialog[s].step = "email" /\ dialog[s].captcha = "used" /\ call[c].kind # "request"
    <3>1. PICK kind \in {"request", "verify"} : kind = call[c].kind
      BY <1>4
    <3>2. PICK d \in Dialog : d = dialog[s]
      BY <2>1
    <3>3. d.step # "closed" /\ dialog'[s] = Shows(d, kind, status)
      BY <2>1, <3>1, <3>2
    <3>4. /\ Shows(d, kind, status) \in Dialog
          /\ Shows(d, kind, status).loading = FALSE
          /\ Shows(d, kind, status).step # "closed"
          /\ Shows(d, kind, status).step = "email" /\ Shows(d, kind, status).captcha = "used" =>
               d.step = "email" /\ d.captcha = "used" /\ kind # "request"
      BY <3>3, ShowsTyped
    <3> QED BY <3>1, <3>2, <3>3, <3>4
  <2>4. ~(dialog'[s].step = "email" /\ dialog'[s].captcha = "used")
    BY <1>1, <1>7, <2>3 DEF TabFine
  <2> QED BY <1>1, <1>3, <2>1, <2>2, <2>3, <2>4 DEF TabFine, SessionTyped
<1>8. dialog' \in [Tabs -> Dialog]
  <2>1. dialog' \in [Tabs -> Dialog] <=> \A s \in Tabs : dialog'[s] \in Dialog
    BY <1>1 DEF Continue, SessionTyped
  <2> QED BY <1>6, <1>7, <2>1
<1>9. SessionTyped'
  BY <1>1, <1>3, <1>4, <1>8 DEF SessionTyped
<1> QED BY <1>2, <1>6, <1>7, <1>9 DEF Typed

\* The browser.
LEMMA BrowserTyped ==
    ASSUME Typed, NEW t \in Tabs, Voter(t) \/ VotingTurns(t)
    PROVE  Typed'
<1>1. SessionTyped /\ TabFine(t) /\ dialog[t] \in Dialog
  BY DEF Typed, SessionTyped
<1>2. Closed \in Dialog /\ Mounted \in Dialog
  BY DEF Closed, Mounted, Dialog
<1>3. ASSUME NEW d \in {Closed, Mounted}, call' \in [Slots -> Call \cup {None}],
             dialog' = [dialog EXCEPT ![t] = d]
      PROVE  dialog' \in [Tabs -> Dialog]
  BY <1>1, <1>2, <1>3 DEF SessionTyped
<1>4. Orphaned(t) \in [Slots -> Call \cup {None}]
  <2>1. ASSUME NEW c \in Slots, call[c] # None
        PROVE  [call[c] EXCEPT !.owner = "closed"] \in Call
    <3>1. call[c] \in Call
      BY <1>1, <2>1 DEF SessionTyped
    <3> QED BY <3>1 DEF Call
  <2>2. \A c \in Slots : call[c] \in Call \cup {None}
    BY <1>1 DEF SessionTyped
  <2> QED BY <2>1, <2>2 DEF Orphaned
<1>5. CASE Open(t)
  <2>1. \A c \in Slots : ~Own(c, t)
    BY <1>1, <1>5 DEF Open, TabFine
  <2>2. PICK x \in Candidates : selected' = [selected EXCEPT ![t] = x]
    BY <1>5 DEF Open
  <2>3. /\ dialog' = [dialog EXCEPT ![t] = Mounted]
        /\ UNCHANGED <<open, marked, shown, call, stored, vote, named, queueVars>>
    BY <1>5 DEF Open
  <2>4. call' = Orphaned(t)
    <3>1. \A c \in Slots : call[c] # None => ~(call[c].tab = t /\ call[c].owner = "dialog")
      BY <2>1 DEF Own
    <3>2. Orphaned(t) = [c \in Slots |-> call[c]]
      BY <3>1 DEF Orphaned
    <3>3. call = [c \in Slots |-> call[c]]
      BY <1>1 DEF SessionTyped
    <3> QED BY <2>3, <3>2, <3>3
  <2>5. SessionTyped'
    BY <1>1, <1>2, <2>2, <2>3 DEF SessionTyped
  <2>6. selected'[t] # None /\ \A s \in Tabs : s # t => selected'[s] = selected[s]
    BY <1>1, <2>2 DEF SessionTyped
  <2> QED BY <2>3, <2>4, <2>5, <2>6, DialogTurns
<1>6. CASE Captcha(t)
  <2>1. PICK token \in {"fresh", "none"} : dialog' = [dialog EXCEPT ![t] = [dialog[t] EXCEPT !.captcha = token]]
    BY <1>6 DEF Captcha
  <2>2. /\ [dialog[t] EXCEPT !.captcha = token] \in Dialog
        /\ [dialog[t] EXCEPT !.captcha = token].loading = dialog[t].loading
        /\ [dialog[t] EXCEPT !.captcha = token].step = dialog[t].step
        /\ [dialog[t] EXCEPT !.captcha = token].captcha = token
    BY <1>1 DEF Dialog
  <2>3. /\ dialog[t].step = "email"
        /\ UNCHANGED <<homeVars, marked, shown, call, stored, vote, named, queueVars>>
    BY <1>6 DEF Captcha
  <2> QED BY <2>1, <2>2, <2>3, DialogMoves
<1>7. CASE GoBack(t)
  <2> DEFINE d == [dialog[t] EXCEPT !.step = "email", !.told = "nothing", !.captcha = "none"]
  <2>1. dialog' = [dialog EXCEPT ![t] = d]
    BY <1>7 DEF GoBack, TokenAfter
  <2>2. d \in Dialog /\ d.loading = dialog[t].loading /\ d.step = "email" /\ d.captcha = "none"
    BY <1>1 DEF Dialog
  <2>3. /\ dialog[t].step = "otp"
        /\ UNCHANGED <<homeVars, marked, shown, call, stored, vote, named, queueVars>>
    BY <1>7 DEF GoBack
  <2> HIDE DEF d
  <2> QED BY <2>1, <2>2, <2>3, DialogMoves
<1>8. CASE SubmitEmail(t)
  BY <1>8, SendTyped DEF SubmitEmail, CanRequest
<1>9. CASE EnterCode(t)
  <2>1. PICK k \in Codes : Send(t, "verify", k)
    BY <1>9 DEF EnterCode
  <2> QED BY <1>9, <2>1, SendTyped DEF EnterCode
<1>10. CASE Close(t)
  <2>1. SessionTyped'
    BY <1>1, <1>2, <1>4, <1>10 DEF Close, SessionTyped
  <2>2. /\ dialog' = [dialog EXCEPT ![t] = Closed] /\ call' = Orphaned(t)
        /\ UNCHANGED queueVars
    BY <1>10 DEF Close
  <2>3. \A s \in Tabs : s # t => selected'[s] = selected[s]
    BY <1>1, <1>10 DEF Close, SessionTyped
  <2>4. Closed # Mounted
    <3>1. Closed.step = "closed" /\ Mounted.step = "email"
      BY DEF Closed, Mounted
    <3> QED BY <3>1
  <2> QED BY <2>1, <2>2, <2>3, <2>4, DialogTurns
<1>11. CASE VotingTurns(t)
  <2>1. PICK d \in {Closed, Mounted} :
           dialog' = [dialog EXCEPT ![t] = d] /\ (d = Mounted => selected[t] # None)
    BY <1>11 DEF VotingTurns, Closed, Mounted
  <2>2. /\ open' \in [Tabs -> BOOLEAN] /\ call' = Orphaned(t)
        /\ UNCHANGED <<selected, marked, shown, stored, vote, named, queueVars>>
    BY <1>1, <1>11 DEF VotingTurns, SessionTyped
  <2>3. SessionTyped'
    BY <1>1, <1>2, <1>4, <2>1, <2>2 DEF SessionTyped
  <2> QED BY <2>1, <2>2, <2>3, DialogTurns
<1> QED BY <1>5, <1>6, <1>7, <1>8, <1>9, <1>10, <1>11 DEF Voter

\* What the server does with a call.
Serve(c) == Refuse(c) \/ RequestAfterVote(c) \/ RequestOTP(c) \/ VerifyVote(c) \/ RefuseCode(c)

\* A code is mailed by way of the queue, or directly.
LEMMA Mailing ==
    ASSUME NEW c \in Slots, RequestOTP(c)
    PROVE  \E k \in Codes : /\ named[k] = None
                            /\ named' = [named EXCEPT ![k] = call[c].candidate]
                            /\ stored' \in {None, [code |-> k, candidate |-> call[c].candidate]}
                            /\ \/ Enqueue(k)
                               \/ \E kept, mailed \in BOOLEAN : EnqueueDirect(k, kept, mailed)
<1>1. PICK k \in Codes :
         /\ \A j \in Codes : named[j] = None <=> j >= k
         /\ named' = [named EXCEPT ![k] = call[c].candidate]
         /\ \/ /\ \/ Enqueue(k)
                  \/ \E kept \in BOOLEAN : EnqueueDirect(k, kept, TRUE)
               /\ stored' = [code |-> k, candidate |-> call[c].candidate]
            \/ /\ \E kept, mailed \in BOOLEAN : EnqueueDirect(k, kept, mailed)
               /\ stored' = None
  BY DEF RequestOTP
<1>2. k >= k
  OBVIOUS
<1> QED BY <1>1, <1>2

LEMMA ServerTyped ==
    ASSUME Typed, NEW c \in Slots, Serve(c)
    PROVE  Typed'
<1>1. QueueTypeOK /\ SessionTyped /\ \A s \in Tabs : TabFine(s)
  BY DEF Typed
<1>2. /\ call[c] # None
      /\ \E status \in {"ok", "conflict", "invalid", "error"} : Respond(c, status)
      /\ UNCHANGED <<open, selected, dialog, marked, shown>>
  BY DEF Serve, Refuse, RequestAfterVote, RequestOTP, VerifyVote, RefuseCode, Arrived, homeVars
<1>3. /\ call' \in [Slots -> Call \cup {None}]
      /\ \A d \in Slots, s \in Tabs : /\ Own(d, s)' <=> Own(d, s)
                                      /\ Own(d, s) => call'[d].kind = call[d].kind
  BY <1>1, <1>2, Responded
<1>4. \A s \in Tabs : TabFine(s)'
  BY <1>1, <1>2, <1>3, TabKept
<1>5. CASE RequestOTP(c)
  <2>1. call[c].candidate \in Candidates
    BY <1>1, <1>2 DEF SessionTyped, Call
  <2>2. PICK k \in Codes : /\ named' = [named EXCEPT ![k] = call[c].candidate]
                           /\ stored' \in {None, [code |-> k, candidate |-> call[c].candidate]}
                           /\ \/ Enqueue(k)
                              \/ \E kept, mailed \in BOOLEAN : EnqueueDirect(k, kept, mailed)
    BY <1>5, Mailing
  <2>3. QueueTypeOK'
    BY <1>1, <2>2, DirectTyped, NextQueueTyped DEF QueueNext, Codes
  <2>4. vote' = vote
    BY <1>5 DEF RequestOTP
  <2>5. named' \in [Codes -> Candidates \cup {None}]
    BY <1>1, <2>1, <2>2 DEF SessionTyped
  <2>6. stored' \in [code : Codes, candidate : Candidates] \cup {None}
    BY <2>1, <2>2
  <2>7. SessionTyped'
    BY <1>1, <1>2, <1>3, <2>4, <2>5, <2>6 DEF SessionTyped
  <2> QED BY <1>4, <2>3, <2>7 DEF Typed
<1>6. CASE VerifyVote(c)
  <2>1. QueueTypeOK'
    BY <1>1, <1>6, QueueKept DEF VerifyVote
  <2>2. stored' = None /\ named' = named /\ vote' \in {vote, stored.candidate} /\ stored # None
    BY <1>6 DEF VerifyVote, Matches, CandidateOfVote
  <2>3. SessionTyped'
    BY <1>1, <1>2, <1>3, <2>2 DEF SessionTyped
  <2> QED BY <1>4, <2>1, <2>3 DEF Typed
<1>7. CASE Refuse(c) \/ RequestAfterVote(c) \/ RefuseCode(c)
  <2>1. UNCHANGED <<stored, vote, named, queueVars>>
    BY <1>7 DEF Refuse, RequestAfterVote, RefuseCode
  <2>2. QueueTypeOK'
    BY <1>1, <2>1, QueueKept
  <2>3. SessionTyped'
    BY <1>1, <1>2, <1>3, <2>1 DEF SessionTyped
  <2> QED BY <1>4, <2>2, <2>3 DEF Typed
<1> QED BY <1>5, <1>6, <1>7 DEF Serve

\* The steps by who takes them.
LEMMA Steps ==
    ASSUME [Next]_vars
    PROVE  \/ UNCHANGED vars
           \/ \E t \in Tabs : Voter(t) \/ VotingTurns(t)
           \/ \E c \in Slots : Answer(c) \/ GiveUp(c)
           \/ \E c \in Slots : Serve(c)
           \/ ExpireCode
           \/ WorkerNext /\ UNCHANGED sessionVars
BY DEF Next, Exchange, Serve

LEMMA EndTyped ==
    ASSUME Typed, NEW c \in Slots, Answer(c) \/ GiveUp(c)
    PROVE  Typed'
<1>1. call[c] # None /\ call[c] \in Call
  BY DEF Typed, SessionTyped, Answer, GiveUp
<1>2. CASE Answer(c)
  <2>1. call[c].status \in Answered /\ Continue(c, call[c].status, None)
    BY <1>1, <1>2 DEF Answer, Call, Answered
  <2> QED BY <1>1, <2>1, ContinueTyped
<1>3. CASE GiveUp(c)
  <2> DEFINE a == [call[c] EXCEPT !.owner = "gone"]
  <2>1. a \in Call /\ a.owner = "gone"
    BY <1>1 DEF Call
  <2>2. PICK left \in {None, a} : Continue(c, "error", left)
    BY <1>3 DEF GiveUp
  <2>3. left \in Call \cup {None} /\ (left # None => left.owner # "dialog") /\ "error" \in Answered
    BY <2>1, <2>2 DEF Answered
  <2> QED BY <1>1, <2>2, <2>3, ContinueTyped
<1> QED BY <1>2, <1>3

LEMMA NextTyped ==
    ASSUME Typed, [Next]_vars
    PROVE  Typed'
<1>1. QueueTypeOK /\ SessionTyped /\ \A s \in Tabs : TabFine(s)
  BY DEF Typed
<1>2. ASSUME UNCHANGED <<open, selected, dialog, marked, shown, call, vote, named>>,
             stored' \in {stored, None}, QueueTypeOK'
      PROVE  Typed'
  <2>1. SessionTyped'
    BY <1>1, <1>2 DEF SessionTyped
  <2>2. \A s \in Tabs : TabFine(s)'
    BY <1>1, <1>2 DEF TabFine, Own
  <2> QED BY <1>2, <2>1, <2>2 DEF Typed
<1>3. CASE UNCHANGED vars
  BY <1>1, <1>2, <1>3, QueueKept DEF vars
<1>4. CASE ExpireCode
  BY <1>1, <1>2, <1>4, QueueKept DEF ExpireCode
<1>5. CASE WorkerNext /\ UNCHANGED sessionVars
  BY <1>1, <1>2, <1>5, NextQueueTyped DEF QueueNext, sessionVars
<1> QED BY <1>3, <1>4, <1>5, Steps, BrowserTyped, EndTyped, ServerTyped

\* Dialogs, calls and codes have their types, and a dialog waits exactly while a call of
\* its own is under way, whatever happens to calls and dialogs (VoteModal).
THEOREM TypesHold == Spec => []TypeOK
<1>1. Typed => TypeOK
  BY DEF Typed, SessionTyped, TabFine, Own, TypeOK
<1> QED BY <1>1, InitTyped, NextTyped, PTL DEF Spec

\* When the form can be submitted, its captcha token was never sent, with any number of
\* tabs and calls (VoteModal).
THEOREM CaptchaSentOnce == Spec => []CaptchaUsedOnce
<1>1. Typed => CaptchaUsedOnce
  BY DEF Typed, SessionTyped, TabFine, CaptchaUsedOnce, CanRequest, Dialog
<1> QED BY <1>1, InitTyped, NextTyped, PTL DEF Spec

-----------------------------------------------------------------------------
(* Nobody is told of a vote without one on record: no answer tells of it, on its way either. *)

Truth ==
    vote = None => /\ marked = None
                   /\ \A t \in Tabs : shown[t] = None /\ dialog[t].told \notin {"recorded", "already"}
                   /\ \A c \in Slots : call[c] # None => ~Marks(call[c].kind, call[c].status)

LEMMA InitTruth == Init => Truth
BY DEF Init, Truth, Closed

\* A step that creates no vote and no mark, and no call that tells of a vote.
LEMMA TruthKept ==
    ASSUME Truth, vote' = vote,
           vote = None =>
             /\ marked' = marked
             /\ \A t \in Tabs : /\ shown'[t] \in {shown[t], marked}
                                /\ dialog'[t].told \in {dialog[t].told, "nothing", "failure"}
             /\ \A c \in Slots : call'[c] # None =>
                  \/ call[c] # None /\ call'[c].kind = call[c].kind /\ call'[c].status = call[c].status
                  \/ ~Marks(call'[c].kind, call'[c].status)
    PROVE  Truth'
<1> SUFFICES ASSUME vote = None
             PROVE  /\ marked' = None
                    /\ \A t \in Tabs : shown'[t] = None /\ dialog'[t].told \notin {"recorded", "already"}
                    /\ \A c \in Slots : call'[c] # None => ~Marks(call'[c].kind, call'[c].status)
  BY DEF Truth, Marks, IsConflict
<1> QED BY DEF Truth

LEMMA BrowserTruth ==
    ASSUME Typed, Truth, NEW t \in Tabs, Voter(t) \/ VotingTurns(t)
    PROVE  Truth'
<1>1. SessionTyped
  BY DEF Typed
<1>2. vote' = vote /\ marked' = marked
  BY DEF Voter, VotingTurns, Open, Captcha, SubmitEmail, EnterCode, Send, GoBack, Close, homeVars
<1>3. \A s \in Tabs : shown'[s] \in {shown[s], marked}
  BY <1>1 DEF SessionTyped, Voter, VotingTurns, Open, Captcha, SubmitEmail, EnterCode, Send, GoBack, Close
<1>4. ASSUME NEW s \in Tabs
      PROVE  dialog'[s].told \in {dialog[s].told, "nothing", "failure"}
  <2>1. dialog[s] \in Dialog /\ dialog[t] \in Dialog
    BY <1>1 DEF SessionTyped
  <2>2. Closed.told = "nothing" /\ Mounted.told = "nothing"
    BY DEF Closed, Mounted
  <2>3. CASE Open(t) \/ Close(t) \/ VotingTurns(t)
    BY <1>1, <2>2, <2>3 DEF Open, Close, VotingTurns, SessionTyped
  <2>4. CASE Captcha(t)
    <3>1. PICK token \in {"fresh", "none"} :
             dialog' = [dialog EXCEPT ![t] = [dialog[t] EXCEPT !.captcha = token]]
      BY <2>4 DEF Captcha
    <3>2. [dialog[t] EXCEPT !.captcha = token].told = dialog[t].told
      BY <2>1 DEF Dialog
    <3> QED BY <1>1, <3>1, <3>2 DEF SessionTyped
  <2>5. ASSUME NEW captcha, NEW step, NEW loading,
               dialog' = [dialog EXCEPT ![t] = [dialog[t] EXCEPT !.captcha = captcha, !.step = step,
                                                   !.loading = loading, !.told = "nothing"]]
        PROVE  dialog'[s].told \in {dialog[s].told, "nothing", "failure"}
    <3>1. [dialog[t] EXCEPT !.captcha = captcha, !.step = step,
                            !.loading = loading, !.told = "nothing"].told = "nothing"
      BY <2>1 DEF Dialog
    <3> QED BY <1>1, <2>5, <3>1 DEF SessionTyped
  <2>6. CASE GoBack(t)
    <3>1. [dialog[t] EXCEPT !.step = "email", !.told = "nothing", !.captcha = TokenAfter(@)].told = "nothing"
      BY <2>1 DEF Dialog
    <3> QED BY <1>1, <2>6, <3>1 DEF GoBack, SessionTyped
  <2>7. ASSUME NEW kind, NEW code, Send(t, kind, code)
        PROVE  dialog'[s].told \in {dialog[s].told, "nothing", "failure"}
    <3>1. [dialog[t] EXCEPT !.loading = TRUE, !.told = "nothing",
                            !.captcha = IF kind = "request" THEN "used" ELSE @].told = "nothing"
      BY <2>1 DEF Dialog
    <3> QED BY <1>1, <2>7, <3>1 DEF Send, SessionTyped
  <2> QED BY <2>3, <2>4, <2>6, <2>7 DEF Voter, SubmitEmail, EnterCode
<1>5. ASSUME NEW c \in Slots, call'[c] # None
      PROVE  \/ call[c] # None /\ call'[c].kind = call[c].kind /\ call'[c].status = call[c].status
             \/ ~Marks(call'[c].kind, call'[c].status)
  <2>1. CASE call' = Orphaned(t)
    <3>1. call[c] # None /\ call[c] \in Call
      BY <1>1, <1>5, <2>1 DEF Orphaned, SessionTyped
    <3>2. call'[c] \in {call[c], [call[c] EXCEPT !.owner = "closed"]}
      BY <2>1 DEF Orphaned
    <3>3. /\ [call[c] EXCEPT !.owner = "closed"].kind = call[c].kind
          /\ [call[c] EXCEPT !.owner = "closed"].status = call[c].status
      BY <3>1 DEF Call
    <3> QED BY <3>1, <3>2, <3>3
  <2>2. ASSUME NEW kind, NEW code, Send(t, kind, code)
        PROVE  \/ call[c] # None /\ call'[c] = call[c]
               \/ call'[c].status = "pending"
    BY <1>1, <1>5, <2>2 DEF Send, SessionTyped
  <2>3. CASE UNCHANGED call
    BY <1>5, <2>3
  <2> QED BY <2>1, <2>2, <2>3 DEF Voter, VotingTurns, Open, Captcha, SubmitEmail, EnterCode, GoBack, Close,
                                Marks, IsConflict
<1> QED BY <1>2, <1>3, <1>4, <1>5, TruthKept

LEMMA ContinueTruth ==
    ASSUME Typed, Truth, NEW c \in Slots, NEW status \in Answered, NEW left,
           call[c] # None, Continue(c, status, left),
           Marks(call[c].kind, status) => Marks(call[c].kind, call[c].status),
           left # None => left.kind = call[c].kind /\ left.status = call[c].status
    PROVE  Truth'
<1>1. SessionTyped /\ \A s \in Tabs : TabFine(s)
  BY DEF Typed
<1>2. call[c].kind \in {"request", "verify"}
  BY <1>1 DEF SessionTyped, Call
<1>3. vote' = vote /\ shown' = shown
  BY DEF Continue
<1>4. ASSUME vote = None
      PROVE  /\ marked' = marked
             /\ \A d \in Slots : call'[d] # None =>
                  call[d] # None /\ call'[d].kind = call[d].kind /\ call'[d].status = call[d].status
             /\ \A s \in Tabs : dialog'[s].told \notin {"recorded", "already"}
  <2>1. ~Marks(call[c].kind, status)
    BY <1>4 DEF Truth
  <2>2. marked' = marked
    BY <2>1 DEF Continue
  <2>3. call' = [call EXCEPT ![c] = left]
    BY DEF Continue
  <2>4. ASSUME NEW s \in Tabs
        PROVE  dialog'[s].told \notin {"recorded", "already"}
    <3>1. dialog[s] \in Dialog /\ dialog[s].told \notin {"recorded", "already"}
      BY <1>1, <1>4 DEF SessionTyped, Truth
    <3>2. CASE dialog'[s] = dialog[s]
      BY <3>1, <3>2
    <3>3. CASE dialog'[s] # dialog[s]
      <4>1. Own(c, s) /\ dialog'[s] = Shows(dialog[s], call[c].kind, status)
        BY <1>1, <3>3 DEF Continue, Own, SessionTyped
      <4>2. dialog[s].step # "closed"
        BY <1>1, <4>1 DEF TabFine
      <4>3. Shows(dialog[s], call[c].kind, status).told \in {"recorded", "already"} =>
              Marks(call[c].kind, status)
        <5>1. PICK kind \in {"request", "verify"} : kind = call[c].kind
          BY <1>2
        <5>2. PICK d \in Dialog : d = dialog[s]
          BY <3>1
        <5>3. Shows(d, kind, status).told \in {"recorded", "already"} => Marks(kind, status)
          BY <4>2, <5>2, ShowsTyped
        <5> QED BY <5>1, <5>2, <5>3
      <4> QED BY <2>1, <4>1, <4>3
    <3> QED BY <3>2, <3>3
  <2> QED BY <1>1, <2>2, <2>3, <2>4 DEF SessionTyped
<1>5. ASSUME vote = None
      PROVE  /\ marked' = None
             /\ \A s \in Tabs : shown'[s] = None /\ dialog'[s].told \notin {"recorded", "already"}
             /\ \A d \in Slots : call'[d] # None => ~Marks(call'[d].kind, call'[d].status)
  <2>1. \A d \in Slots : call'[d] # None => ~Marks(call[d].kind, call[d].status)
    BY <1>4, <1>5 DEF Truth
  <2>2. \A d \in Slots : call'[d] # None => ~Marks(call'[d].kind, call'[d].status)
    BY <1>4, <1>5, <2>1
  <2> QED BY <1>3, <1>4, <1>5, <2>2 DEF Truth
<1> QED BY <1>3, <1>5 DEF Truth, Marks, IsConflict

LEMMA ServerTruth ==
    ASSUME Typed, Truth, NEW c \in Slots, Serve(c)
    PROVE  Truth'
<1>1. SessionTyped /\ call[c] # None
  BY DEF Typed, Serve, Refuse, RequestAfterVote, RequestOTP, VerifyVote, RefuseCode, Arrived
<1>2. PICK status \in {"ok", "conflict", "invalid", "error"} :
         /\ Respond(c, status)
         /\ Marks(call[c].kind, status) => vote' # None
  <2>1. CASE Refuse(c)
    BY <2>1 DEF Refuse, Marks, IsConflict
  <2>2. CASE RequestAfterVote(c)
    BY <2>2 DEF RequestAfterVote
  <2>3. CASE RequestOTP(c)
    BY <2>3 DEF RequestOTP, Arrived, Marks, IsConflict
  <2>4. CASE VerifyVote(c)
    <3>1. stored.candidate # None
      BY <1>1, <2>4 DEF VerifyVote, Matches, SessionTyped
    <3> QED BY <2>4, <3>1 DEF VerifyVote, CandidateOfVote, Marks, IsConflict
  <2>5. CASE RefuseCode(c)
    BY <2>5 DEF RefuseCode, Marks, IsConflict
  <2> QED BY <2>1, <2>2, <2>3, <2>4, <2>5 DEF Serve
<1>3. /\ UNCHANGED <<dialog, marked, shown>>
      /\ vote # None => vote' # None
  <2>1. UNCHANGED <<dialog, marked, shown>>
    BY DEF Serve, Refuse, RequestAfterVote, RequestOTP, VerifyVote, RefuseCode
  <2>2. vote # None => vote' # None
    BY DEF Serve, Refuse, RequestAfterVote, RequestOTP, VerifyVote, RefuseCode
  <2> QED BY <2>1, <2>2
<1>4. \A d \in Slots : call'[d] # None =>
         /\ call[d] # None /\ call'[d].kind = call[d].kind
         /\ call'[d].status = IF d = c THEN status ELSE call[d].status
  BY <1>1, <1>2, Responded
<1>5. ASSUME vote' = None
      PROVE  /\ marked' = None
             /\ \A s \in Tabs : shown'[s] = None /\ dialog'[s].told \notin {"recorded", "already"}
             /\ \A d \in Slots : call'[d] # None => ~Marks(call'[d].kind, call'[d].status)
  <2>1. vote = None
    BY <1>3, <1>5
  <2>2. ASSUME NEW d \in Slots, call'[d] # None
        PROVE  ~Marks(call'[d].kind, call'[d].status)
    <3>1. CASE d = c
      BY <1>2, <1>4, <1>5, <2>2, <3>1
    <3>2. CASE d # c
      BY <1>4, <2>1, <2>2, <3>2 DEF Truth
    <3> QED BY <3>1, <3>2
  <2> QED BY <1>3, <2>1, <2>2 DEF Truth
<1> QED BY <1>5 DEF Truth, Marks, IsConflict

LEMMA NextTruth ==
    ASSUME Typed, Truth, [Next]_vars
    PROVE  Truth'
<1>1. CASE UNCHANGED <<dialog, marked, shown, call, vote>>
  BY <1>1 DEF Truth, Marks, IsConflict
<1>2. ASSUME NEW c \in Slots, Answer(c) \/ GiveUp(c)
      PROVE  Truth'
  <2>1. call[c] # None /\ call[c] \in Call
    BY <1>2 DEF Typed, SessionTyped, Answer, GiveUp
  <2>2. CASE Answer(c)
    <3>1. call[c].status \in Answered /\ Continue(c, call[c].status, None)
      BY <2>1, <2>2 DEF Answer, Call, Answered
    <3> QED BY <2>1, <3>1, ContinueTruth
  <2>3. CASE GiveUp(c)
    <3> DEFINE a == [call[c] EXCEPT !.owner = "gone"]
    <3>1. a.kind = call[c].kind /\ a.status = call[c].status
      BY <2>1 DEF Call
    <3>2. PICK left \in {None, a} : Continue(c, "error", left)
      BY <2>3 DEF GiveUp
    <3>3. /\ left # None => left.kind = call[c].kind /\ left.status = call[c].status
          /\ "error" \in Answered /\ ~Marks(call[c].kind, "error")
      BY <3>1, <3>2 DEF Answered, Marks, IsConflict
    <3> QED BY <2>1, <3>2, <3>3, ContinueTruth
  <2> QED BY <1>2, <2>2, <2>3
<1> QED BY <1>1, <1>2, Steps, BrowserTruth, ServerTruth DEF vars, ExpireCode, sessionVars

\* Nobody is told, shown or remembered to have voted without a vote on record, whatever
\* calls get lost, come late or outlive their dialog (VoteModal, Home).
THEOREM TruthTold == Spec => []ToldTruth
<1>1. Truth => ToldTruth
  BY DEF Truth, ToldTruth
<1> QED BY <1>1, InitTyped, NextTyped, InitTruth, NextTruth, PTL DEF Spec

-----------------------------------------------------------------------------
(* The vote is the one mailed: what is stored agrees with the mail of its code, and only
   mailed codes are entered. *)

Mailed ==
    /\ stored # None => stored.candidate = named[stored.code]
    /\ \A c \in Slots : call[c] # None /\ call[c].kind = "verify" =>
         call[c].code \in Codes /\ mails[call[c].code] > 0

LEMMA InitMailed == Init => Mailed
BY DEF Init, Mailed

LEMMA MailsKept ==
    ASSUME QueueTypeOK, \/ [QueueNext]_queueVars
                        \/ \E t \in Tasks, kept, mailed \in BOOLEAN : EnqueueDirect(t, kept, mailed)
    PROVE  \A k \in Codes : mails'[k] >= mails[k]
<1>1. \A k \in Codes : mails[k] \in Nat
  BY DEF QueueTypeOK, Codes
<1>2. CASE UNCHANGED mails
  BY <1>1, <1>2
<1>3. ASSUME NEW t \in Tasks, Deliver(t)
      PROVE  \A k \in Codes : mails'[k] >= mails[k]
  BY <1>1, <1>3 DEF Deliver, QueueTypeOK, Codes
<1>4. UNCHANGED mails \/ \E t \in Tasks : Deliver(t)
  BY QueueSteps DEF queueVars, Enqueue, EnqueueDirect, Take, SmtpAccepts, Succeed, SmtpFails, Timeout,
                    LooseEnds, WorkerDies, Restart
<1> QED BY <1>2, <1>3, <1>4

\* A step that stores no code and brings no call with a code.
LEMMA MailedKept ==
    ASSUME QueueTypeOK, QueueTypeOK', Mailed, \A k \in Codes : mails'[k] >= mails[k],
           stored' \in {stored, None}, named' = named,
           \A c \in Slots : call'[c] # None =>
             \/ /\ call[c] # None /\ call'[c].kind = call[c].kind /\ call'[c].code = call[c].code
             \/ call'[c].kind = "request"
             \/ call'[c].code \in Codes /\ mails[call'[c].code] > 0
    PROVE  Mailed'
<1>1. \A k \in Codes : mails[k] \in Nat /\ mails'[k] \in Nat
  BY DEF QueueTypeOK, Codes
<1>2. stored' # None => stored'.candidate = named'[stored'.code]
  BY DEF Mailed
<1>3. ASSUME NEW c \in Slots, call'[c] # None, call'[c].kind = "verify"
      PROVE  call'[c].code \in Codes /\ mails'[call'[c].code] > 0
  <2>1. call'[c].code \in Codes /\ mails[call'[c].code] > 0
    BY <1>3 DEF Mailed
  <2>2. PICK k \in Codes : k = call'[c].code
    BY <2>1
  <2>3. mails[k] > 0 /\ mails'[k] >= mails[k] /\ mails[k] \in Nat /\ mails'[k] \in Nat
    BY <1>1, <2>1, <2>2
  <2>4. mails'[k] > 0
    BY <2>3
  <2> QED BY <2>2, <2>4
<1> QED BY <1>2, <1>3 DEF Mailed

LEMMA BrowserMailed ==
    ASSUME Typed, Typed', Mailed, NEW t \in Tabs, Voter(t) \/ VotingTurns(t)
    PROVE  Mailed'
<1>1. QueueTypeOK /\ QueueTypeOK' /\ SessionTyped
  BY DEF Typed
<1>2. UNCHANGED <<stored, named, queueVars>>
  BY DEF Voter, VotingTurns, Open, Captcha, SubmitEmail, EnterCode, Send, GoBack, Close
<1>3. \A k \in Codes : mails'[k] >= mails[k]
  BY <1>1, <1>2, MailsKept
<1>4. ASSUME NEW c \in Slots, call'[c] # None
      PROVE  \/ /\ call[c] # None /\ call'[c].kind = call[c].kind /\ call'[c].code = call[c].code
             \/ call'[c].kind = "request"
             \/ call'[c].code \in Codes /\ mails[call'[c].code] > 0
  <2>1. CASE call' = Orphaned(t)
    <3>1. call[c] # None /\ call[c] \in Call
      BY <1>1, <1>4, <2>1 DEF Orphaned, SessionTyped
    <3>2. call'[c] \in {call[c], [call[c] EXCEPT !.owner = "closed"]}
      BY <2>1 DEF Orphaned
    <3>3. /\ [call[c] EXCEPT !.owner = "closed"].kind = call[c].kind
          /\ [call[c] EXCEPT !.owner = "closed"].code = call[c].code
      BY <3>1 DEF Call
    <3> QED BY <3>1, <3>2, <3>3
  <2>2. ASSUME NEW kind, NEW code, Send(t, kind, code)
        PROVE  \/ call[c] # None /\ call'[c] = call[c]
               \/ call'[c].kind = kind /\ call'[c].code = code
    BY <1>1, <1>4, <2>2 DEF Send, SessionTyped
  <2>3. CASE UNCHANGED call
    BY <1>4, <2>3
  <2>4. CASE SubmitEmail(t)
    BY <2>2, <2>4 DEF SubmitEmail
  <2>5. CASE EnterCode(t)
    <3>1. PICK k \in Codes : mails[k] > 0 /\ Send(t, "verify", k)
      BY <2>5 DEF EnterCode
    <3> QED BY <2>2, <3>1
  <2> QED BY <2>1, <2>3, <2>4, <2>5 DEF Voter, VotingTurns, Open, Captcha, GoBack, Close
<1> QED BY <1>1, <1>2, <1>3, <1>4, MailedKept

LEMMA ServerMailed ==
    ASSUME Typed, Typed', Mailed, NEW c \in Slots, Serve(c)
    PROVE  Mailed'
<1>1. QueueTypeOK /\ QueueTypeOK' /\ SessionTyped /\ call[c] # None
  BY DEF Typed, Serve, Refuse, RequestAfterVote, RequestOTP, VerifyVote, RefuseCode, Arrived
<1>2. \A d \in Slots : call'[d] # None =>
         call[d] # None /\ call'[d].kind = call[d].kind /\ call'[d].code = call[d].code
  <2>1. PICK status \in {"ok", "conflict", "invalid", "error"} : Respond(c, status)
    BY DEF Serve, Refuse, RequestAfterVote, RequestOTP, VerifyVote, RefuseCode
  <2> QED BY <1>1, <2>1, Responded
<1>3. CASE RequestOTP(c)
  <2>1. PICK k \in Codes : /\ named' = [named EXCEPT ![k] = call[c].candidate]
                           /\ stored' \in {None, [code |-> k, candidate |-> call[c].candidate]}
                           /\ \/ Enqueue(k)
                              \/ \E kept, mailed \in BOOLEAN : EnqueueDirect(k, kept, mailed)
    BY <1>3, Mailing
  <2>2. \A j \in Codes : mails'[j] >= mails[j] /\ mails[j] \in Nat /\ mails'[j] \in Nat
    BY <1>1, <2>1, MailsKept DEF QueueNext, Codes, QueueTypeOK
  <2>3. stored' # None => stored'.candidate = named'[stored'.code]
    BY <1>1, <2>1 DEF SessionTyped
  <2>4. ASSUME NEW d \in Slots, call'[d] # None, call'[d].kind = "verify"
        PROVE  call'[d].code \in Codes /\ mails'[call'[d].code] > 0
    <3>1. call'[d].code \in Codes /\ mails[call'[d].code] > 0
      BY <1>2, <2>4 DEF Mailed
    <3>2. PICK j \in Codes : j = call'[d].code
      BY <3>1
    <3>3. mails[j] > 0 /\ mails'[j] >= mails[j] /\ mails[j] \in Nat /\ mails'[j] \in Nat
      BY <2>2, <3>1, <3>2
    <3>4. mails'[j] > 0
      BY <3>3
    <3> QED BY <3>2, <3>4
  <2> QED BY <2>3, <2>4 DEF Mailed
<1>4. CASE Refuse(c) \/ RequestAfterVote(c) \/ VerifyVote(c) \/ RefuseCode(c)
  <2>1. UNCHANGED <<named, queueVars>> /\ stored' \in {stored, None}
    BY <1>4 DEF Refuse, RequestAfterVote, VerifyVote, RefuseCode
  <2>2. \A k \in Codes : mails'[k] >= mails[k]
    BY <1>1, <2>1, MailsKept
  <2> QED BY <1>1, <1>2, <2>1, <2>2, MailedKept
<1> QED BY <1>3, <1>4 DEF Serve

LEMMA NextMailed ==
    ASSUME Typed, Typed', Mailed, [Next]_vars
    PROVE  Mailed'
<1>1. QueueTypeOK /\ QueueTypeOK' /\ SessionTyped
  BY DEF Typed
<1>2. ASSUME UNCHANGED <<call, named>>, stored' \in {stored, None}, [QueueNext]_queueVars
      PROVE  Mailed'
  BY <1>1, <1>2, MailsKept, MailedKept
<1>3. CASE UNCHANGED vars
  BY <1>2, <1>3 DEF vars
<1>4. CASE ExpireCode
  BY <1>2, <1>4 DEF ExpireCode
<1>5. CASE WorkerNext /\ UNCHANGED sessionVars
  BY <1>2, <1>5 DEF QueueNext, sessionVars
<1>6. ASSUME NEW c \in Slots, Answer(c) \/ GiveUp(c)
      PROVE  Mailed'
  <2>1. call[c] # None /\ call[c] \in Call
    BY <1>1, <1>6 DEF SessionTyped, Answer, GiveUp
  <2>2. PICK left \in {None, [call[c] EXCEPT !.owner = "gone"]} :
           call' = [call EXCEPT ![c] = left] /\ UNCHANGED <<stored, named, queueVars>>
    BY <1>6 DEF Answer, GiveUp, Continue
  <2>3. left # None => left.kind = call[c].kind /\ left.code = call[c].code
    BY <2>1, <2>2 DEF Call
  <2>4. \A d \in Slots : call'[d] # None =>
           call[d] # None /\ call'[d].kind = call[d].kind /\ call'[d].code = call[d].code
    BY <1>1, <2>1, <2>2, <2>3 DEF SessionTyped
  <2> QED BY <1>1, <2>2, <2>4, MailsKept, MailedKept
<1> QED BY <1>3, <1>4, <1>5, <1>6, Steps, BrowserMailed, ServerMailed

\* A vote is only ever recorded for the candidate that the mail of the entered code named,
\* with any number of tabs, calls and codes (GenerateAndStore, Verify).
THEOREM VotedAsMailed == Spec => VoteAsMailed
<1>1. ASSUME Mailed, [Next]_vars
      PROVE  [vote' # vote => \E c \in Slots : /\ Arrived(c, "verify")
                                               /\ vote' = named[call[c].code]
                                               /\ mails[call[c].code] > 0]_vars
  <2> SUFFICES ASSUME vote' # vote
               PROVE  \E c \in Slots : /\ Arrived(c, "verify")
                                       /\ vote' = named[call[c].code]
                                       /\ mails[call[c].code] > 0
    OBVIOUS
  <2>1. PICK c \in Slots : VerifyVote(c)
    <3>1. \A t \in Tabs : ~(Voter(t) \/ VotingTurns(t))
      BY DEF Voter, VotingTurns, Open, Captcha, SubmitEmail, EnterCode, Send, GoBack, Close
    <3>2. \A c \in Slots : ~(Answer(c) \/ GiveUp(c))
      BY DEF Answer, GiveUp, Continue
    <3>3. \A c \in Slots : ~(Refuse(c) \/ RequestAfterVote(c) \/ RequestOTP(c) \/ RefuseCode(c))
      BY DEF Refuse, RequestAfterVote, RequestOTP, RefuseCode
    <3>4. \E c \in Slots : Serve(c)
      BY <1>1, <3>1, <3>2, Steps DEF vars, ExpireCode, sessionVars
    <3> QED BY <3>3, <3>4 DEF Serve
  <2>2. Arrived(c, "verify") /\ Matches(c) /\ vote' = stored.candidate
    BY <2>1 DEF VerifyVote, CandidateOfVote
  <2>3. call[c].code = stored.code /\ stored.candidate = named[stored.code] /\ mails[call[c].code] > 0
    BY <1>1, <2>2 DEF Mailed, Matches, Arrived
  <2> QED BY <2>2, <2>3
<1> QED BY <1>1, InitTyped, NextTyped, InitMailed, NextMailed, PTL DEF Spec, VoteAsMailed

=============================================================================
