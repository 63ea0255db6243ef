------------------------------ MODULE VoteFlow ------------------------------
(***************************************************************************)
(* The two voter endpoints, POST /api/vote/request-otp and                 *)
(* POST /api/vote/verify, with the Redis keys and the tables they share,   *)
(* and the administrator operations that touch those tables.  Each HTTP    *)
(* request runs in its own goroutine (a Handler); one action is one call   *)
(* to Redis or MariaDB, so that any two requests interleave between calls. *)
(***************************************************************************)
EXTENDS EmailNormalize, FiniteSets

CONSTANTS
    Addresses,        \* e-mail addresses as clients write them
    Fingerprints, Candidates, IPs, Codes, Handlers,
    Asked,            \* the [email, fp, cand] that clients ever send
    NoIP,             \* the "" that gin returns for an unreadable address
    MaxOTPAttempts,   \* maxOTPAttempts, 6 in the code
    MaxVotesPerIP,    \* maxVotesPerIP, 5 in the code
    AttemptsCap,      \* bound of the model: no INCR beyond this value
    Faults,           \* whether calls fail, goroutines die and Redis restarts
    None

ASSUME AddressesType == Addresses \subseteq Address
ASSUME ToLowerKeeps ==
    \A a \in Addresses : \A i \in DOMAIN a.local : \A mark \in {"+", "."} :
        ToLower(a.local[i]) = mark <=> a.local[i] = mark
ASSUME AskedType    == Asked \subseteq [email : Addresses, fp : Fingerprints, cand : Candidates]
ASSUME AttemptsType == MaxOTPAttempts \in Nat \ {0, 1} /\ AttemptsCap \in Nat
ASSUME HandlersType == IsFiniteSet(Handlers)
ASSUME LimitType    == MaxVotesPerIP \in Nat
ASSUME FaultsType   == Faults \in BOOLEAN

\* Voters as the backend knows them, and what they ask for.
Emails  == {NormalizeEmail(a) : a \in Addresses}
Ballot  == [email : Emails, fp : Fingerprints, cand : Candidates]
Ballots == {[email |-> NormalizeEmail(b.email), fp |-> b.fp, cand |-> b.cand] : b \in Asked}

VARIABLES
    otp,        \* Redis otp:<email>: [code, cand, fp], or None
    attempts,   \* Redis otp_attempts:<email>, 0 when the key is absent
    expiring,   \* whether otp_attempts:<email> has a TTL
    blocked,    \* whether Redis otp_blocked:<email> exists
    votes,      \* the votes table: [email, fp, cand, ip]
    roll,       \* the candidates table: "new", "listed" or "gone"
    deleting,   \* candidates that some DeleteCandidate counted no vote for
    open,       \* what VotingSettingsService.IsVotingOpen answers now
    pc,         \* handler -> the call it makes next, "idle" when there is none
    req,        \* handler -> its local variables, None when idle
    acked       \* history: votes whose voter was told "Vote recorded"

redis == <<otp, attempts, expiring, blocked>>
db    == <<votes, roll, deleting>>
vars  == <<redis, db, open, pc, req, acked>>

OTPRecord == [code : Codes, cand : Candidates, fp : Fingerprints]
Vote      == [email : Emails, fp : Fingerprints, cand : Candidates, ip : IPs]
Request   == [email : Emails, fp : Fingerprints \cup {None},
              cand : Candidates \cup {None}, ip : IPs, code : Codes \cup {None}]

RequestSteps == {"checkEmail", "checkFingerprint", "checkIP", "candidateName",
                 "checkBlocked", "store", "enqueue", "unstore"}
VerifySteps  == {"checkLock", "fetch", "mismatch", "expire", "block", "clear",
                 "consume", "insert", "reply"}

ASSUME NoneIsNew == None \notin OTPRecord \cup Request

BallotOf(v) == [email |-> v.email, fp |-> v.fp, cand |-> v.cand]

-----------------------------------------------------------------------------
(* Mutated forms of the operators below: each is a bug the code could have. *)

FinishKeepsRequest(h) == pc' = [pc EXCEPT ![h] = "idle"] /\ UNCHANGED req
DuplicateEmail(r)     == \E v \in votes : v.email = r.email
NoForeignKey(c)       == TRUE
GateAtInsert(c)       == roll[c] = "listed" /\ open
ExhaustedOnce(n)      == n = MaxOTPAttempts
FirstIsZero(n)        == n = 0
SwapCandidate(r, s)   == [r EXCEPT !.fp = s.fp, !.cand = CHOOSE c \in Candidates : TRUE]
DuplicateIsSuccess(h) == pc' = [pc EXCEPT ![h] = "reply"] /\ UNCHANGED req

-----------------------------------------------------------------------------
(* Helpers. *)

Init ==
    /\ otp = [e \in Emails |-> None]
    /\ attempts = [e \in Emails |-> 0]
    /\ expiring = [e \in Emails |-> FALSE]
    /\ blocked = [e \in Emails |-> FALSE]
    /\ votes = {}
    /\ roll \in [Candidates -> {"new", "listed"}]
    /\ deleting = {}
    /\ open = TRUE
    /\ pc = [h \in Handlers |-> "idle"]
    /\ req = [h \in Handlers |-> None]
    /\ acked = {}

Goto(h, step) == pc' = [pc EXCEPT ![h] = step] /\ UNCHANGED req

\* The request is answered, with whatever status, and its goroutine ends.
Finish(h) == pc' = [pc EXCEPT ![h] = "idle"] /\ req' = [req EXCEPT ![h] = None]

HasVotedByEmail(e)       == \E v \in votes : v.email = e
HasVotedByFingerprint(f) == \E v \in votes : v.fp = f
CountVotesByIP(ip)       == Cardinality({v \in votes : v.ip = ip})

FirstAttempt(n)      == n = 1
AttemptsExhausted(n) == n >= MaxOTPAttempts

\* Fingerprint and candidate come from the stored record s, not from the client.
WithStored(r, s) == [r EXCEPT !.fp = s.fp, !.cand = s.cand]

\* The constraints of the votes table: UNIQUE on both columns, the foreign key
\* on candidate_id, and ON DELETE CASCADE.
Duplicate(r)     == HasVotedByEmail(r.email) \/ HasVotedByFingerprint(r.fp)
ForeignKey(c)    == roll[c] = "listed"
CascadeDelete(c) == {v \in votes : v.cand # c}

-----------------------------------------------------------------------------
(* POST /api/vote/request-otp *)

\* The gate, the body, the domain and the captcha are fine (a refusal changes
\* nothing): the handler enters PrepareOTPRequest.
RequestOTP(h) ==
    /\ pc[h] = "idle"
    /\ open
    /\ \E b \in Asked, ip \in IPs :
         req' = [req EXCEPT ![h] = [email |-> NormalizeEmail(b.email), fp |-> b.fp,
                                    cand |-> b.cand, ip |-> ip, code |-> None]]
    /\ pc' = [pc EXCEPT ![h] = "checkEmail"]
    /\ UNCHANGED <<redis, db, open, acked>>

CheckEmail(h) ==
    /\ pc[h] = "checkEmail"
    /\ IF HasVotedByEmail(req[h].email) THEN Finish(h) ELSE Goto(h, "checkFingerprint")
    /\ UNCHANGED <<redis, db, open, acked>>

CheckFingerprint(h) ==
    /\ pc[h] = "checkFingerprint"
    /\ IF HasVotedByFingerprint(req[h].fp) THEN Finish(h) ELSE Goto(h, "checkIP")
    /\ UNCHANGED <<redis, db, open, acked>>

CheckIP(h) ==
    /\ pc[h] = "checkIP"
    /\ IF req[h].ip # NoIP /\ CountVotesByIP(req[h].ip) >= MaxVotesPerIP
         THEN Finish(h)
         ELSE Goto(h, "candidateName")
    /\ UNCHANGED <<redis, db, open, acked>>

CandidateName(h) ==
    /\ pc[h] = "candidateName"
    /\ IF roll[req[h].cand] = "listed" THEN Goto(h, "checkBlocked") ELSE Finish(h)
    /\ UNCHANGED <<redis, db, open, acked>>

\* GenerateAndStore: draw the code, then ask Redis whether the e-mail is blocked.
CheckBlocked(h) ==
    /\ pc[h] = "checkBlocked"
    /\ IF blocked[req[h].email]
         THEN Finish(h)
         ELSE /\ \E c \in Codes : req' = [req EXCEPT ![h].code = c]
              /\ pc' = [pc EXCEPT ![h] = "store"]
    /\ UNCHANGED <<redis, db, open, acked>>

Store(h) ==
    /\ pc[h] = "store"
    /\ otp' = [otp EXCEPT ![req[h].email] =
                 [code |-> req[h].code, cand |-> req[h].cand, fp |-> req[h].fp]]
    /\ Goto(h, "enqueue")
    /\ UNCHANGED <<attempts, expiring, blocked, db, open, acked>>

\* Enqueue succeeds and the voter is told so, or queue and direct SMTP both fail.
Enqueue(h) ==
    /\ pc[h] = "enqueue"
    /\ Finish(h) \/ Goto(h, "unstore")
    /\ UNCHANGED <<redis, db, open, acked>>

Unstore(h) ==
    /\ pc[h] = "unstore"
    /\ otp' = [otp EXCEPT ![req[h].email] = None]
    /\ Finish(h)
    /\ UNCHANGED <<attempts, expiring, blocked, db, open, acked>>

-----------------------------------------------------------------------------
(* POST /api/vote/verify *)

VerifyVote(h) ==
    /\ pc[h] = "idle"
    /\ open
    /\ \E a \in Addresses, c \in Codes, ip \in IPs :
         req' = [req EXCEPT ![h] = [email |-> NormalizeEmail(a), fp |-> None, cand |-> None,
                                    ip |-> ip, code |-> c]]
    /\ pc' = [pc EXCEPT ![h] = "checkLock"]
    /\ UNCHANGED <<redis, db, open, acked>>

CheckLock(h) ==
    /\ pc[h] = "checkLock"
    /\ IF blocked[req[h].email] THEN Finish(h) ELSE Goto(h, "fetch")
    /\ UNCHANGED <<redis, db, open, acked>>

\* GET otp:<email> and the comparison, which is local.
Fetch(h) ==
    /\ pc[h] = "fetch"
    /\ LET s == otp[req[h].email] IN
         \/ s = None /\ Finish(h)
         \/ s # None /\ s.code # req[h].code /\ Goto(h, "mismatch")
         \/ /\ s # None
            /\ s.code = req[h].code
            /\ req' = [req EXCEPT ![h] = WithStored(req[h], s)]
            /\ pc' = [pc EXCEPT ![h] = "consume"]
    /\ UNCHANGED <<redis, db, open, acked>>

\* recordFailure: INCR, which creates the key without a TTL.
Mismatch(h) ==
    /\ pc[h] = "mismatch"
    /\ LET e == req[h].email
           n == attempts[e] + 1
       IN  /\ n <= AttemptsCap
           /\ attempts' = [attempts EXCEPT ![e] = n]
           /\ CASE FirstAttempt(n)      -> Goto(h, "expire")
                [] AttemptsExhausted(n) -> Goto(h, "block")
                [] OTHER                -> Finish(h)
    /\ UNCHANGED <<otp, expiring, blocked, db, open, acked>>

\* EXPIRE does nothing to a key that is gone.
Expire(h) ==
    /\ pc[h] = "expire"
    /\ expiring' = [expiring EXCEPT ![req[h].email] = attempts[req[h].email] > 0]
    /\ Finish(h)
    /\ UNCHANGED <<otp, attempts, blocked, db, open, acked>>

Block(h) ==
    /\ pc[h] = "block"
    /\ blocked' = [blocked EXCEPT ![req[h].email] = TRUE]
    /\ Goto(h, "clear")
    /\ UNCHANGED <<otp, attempts, expiring, db, open, acked>>

\* DEL otp:<email> otp_attempts:<email>, in one command.
DeleteKeys(e) ==
    /\ otp' = [otp EXCEPT ![e] = None]
    /\ attempts' = [attempts EXCEPT ![e] = 0]
    /\ expiring' = [expiring EXCEPT ![e] = FALSE]
    /\ UNCHANGED blocked

Clear(h) ==
    /\ pc[h] = "clear"
    /\ DeleteKeys(req[h].email)
    /\ Finish(h)
    /\ UNCHANGED <<db, open, acked>>

\* The code matched: its key and the counter are deleted, whatever they hold now.
Consume(h) ==
    /\ pc[h] = "consume"
    /\ DeleteKeys(req[h].email)
    /\ Goto(h, "insert")
    /\ UNCHANGED <<db, open, acked>>

NewVote(r) == [email |-> r.email, fp |-> r.fp, cand |-> r.cand, ip |-> r.ip]

RefuseDuplicate(h) == Finish(h)

InsertVote(h) ==
    /\ pc[h] = "insert"
    /\ \/ /\ Duplicate(req[h])
          /\ RefuseDuplicate(h)
          /\ UNCHANGED votes
       \/ /\ ~Duplicate(req[h])
          /\ ~ForeignKey(req[h].cand)
          /\ Finish(h)
          /\ UNCHANGED votes
       \/ /\ ~Duplicate(req[h])
          /\ ForeignKey(req[h].cand)
          /\ votes' = votes \cup {NewVote(req[h])}
          /\ Goto(h, "reply")
    /\ UNCHANGED <<redis, roll, deleting, open, acked>>

\* The payload goes to the hub (its failure is not fatal) and the voter gets 200.
Reply(h) ==
    /\ pc[h] = "reply"
    /\ acked' = acked \cup {NewVote(req[h])}
    /\ Finish(h)
    /\ UNCHANGED <<redis, db, open>>

-----------------------------------------------------------------------------
(* Faults: a failed call, a dead goroutine, a client that hung up (its       *)
(* context cancels the Redis calls but not InsertVote), a Redis restart.     *)

Fail(h) ==
    /\ Faults
    /\ pc[h] # "idle"
    /\ Finish(h)
    /\ UNCHANGED <<redis, db, open, acked>>

\* EXPIRE, SET and DEL whose errors the code does not look at.
LoseWrite(h) ==
    /\ Faults
    /\ \/ pc[h] \in {"unstore", "expire", "clear"} /\ Finish(h)
       \/ pc[h] = "block" /\ Goto(h, "clear")
       \/ pc[h] = "consume" /\ Goto(h, "insert")
    /\ UNCHANGED <<redis, db, open, acked>>

RedisRestart ==
    /\ Faults
    /\ otp' = [e \in Emails |-> None]
    /\ attempts' = [e \in Emails |-> 0]
    /\ expiring' = [e \in Emails |-> FALSE]
    /\ blocked' = [e \in Emails |-> FALSE]
    /\ UNCHANGED <<db, open, pc, req, acked>>

-----------------------------------------------------------------------------
(* TTLs, the gate and the administrator. *)

ExpireOTP(e) ==
    /\ otp[e] # None
    /\ otp' = [otp EXCEPT ![e] = None]
    /\ UNCHANGED <<attempts, expiring, blocked, db, open, pc, req, acked>>

ExpireAttempts(e) ==
    /\ expiring[e]
    /\ attempts' = [attempts EXCEPT ![e] = 0]
    /\ expiring' = [expiring EXCEPT ![e] = FALSE]
    /\ UNCHANGED <<otp, blocked, db, open, pc, req, acked>>

ExpireBlock(e) ==
    /\ blocked[e]
    /\ blocked' = [blocked EXCEPT ![e] = FALSE]
    /\ UNCHANGED <<otp, attempts, expiring, db, open, pc, req, acked>>

\* The administrator opens or closes voting, or ends_at passes.
OpenOrClose ==
    /\ open' = ~open
    /\ UNCHANGED <<redis, db, pc, req, acked>>

InsertCandidate(c) ==
    /\ roll[c] = "new"
    /\ roll' = [roll EXCEPT ![c] = "listed"]
    /\ UNCHANGED <<redis, votes, deleting, open, pc, req, acked>>

\* DeleteCandidate: the count, and in a statement of its own the DELETE.
CountBeforeDelete(c) ==
    /\ c \notin deleting
    /\ \A v \in votes : v.cand # c
    /\ deleting' = deleting \cup {c}
    /\ UNCHANGED <<redis, votes, roll, open, pc, req, acked>>

DeleteCandidate(c) ==
    /\ c \in deleting
    /\ deleting' = deleting \ {c}
    /\ IF roll[c] = "listed"
         THEN roll' = [roll EXCEPT ![c] = "gone"] /\ votes' = CascadeDelete(c)
         ELSE UNCHANGED <<roll, votes>>
    /\ UNCHANGED <<redis, open, pc, req, acked>>

DeleteFails(c) ==
    /\ Faults
    /\ c \in deleting
    /\ deleting' = deleting \ {c}
    /\ UNCHANGED <<redis, votes, roll, open, pc, req, acked>>

-----------------------------------------------------------------------------
Arrive(h) == RequestOTP(h) \/ VerifyVote(h)

Step(h) ==
    \/ CheckEmail(h) \/ CheckFingerprint(h) \/ CheckIP(h) \/ CandidateName(h)
    \/ CheckBlocked(h) \/ Store(h) \/ Enqueue(h) \/ Unstore(h)
    \/ CheckLock(h) \/ Fetch(h) \/ Mismatch(h) \/ Expire(h) \/ Block(h) \/ Clear(h)
    \/ Consume(h) \/ InsertVote(h) \/ Reply(h)

Time(e) == ExpireOTP(e) \/ ExpireAttempts(e) \/ ExpireBlock(e)

Admin(c) ==
    InsertCandidate(c) \/ CountBeforeDelete(c) \/ DeleteCandidate(c) \/ DeleteFails(c)

Next ==
    \/ \E h \in Handlers : Arrive(h) \/ Step(h) \/ Fail(h) \/ LoseWrite(h)
    \/ \E e \in Emails : Time(e)
    \/ \E c \in Candidates : Admin(c)
    \/ RedisRestart
    \/ OpenOrClose

Spec == Init /\ [][Next]_vars

\* The Go scheduler runs every goroutine, and every call returns.
FairSpec == Spec /\ \A h \in Handlers : WF_vars(Step(h))

-----------------------------------------------------------------------------
(* Properties. *)

\* Types; and a handler has local variables exactly while it serves a request.
TypeOK ==
    /\ otp \in [Emails -> OTPRecord \cup {None}]
    /\ attempts \in [Emails -> Nat]
    /\ expiring \in [Emails -> BOOLEAN]
    /\ blocked \in [Emails -> BOOLEAN]
    /\ votes \subseteq Vote
    /\ roll \in [Candidates -> {"new", "listed", "gone"}]
    /\ deleting \subseteq Candidates
    /\ open \in BOOLEAN
    /\ pc \in [Handlers -> {"idle"} \cup RequestSteps \cup VerifySteps]
    /\ req \in [Handlers -> Request \cup {None}]
    /\ acked \subseteq Vote
    /\ \A h \in Handlers : pc[h] = "idle" <=> req[h] = None

\* Each e-mail and each device fingerprint votes at most once (README.md), even
\* when several requests of one voter pass every check side by side.
OneVotePerVoter ==
    \A v, w \in votes : v.email = w.email \/ v.fp = w.fp => v = w

\* The addresses that have a key, and those of the mailbox of an address.
SpellingsOf == [e \in Emails |-> {a \in Addresses : NormalizeEmail(a) = e}]
MailboxOf   == [a \in Addresses |-> {b \in Addresses : SameMailbox(a, b)}]

\* That is one vote per mailbox, however its owner writes the address, and no two
\* mailboxes share a vote (email_domains.go normalizeEmail, used by both endpoints).
OneVotePerMailbox ==
    \A v, w \in votes : \A a \in SpellingsOf[v.email], b \in SpellingsOf[w.email] :
        b \in MailboxOf[a] <=> v = w

\* A vote is for the candidate, and from the device, for which its e-mail asked
\* for a code: no mixture of two requests is ever recorded (vote_service.go:129).
VotesBacked == \A v \in votes : BallotOf(v) \in Ballots

\* Where that comes from: the stored codes, and the handlers that ask for a code
\* or have had one accepted, all carry a ballot somebody asked for; and a voter
\* about to be told so has a vote on record, or its candidate is gone.
RequestsBacked ==
    /\ \A e \in Emails : otp[e] # None =>
         [email |-> e, fp |-> otp[e].fp, cand |-> otp[e].cand] \in Ballots
    /\ \A h \in Handlers :
         /\ pc[h] \in RequestSteps \cup {"consume", "insert", "reply"} =>
              BallotOf(req[h]) \in Ballots
         /\ pc[h] \in {"store", "enqueue", "unstore"} => req[h].code \in Codes
         /\ pc[h] = "reply" => NewVote(req[h]) \in votes \/ roll[req[h].cand] = "gone"

\* Every vote is for a candidate on the roll, whatever deletion races with it.
NoOrphanVotes == \A v \in votes : roll[v.cand] = "listed"

\* Who was told "Vote recorded" has that vote on record, unless the candidate
\* was deleted since.
AckedOrWithdrawn == \A v \in acked : v \in votes \/ roll[v.cand] = "gone"

\* Failed attempts beyond the maximum are as many as there are handlers about to
\* block the e-mail: the counter cannot run away from the block (no faults).
Blockers(e) == {h \in Handlers : pc[h] \in {"block", "clear"} /\ req[h].email = e}

CounterBounded ==
    \A e \in Emails : attempts[e] < MaxOTPAttempts + Cardinality(Blockers(e))

\* A counter without a TTL has a handler about to set one: nobody carries old
\* failures for ever (no faults).
CounterHasTTL ==
    \A e \in Emails : attempts[e] > 0 /\ ~expiring[e] =>
        \E h \in Handlers : pc[h] = "expire" /\ req[h].email = e

\* An accepted code ends as a vote of that e-mail or that device on record, or
\* its candidate is gone (no faults, fair handlers).
AcceptedCodeCounts ==
    \A h \in Handlers, b \in Ballots :
        (pc[h] = "consume" /\ BallotOf(req[h]) = b)
            ~> (HasVotedByEmail(b.email) \/ HasVotedByFingerprint(b.fp) \/ roll[b.cand] = "gone")

\* The ballot box of Election: the votes without the address they came from.
Box == {BallotOf(v) : v \in votes}

E == INSTANCE Election WITH box <- Box, roll <- roll

\* The tables go through the steps of Election only.
ImplementsElection == E!Spec

-----------------------------------------------------------------------------
(* What the repository says and the code does not do. *)

\* candidate_repo.go:115 "removes a candidate only when they have zero votes".
NoVoteLost == [][votes \subseteq votes']_vars

=============================================================================
