----------------------------- MODULE VoterSession -----------------------------
(***************************************************************************)
(* A voter at the browser: the dialogs of VoteModal in the tabs of one     *)
(* device, the HTTP calls in flight, what the endpoints do with them, and  *)
(* the mails that carry the codes.  An endpoint is one step here: what     *)
(* happens inside is the subject of VoteFlow.                              *)
(***************************************************************************)
EXTENDS EmailQueue

CONSTANTS
    Tabs, Candidates,
    Slots,          \* bound of the model: HTTP calls in flight
    CallFaults,     \* whether calls time out, get lost, or meet a failing server
    None

Codes == Tasks      \* one mail for each code
ASSUME CodesType == Codes \subseteq Nat

VARIABLES
    open,       \* tab -> Home's votingOpen
    selected,   \* tab -> Home's selectedCandidate, or None
    dialog,     \* tab -> VoteModal, closed while Home does not mount it
    marked,     \* localStorage voted_candidate_id, or None
    shown,      \* tab -> Home's votedCandidateId, or None
    call,       \* slot -> HTTP call, or None
    stored,     \* Redis otp:<email>, or None
    vote,       \* the voter's row in votes: its candidate, or None
    named       \* history: code -> the candidate that its mail names, or None

homeVars == <<open, selected>>
sessionVars == <<open, selected, dialog, marked, shown, call, stored, vote, named>>
vars == <<open, selected, dialog, marked, shown, call, stored, vote, named, queueVars>>

\* A captcha token is used once it was sent.
Dialog == [step : {"closed", "email", "otp", "done"}, captcha : {"none", "fresh", "used"},
           loading : BOOLEAN, told : {"nothing", "failure", "recorded", "already"}]

\* Statuses: ok 200, conflict 409, invalid 422, error for the others and for no answer.
\* A call belongs to its dialog until this is closed; its continuation runs all the same,
\* unless it ran already because the call timed out.
Call == [kind : {"request", "verify"}, tab : Tabs, candidate : Candidates, code : Codes \cup {None},
         owner : {"dialog", "closed", "gone"}, status : {"pending", "ok", "conflict", "invalid", "error"}]

ASSUME NoneIsNew == None \notin Candidates \cup Call

-----------------------------------------------------------------------------
(* Mutated forms: the token stays when the dialog goes back, an invalid code counts
   as a vote on record, the server takes the candidate from the dialog, and a call that
   ends leaves the dialog waiting. *)
KeepToken(token)          == token
InvalidIsConflict(status) == status \in {"conflict", "invalid"}
CandidateOfCall(c)        == call[c].candidate
StillLoading              == TRUE

-----------------------------------------------------------------------------
Closed  == [step |-> "closed", captcha |-> "none", loading |-> FALSE, told |-> "nothing"]
Mounted == [Closed EXCEPT !.step = "email"]

Init ==
    /\ QueueInit
    /\ open \in [Tabs -> BOOLEAN]
    /\ selected = [t \in Tabs |-> None]
    /\ dialog = [t \in Tabs |-> Closed]
    /\ marked = None
    /\ shown = [t \in Tabs |-> None]
    /\ call = [c \in Slots |-> None]
    /\ stored = None
    /\ vote = None
    /\ named = [k \in Codes |-> None]

-----------------------------------------------------------------------------
(* The browser. *)

\* handleVote of Home and of the card: no dialog while voting is closed, or once Home
\* knows of a vote.
Open(t) ==
    /\ open[t] /\ selected[t] = None
    /\ shown[t] = None
    /\ \E x \in Candidates : selected' = [selected EXCEPT ![t] = x]
    /\ dialog' = [dialog EXCEPT ![t] = Mounted]
    /\ UNCHANGED <<open, marked, shown, call, stored, vote, named, queueVars>>

Send(t, kind, code) ==
    /\ ~dialog[t].loading
    /\ \E c \in Slots :
         /\ call[c] = None
         /\ call' = [call EXCEPT ![c] = [kind |-> kind, tab |-> t, candidate |-> selected[t],
                                         code |-> code, owner |-> "dialog", status |-> "pending"]]
    /\ dialog' = [dialog EXCEPT ![t].loading = TRUE, ![t].told = "nothing",
                                ![t].captcha = IF kind = "request" THEN "used" ELSE @]
    /\ UNCHANGED <<homeVars, marked, shown, stored, vote, named, queueVars>>

\* Turnstile is solved, or its token expires.
Captcha(t) ==
    /\ dialog[t].step = "email"
    /\ \E token \in {"fresh", "none"} \ {dialog[t].captcha} :
         dialog' = [dialog EXCEPT ![t].captcha = token]
    /\ UNCHANGED <<homeVars, marked, shown, call, stored, vote, named, queueVars>>

CanRequest(t) == dialog[t].step = "email" /\ ~dialog[t].loading /\ dialog[t].captcha # "none"

SubmitEmail(t) == CanRequest(t) /\ Send(t, "request", None)

\* The voter fills in a code that came by mail; the sixth digit submits it.
EnterCode(t) == dialog[t].step = "otp" /\ \E k \in Codes : mails[k] > 0 /\ Send(t, "verify", k)

TokenAfter(token) == "none"

\* "Resend" is not disabled while a verification is under way.
GoBack(t) ==
    /\ dialog[t].step = "otp"
    /\ dialog' = [dialog EXCEPT ![t].step = "email", ![t].told = "nothing",
                                ![t].captcha = TokenAfter(@)]
    /\ UNCHANGED <<homeVars, marked, shown, call, stored, vote, named, queueVars>>

Orphaned(t) == [c \in Slots |-> IF call[c] # None /\ call[c].tab = t /\ call[c].owner = "dialog"
                                THEN [call[c] EXCEPT !.owner = "closed"] ELSE call[c]]

Close(t) ==
    /\ dialog[t].step # "closed"
    /\ selected' = [selected EXCEPT ![t] = None]
    /\ dialog' = [dialog EXCEPT ![t] = Closed]
    /\ call' = Orphaned(t)
    /\ shown' = [shown EXCEPT ![t] = marked]
    /\ UNCHANGED <<open, marked, stored, vote, named, queueVars>>

\* The live view says that voting is closed, or open again: the dialog goes, and comes
\* back at its first step.
VotingTurns(t) ==
    /\ open' = [open EXCEPT ![t] = ~@]
    /\ dialog' = [dialog EXCEPT ![t] = IF open'[t] /\ selected[t] # None THEN Mounted ELSE Closed]
    /\ call' = Orphaned(t)
    /\ UNCHANGED <<selected, marked, shown, stored, vote, named, queueVars>>

\* How a status moves a dialog: handleRequestOtp, handleVerifyOtp.
IsConflict(status) == status = "conflict"

Loading == FALSE

Shows(d, kind, status) ==
    [d EXCEPT !.loading = Loading,
              !.captcha = IF kind = "request" /\ status \notin {"ok", "conflict"} THEN TokenAfter(@) ELSE @,
              !.step = CASE IsConflict(status) \/ (status = "ok" /\ kind = "verify") -> "done"
                         [] status = "ok" /\ kind = "request" -> "otp"
                         [] OTHER -> d.step,
              !.told = CASE IsConflict(status) -> "already"
                         [] status = "ok" -> IF kind = "verify" THEN "recorded" ELSE "nothing"
                         [] OTHER -> "failure"]

Marks(kind, status) == IsConflict(status) \/ (status = "ok" /\ kind = "verify")

\* The continuation of call c with a status; the slot becomes what is left of it.
Continue(c, status, left) ==
    LET a == call[c] IN
    /\ a.owner \in {"dialog", "closed"}
    /\ dialog' = IF a.owner = "dialog"
                 THEN [dialog EXCEPT ![a.tab] = Shows(@, a.kind, status)] ELSE dialog
    /\ marked' = IF Marks(a.kind, status) THEN a.candidate ELSE marked
    /\ call' = [call EXCEPT ![c] = left]
    /\ UNCHANGED <<homeVars, shown, stored, vote, named, queueVars>>

Answer(c) == call[c] # None /\ call[c].status # "pending" /\ Continue(c, call[c].status, None)

\* After 15 seconds, or when the connection breaks; the server may still handle the call.
GiveUp(c) ==
    /\ CallFaults
    /\ call[c] # None
    /\ Continue(c, "error", IF call[c].status = "pending" THEN [call[c] EXCEPT !.owner = "gone"] ELSE None)

-----------------------------------------------------------------------------
(* The server. *)

Respond(c, status) ==
    call' = [call EXCEPT ![c] = IF @.owner = "gone" THEN None ELSE [@ EXCEPT !.status = status]]

Arrived(c, kind) == call[c] # None /\ call[c].kind = kind /\ call[c].status = "pending"

\* Closed voting, captcha, limits, a missing candidate, a failing call; or it never arrives.
Refuse(c) ==
    /\ CallFaults
    /\ call[c] # None /\ call[c].status = "pending"
    /\ Respond(c, "error")
    /\ UNCHANGED <<homeVars, dialog, marked, shown, stored, vote, named, queueVars>>

RequestAfterVote(c) ==
    /\ Arrived(c, "request")
    /\ vote # None
    /\ Respond(c, "conflict")
    /\ UNCHANGED <<homeVars, dialog, marked, shown, stored, vote, named, queueVars>>

\* A fresh code is stored and mailed; if Enqueue reports an error, it is deleted again.
RequestOTP(c) ==
    /\ Arrived(c, "request")
    /\ vote = None
    /\ \E k \in Codes :
         /\ \A j \in Codes : named[j] = None <=> j >= k
         /\ named' = [named EXCEPT ![k] = call[c].candidate]
         /\ \/ /\ \/ Enqueue(k)
                  \/ CallFaults /\ \E kept \in BOOLEAN : EnqueueDirect(k, kept, TRUE)
               /\ stored' = [code |-> k, candidate |-> call[c].candidate]
               /\ Respond(c, "ok")
            \/ /\ CallFaults /\ \E kept, mailed \in BOOLEAN : EnqueueDirect(k, kept, mailed)
               /\ stored' = None
               /\ Respond(c, "error")
    /\ UNCHANGED <<homeVars, dialog, marked, shown, vote>>

CandidateOfVote(c) == stored.candidate

Matches(c) == stored # None /\ stored.code = call[c].code

\* The code is consumed, whether the vote can be inserted or not.
VerifyVote(c) ==
    /\ Arrived(c, "verify")
    /\ Matches(c)
    /\ stored' = None
    /\ \/ vote = None /\ vote' = CandidateOfVote(c) /\ Respond(c, "ok")
       \/ vote # None /\ UNCHANGED vote /\ Respond(c, "conflict")
       \/ CallFaults /\ UNCHANGED vote /\ Respond(c, "error")
    /\ UNCHANGED <<homeVars, dialog, marked, shown, named, queueVars>>

\* Redis failing under Verify looks like an invalid code.
RefuseCode(c) ==
    /\ Arrived(c, "verify")
    /\ ~Matches(c) \/ CallFaults
    /\ Respond(c, "invalid")
    /\ UNCHANGED <<homeVars, dialog, marked, shown, stored, vote, named, queueVars>>

ExpireCode ==
    /\ stored # None
    /\ stored' = None
    /\ UNCHANGED <<open, selected, dialog, marked, shown, call, vote, named, queueVars>>

-----------------------------------------------------------------------------
Voter(t) == Open(t) \/ Captcha(t) \/ SubmitEmail(t) \/ EnterCode(t) \/ GoBack(t) \/ Close(t)

Exchange(c) ==
    \/ Answer(c) \/ GiveUp(c)
    \/ Refuse(c) \/ RequestAfterVote(c) \/ RequestOTP(c) \/ VerifyVote(c) \/ RefuseCode(c)

Next ==
    \/ \E t \in Tabs : Voter(t) \/ VotingTurns(t)
    \/ \E c \in Slots : Exchange(c)
    \/ ExpireCode
    \/ WorkerNext /\ UNCHANGED sessionVars

Spec == Init /\ [][Next]_vars

-----------------------------------------------------------------------------
(* Properties. *)

\* Types; a dialog waits exactly while a call of its own is under way.
TypeOK ==
    /\ QueueTypeOK
    /\ open \in [Tabs -> BOOLEAN] /\ selected \in [Tabs -> Candidates \cup {None}]
    /\ dialog \in [Tabs -> Dialog]
    /\ marked \in Candidates \cup {None}
    /\ shown \in [Tabs -> Candidates \cup {None}]
    /\ call \in [Slots -> Call \cup {None}]
    /\ stored \in [code : Codes, candidate : Candidates] \cup {None}
    /\ vote \in Candidates \cup {None}
    /\ named \in [Codes -> Candidates \cup {None}]
    /\ \A t \in Tabs : dialog[t].loading <=>
         \E c \in Slots : call[c] # None /\ call[c].tab = t /\ call[c].owner = "dialog"

\* A captcha token, which Turnstile accepts once, is never sent twice: when the form can
\* be submitted, its token is new (VoteModal resets it after an error and on "Resend").
CaptchaUsedOnce == \A t \in Tabs : CanRequest(t) => dialog[t].captcha = "fresh"

\* Nobody is told, shown or remembered to have voted without a vote on record, whatever
\* calls get lost, come late or outlive their dialog (VoteModal, Home).
ToldTruth ==
    vote = None => /\ marked = None
                   /\ \A t \in Tabs : shown[t] = None /\ dialog[t].told \notin {"recorded", "already"}

\* The vote is for the candidate that the mail of the entered code named, also when
\* several dialogs have asked for codes (GenerateAndStore, Verify).
VoteAsMailed ==
    [][vote' # vote => \E c \in Slots : /\ Arrived(c, "verify")
                                        /\ vote' = named[call[c].code]
                                        /\ mails[call[c].code] > 0]_vars

=============================================================================
