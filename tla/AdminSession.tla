----------------------------- MODULE AdminSession -----------------------------
(***************************************************************************)
(* The administrator's session: the cookie, the authentication state that  *)
(* AdminAuthProvider keeps in memory, the guarded routes, the forms of     *)
(* Login and ChangePasswordModal, and their calls in flight.  The server   *)
(* keeps no sessions: a request is judged by the token it carries.         *)
(***************************************************************************)
EXTENDS Naturals

CONSTANTS
    Slots,          \* bound of the model: HTTP calls in flight
    MaxVisits,      \* bound of the model: how often the pages are entered or loaded
    Faults,         \* whether calls meet a failing server
    OtherTabs,      \* whether other tabs sign in and out
    None

ASSUME VisitsType == MaxVisits \in Nat

Kinds    == {"me", "login", "logout", "change", "work"}
Statuses == {"ok", "unauthorized", "error"}

\* token: the cookie it carries is valid; right: the password in it is; mine: the component
\* that sent it is still there; late: the cookie changed since it was sent.
Call == [kind : Kinds, token : BOOLEAN, right : BOOLEAN, mine : BOOLEAN, late : BOOLEAN,
         status : Statuses \cup {"pending"}]

ASSUME NoneIsNoCall == None \notin Call

VARIABLES
    place,      \* the page: "home", "login", "dashboard", or "blank" after React gave up
    auth,       \* isAuthenticated of the provider, FALSE without one
    loading,    \* loading of the provider, FALSE without one
    modal,      \* ChangePasswordModal: "shut", "open" or "busy"
    cookie,     \* whether the browser holds a valid admin_token
    call,       \* slot -> HTTP call, or None
    visits,
    astray      \* history: page and cookie disagree, for one of the known Causes

page == <<place, auth, loading, modal>>
vars == <<page, cookie, call, visits, astray>>

Admin(p) == p \in {"login", "dashboard"}      \* where AdminRoutes has its provider

-----------------------------------------------------------------------------
(* Mutated forms: a 401 leaves the provider signed in, or a failing /me leaves it
   loading; a finished change leaves the dialog busy. *)
KeepsSession(status) == auth
ForgetsLoading       == TRUE
StaysBusy(status)    == IF status = "error" THEN "busy" ELSE "shut"

-----------------------------------------------------------------------------
Fresh(kind, right, token) ==
    [kind |-> kind, token |-> token, right |-> right, mine |-> TRUE, late |-> FALSE, status |-> "pending"]

\* A page under /admin starts with the provider's call of /me.
FirstCall(p, token) ==
    {[d \in Slots |-> IF d = c /\ Admin(p) THEN Fresh("me", FALSE, token) ELSE None] : c \in Slots}

Init ==
    /\ cookie \in BOOLEAN
    /\ place \in {"home", "login", "dashboard"}
    /\ auth = FALSE
    /\ loading = Admin(place)
    /\ modal = "shut"
    /\ call \in FirstCall(place, cookie)
    /\ visits = 0
    /\ astray = FALSE

Mount(p) == place' = p /\ auth' = FALSE /\ loading' = Admin(p) /\ modal' = "shut"

\* Page and cookie disagree once the first check is over.
Disagree == Admin(place) /\ ~loading /\ auth # cookie

Note(cause, settled) == astray' = (Disagree' /\ (cause \/ (astray /\ ~settled)))

\* What becomes of the other calls: a page that goes away disowns its calls, and
\* every call in flight is late once the cookie changes.
Aged(d) ==
    [call[d] EXCEPT !.late = @ \/ cookie' # cookie,
                    !.mine = @ /\ Admin(place') /\ (call[d].kind = "change" => modal' # "shut")]

Others(c, left) == call' = [d \in Slots |-> IF d = c THEN left
                                            ELSE IF call[d] = None THEN None ELSE Aged(d)]

-----------------------------------------------------------------------------
(* The administrator. *)

Visit == visits < MaxVisits /\ visits' = visits + 1

\* An address is typed, or the page reloaded: the calls in flight are aborted.
Load(p) ==
    /\ Visit
    /\ Mount(p)
    /\ call' \in FirstCall(p, cookie)
    /\ UNCHANGED cookie
    /\ Note(FALSE, FALSE)

\* The link of the home page, or the forward button, in the running application.
Enter(p) ==
    /\ Visit
    /\ place = "home" /\ Admin(p)
    /\ Mount(p)
    /\ \E c \in Slots : call[c] = None /\ call' = [call EXCEPT ![c] = Fresh("me", FALSE, cookie)]
    /\ UNCHANGED cookie
    /\ Note(FALSE, FALSE)

\* The links to "/", or the back button.
Leave ==
    /\ Admin(place)
    /\ Mount("home")
    /\ UNCHANGED <<cookie, visits>>
    /\ call' = [d \in Slots |-> IF call[d] = None THEN None ELSE Aged(d)]
    /\ Note(FALSE, FALSE)

Sends(kind, right) ==
    /\ UNCHANGED <<place, auth, loading, cookie, visits, astray>>
    /\ \E c \in Slots : call[c] = None /\ Others(c, Fresh(kind, right, cookie))

\* The button waits for the first check, but not for an earlier submission.
SubmitLogin(right) == place = "login" /\ ~loading /\ UNCHANGED modal /\ Sends("login", right)

Working == place = "dashboard" /\ auth /\ ~loading

Work == Working /\ UNCHANGED modal /\ Sends("work", FALSE)

\* handleLogout goes to the login page at once; that finds the state still signed in
\* and comes back, so that the dashboard is mounted afresh.
Logout == Working /\ modal' = "shut" /\ Sends("logout", FALSE)

OpenModal ==
    /\ Working
    /\ modal = "shut" /\ modal' = "open"
    /\ UNCHANGED <<place, auth, loading, cookie, call, visits, astray>>

\* handleClose does nothing while a change is under way.
CloseModal ==
    /\ modal = "open" /\ modal' = "shut"
    /\ UNCHANGED <<place, auth, loading, cookie, call, visits, astray>>

SubmitChange(right) == modal = "open" /\ modal' = "busy" /\ Sends("change", right)

-----------------------------------------------------------------------------
(* The continuations.  A call is answered, or given up after 15 seconds. *)

Outcomes(c) == {"error", call[c].status} \ {"pending"}

\* The interceptor, installed by whichever provider is there now.
AfterUnauthorized(status) == auth /\ status # "unauthorized"

\* ProtectedRoute.
Guarded(signedIn) == IF place = "dashboard" /\ ~loading' /\ ~signedIn THEN "login" ELSE place

\* How page and cookie may come to disagree by the answer of a call: it judged an older
\* cookie, its component is gone, it is no answer, or it is a 401 about a password.
Cause(c, status) ==
    \/ call[c].late \/ ~call[c].mine
    \/ status = "error" /\ call[c].kind \in {"me", "logout"}
    \/ status = "unauthorized" /\ (call[c].kind = "login" \/ call[c].token)

Replied(c, kind, status) ==
    /\ call[c] # None /\ call[c].kind = kind
    /\ status \in Outcomes(c)
    /\ UNCHANGED visits

\* The answers that tell the page whether the session is valid.
Telling(c, status) ==
    \/ status = "unauthorized"
    \/ status = "ok" /\ call[c].kind \in {"me", "login", "logout"}

\* The rest of a continuation; left: the call that takes the slot over, if any.
Ended(c, status, left) == Others(c, left) /\ Note(Cause(c, status), Telling(c, status))

ModalGoesWithPage == modal' = IF place' = "dashboard" THEN modal ELSE "shut"

Loaded == FALSE

\* On the login page a confirmed session leads to the dashboard, if the code of that
\* page was still loading; otherwise Login returns before its useCallback and React
\* unmounts everything, since it rendered fewer hooks than before.
MeReply(c, status) ==
    /\ Replied(c, "me", status)
    /\ UNCHANGED cookie
    /\ IF call[c].mine
       THEN /\ loading' = Loaded
            /\ IF place = "login" /\ status = "ok"
               THEN \/ place' = "dashboard" /\ auth' = TRUE
                    \/ place' = "blank" /\ auth' = FALSE
               ELSE auth' = (status = "ok") /\ place' = Guarded(auth')
       ELSE auth' = AfterUnauthorized(status) /\ UNCHANGED loading /\ place' = Guarded(auth')
    /\ ModalGoesWithPage
    /\ Ended(c, status, None)

\* The submission goes on to the dashboard even when its page was left; from the home
\* page that mounts a new provider.
LoginReply(c, status) ==
    /\ Replied(c, "login", status)
    /\ cookie' = (cookie \/ status = "ok")
    /\ \/ /\ status = "ok" /\ place = "home"
          /\ Mount("dashboard")
          /\ Ended(c, status, Fresh("me", FALSE, TRUE))
       \/ /\ status = "ok" /\ Admin(place)
          /\ auth' = (auth \/ call[c].mine) /\ UNCHANGED loading
          /\ place' = IF auth' \/ loading THEN "dashboard" ELSE "login"
          /\ ModalGoesWithPage
          /\ Ended(c, status, None)
       \/ /\ status # "ok" \/ place = "blank"
          /\ auth' = AfterUnauthorized(status) /\ UNCHANGED loading
          /\ place' = Guarded(auth') /\ ModalGoesWithPage
          /\ Ended(c, status, None)

\* logout swallows every failure.
LogoutReply(c, status) ==
    /\ Replied(c, "logout", status)
    /\ cookie' = (cookie /\ status # "ok")
    /\ auth' = (auth /\ ~call[c].mine) /\ UNCHANGED loading
    /\ place' = Guarded(auth') /\ ModalGoesWithPage
    /\ Ended(c, status, None)

WorkReply(c, status) ==
    /\ Replied(c, "work", status)
    /\ auth' = AfterUnauthorized(status) /\ UNCHANGED <<loading, cookie>>
    /\ place' = Guarded(auth') /\ ModalGoesWithPage
    /\ Ended(c, status, None)

AfterChange(status) == IF status = "ok" THEN "shut" ELSE "open"

\* A wrong current password is answered with 401 too.
ChangeReply(c, status) ==
    /\ Replied(c, "change", status)
    /\ auth' = AfterUnauthorized(status) /\ UNCHANGED <<loading, cookie>>
    /\ place' = Guarded(auth')
    /\ modal' = IF place' # "dashboard" THEN "shut"
                ELSE IF call[c].mine THEN AfterChange(status) ELSE modal
    /\ Ended(c, status, None)

Reply(c) == \E status \in Statuses :
    MeReply(c, status) \/ LoginReply(c, status) \/ LogoutReply(c, status)
        \/ WorkReply(c, status) \/ ChangeReply(c, status)

-----------------------------------------------------------------------------
(* The server, and time. *)

\* JWTAuth for all but login and logout, then the handler.
Judged(a) ==
    CASE a.kind = "logout"           -> "ok"
      [] a.kind = "login"            -> IF a.right THEN "ok" ELSE "unauthorized"
      [] a.kind = "change"           -> IF a.token /\ a.right THEN "ok" ELSE "unauthorized"
      [] a.kind \in {"me", "work"}   -> IF a.token THEN "ok" ELSE "unauthorized"

Serve(c) ==
    /\ call[c] # None /\ call[c].status = "pending"
    /\ \E status \in {Judged(call[c])} \cup (IF Faults THEN {"error"} ELSE {}) :
         call' = [call EXCEPT ![c].status = status]
    /\ UNCHANGED <<page, cookie, visits, astray>>

\* 24 hours are over: for the cookie, and for the token in a call under way.
Expire ==
    /\ cookie /\ cookie' = FALSE
    /\ call' = [d \in Slots |-> IF call[d] = None THEN None
                                ELSE [call[d] EXCEPT !.late = TRUE, !.token = FALSE]]
    /\ UNCHANGED <<page, visits>>
    /\ Note(TRUE, FALSE)

OtherTab ==
    /\ OtherTabs
    /\ cookie' = ~cookie
    /\ call' = [d \in Slots |-> IF call[d] = None THEN None ELSE [call[d] EXCEPT !.late = TRUE]]
    /\ UNCHANGED <<page, visits>>
    /\ Note(TRUE, FALSE)

-----------------------------------------------------------------------------
Administrator ==
    \/ \E p \in {"home", "login", "dashboard"} : Load(p) \/ Enter(p)
    \/ Leave
    \/ \E right \in BOOLEAN : SubmitLogin(right) \/ SubmitChange(right)
    \/ Work \/ Logout \/ OpenModal \/ CloseModal

Next ==
    \/ Administrator
    \/ \E c \in Slots : Reply(c) \/ Serve(c)
    \/ Expire
    \/ OtherTab

Spec     == Init /\ [][Next]_vars
FairSpec == Spec /\ \A c \in Slots : WF_vars(Reply(c))

-----------------------------------------------------------------------------
(* Properties. *)

Own(kind) == {c \in Slots : call[c] # None /\ call[c].kind = kind /\ call[c].mine}

\* Types; the provider is loading exactly while its /me is under way, the dialog is busy
\* exactly while its change is, and the dashboard is shown to nobody else.
TypeOK ==
    /\ place \in {"home", "login", "dashboard", "blank"}
    /\ auth \in BOOLEAN /\ loading \in BOOLEAN /\ cookie \in BOOLEAN /\ astray \in BOOLEAN
    /\ modal \in {"shut", "open", "busy"}
    /\ call \in [Slots -> Call \cup {None}]
    /\ visits \in 0..MaxVisits
    /\ loading <=> Own("me") # {}
    /\ modal = "busy" <=> Own("change") # {}
    /\ auth => place = "dashboard" /\ ~loading
    /\ modal # "shut" => Working
    /\ place = "dashboard" => auth \/ loading

\* What the page believes about the session is what the cookie says, unless one of the
\* known Causes made them differ, and no timely answer that tells has come since: for all
\* orders in which /me, login, logout and 401 answers arrive (AdminAuthContext, api.ts).
PageMatchesCookie == Disagree => astray

\* No spinner stays for ever (AdminAuthContext's loading, ChangePasswordModal's pwLoading).
WaitsEnd == /\ loading ~> ~loading
            /\ (modal = "busy") ~> (modal # "busy")

=============================================================================
