-------------------------- MODULE AdminSessionProofs --------------------------
(* Theorems of AdminSession, for every value of its constants. *)
EXTENDS AdminSession, TLAPS

USE VisitsType, NoneIsNoCall

-----------------------------------------------------------------------------
(* Types.  A page waits for one /me, a dialog for one change, and a page that is not
   there waits for nothing. *)

Alone(kind) == \A c, d \in Own(kind) : c = d
Attached    == \A c \in Slots : call[c] # None /\ call[c].mine => Admin(place)
Settled     == \A c \in Slots : call[c] # None /\ call[c].mine /\ loading => call[c].kind = "me"

Typed == TypeOK /\ Alone("me") /\ Alone("change") /\ Attached /\ Settled

LEMMA FreshTyped ==
    ASSUME NEW kind \in Kinds, NEW right \in BOOLEAN, NEW token \in BOOLEAN
    PROVE  /\ Fresh(kind, right, token) \in Call
           /\ Fresh(kind, right, token) # None
           /\ Fresh(kind, right, token).kind = kind
           /\ Fresh(kind, right, token).mine
<1>1. Fresh(kind, right, token) \in Call
  BY DEF Fresh, Call
<1> QED BY <1>1 DEF Fresh

\* What Load and Init make of the calls: a /me under /admin, and nothing else.
LEMMA FirstCallTyped ==
    ASSUME NEW p \in {"home", "login", "dashboard"}, NEW token \in BOOLEAN,
           NEW f, f \in FirstCall(p, token)
    PROVE  \E c \in Slots :
             /\ f \in [Slots -> Call \cup {None}]
             /\ \A d \in Slots : f[d] # None <=> d = c /\ Admin(p)
             /\ Admin(p) => f[c].kind = "me" /\ f[c].mine
<1>1. PICK c \in Slots : f = [d \in Slots |-> IF d = c /\ Admin(p) THEN Fresh("me", FALSE, token) ELSE None]
  BY DEF FirstCall
<1>2. /\ Fresh("me", FALSE, token) \in Call /\ Fresh("me", FALSE, token) # None
      /\ Fresh("me", FALSE, token).kind = "me" /\ Fresh("me", FALSE, token).mine
  BY FreshTyped DEF Kinds
<1>3. f \in [Slots -> Call \cup {None}]
  BY <1>1, <1>2
<1>4. \A d \in Slots : f[d] = IF d = c /\ Admin(p) THEN Fresh("me", FALSE, token) ELSE None
  BY <1>1
<1>5. \A d \in Slots : f[d] # None <=> (d = c /\ Admin(p))
  BY <1>2, <1>4
<1>6. Admin(p) => f[c].kind = "me" /\ f[c].mine
  BY <1>2, <1>4
<1> QED BY <1>3, <1>5, <1>6

\* What every other step makes of them.
LEMMA OthersTyped ==
    ASSUME call \in [Slots -> Call \cup {None}], cookie' \in BOOLEAN, cookie \in BOOLEAN,
           NEW c \in Slots, NEW left \in Call \cup {None}, Others(c, left)
    PROVE  /\ call' \in [Slots -> Call \cup {None}]
           /\ call'[c] = left
           /\ \A d \in Slots \ {c} :
                IF call[d] = None THEN call'[d] = None
                ELSE /\ call'[d] # None
                     /\ call'[d].kind = call[d].kind /\ call'[d].token = call[d].token
                     /\ call'[d].status = call[d].status
                     /\ call'[d].late = (call[d].late \/ cookie' # cookie)
                     /\ call'[d].mine = (call[d].mine /\ Admin(place')
                                           /\ (call[d].kind = "change" => modal' # "shut"))
<1>1. ASSUME NEW d \in Slots, call[d] # None
      PROVE  /\ Aged(d) \in Call
             /\ Aged(d).kind = call[d].kind /\ Aged(d).token = call[d].token
             /\ Aged(d).status = call[d].status
             /\ Aged(d).late = (call[d].late \/ cookie' # cookie)
             /\ Aged(d).mine = (call[d].mine /\ Admin(place')
                                  /\ (call[d].kind = "change" => modal' # "shut"))
  <2>1. call[d] \in Call
    BY <1>1
  <2>2. (call[d].late \/ cookie' # cookie) \in BOOLEAN
    BY <2>1 DEF Call
  <2>3. (call[d].mine /\ Admin(place') /\ (call[d].kind = "change" => modal' # "shut")) \in BOOLEAN
    BY <2>1 DEF Call, Admin
  <2> QED BY <2>1, <2>2, <2>3 DEF Aged, Call
<1> QED BY <1>1 DEF Others

LEMMA OthersOwn ==
    ASSUME call \in [Slots -> Call \cup {None}], cookie' \in BOOLEAN, cookie \in BOOLEAN,
           NEW c \in Slots, NEW left \in Call \cup {None}, Others(c, left)
    PROVE  \A kind : Own(kind)' = {d \in Own(kind) \ {c} :
                                     Admin(place') /\ (kind = "change" => modal' # "shut")}
                                  \cup {d \in {c} : left # None /\ left.kind = kind /\ left.mine}
<1>1. /\ call'[c] = left
      /\ \A d \in Slots \ {c} :
           IF call[d] = None THEN call'[d] = None
           ELSE /\ call'[d] # None
                /\ call'[d].kind = call[d].kind
                /\ call'[d].mine = (call[d].mine /\ Admin(place')
                                      /\ (call[d].kind = "change" => modal' # "shut"))
  BY OthersTyped
<1> QED BY <1>1 DEF Own

LEMMA NoteTyped == ASSUME NEW cause, NEW settled, Note(cause, settled) PROVE astray' \in BOOLEAN
<1>1. (Disagree' /\ (cause \/ (astray /\ ~settled))) \in BOOLEAN
  OBVIOUS
<1> QED BY <1>1 DEF Note

LEMMA NoCauseTyped == Note(FALSE, FALSE) => astray' \in BOOLEAN
<1>1. (Disagree' /\ (FALSE \/ (astray /\ ~FALSE))) \in BOOLEAN
  OBVIOUS
<1> QED BY <1>1 DEF Note

LEMMA MountTyped ==
    ASSUME NEW p \in {"home", "login", "dashboard"}, NEW token \in BOOLEAN,
           Mount(p), call' \in FirstCall(p, token),
           cookie' \in BOOLEAN, visits' \in 0..MaxVisits, astray' \in BOOLEAN
    PROVE  Typed'
<1>1. PICK c \in Slots :
        /\ call' \in [Slots -> Call \cup {None}]
        /\ \A d \in Slots : call'[d] # None <=> d = c /\ Admin(p)
        /\ Admin(p) => call'[c].kind = "me" /\ call'[c].mine
  BY FirstCallTyped
<1>3. /\ place' = p /\ auth' = FALSE /\ loading' = Admin(p) /\ modal' = "shut"
      /\ Admin(p) \in BOOLEAN
  BY DEF Mount, Admin
<1>4. Own("me")' = {d \in {c} : Admin(p)} /\ Own("change")' = {}
  BY <1>1 DEF Own
<1>5. Alone("me")' /\ Alone("change")'
  BY <1>4 DEF Alone
<1>6. Attached' /\ Settled'
  BY <1>1, <1>3 DEF Attached, Settled
<1>7. TypeOK'
  BY <1>1, <1>3, <1>4 DEF TypeOK, Admin
<1> QED BY <1>5, <1>6, <1>7 DEF Typed

LEMMA InitTyped == Init => Typed
<1> SUFFICES ASSUME Init
             PROVE  Typed
  OBVIOUS
<1>1. cookie \in BOOLEAN /\ place \in {"home", "login", "dashboard"} /\ call \in FirstCall(place, cookie)
  BY DEF Init
<1>2. PICK c \in Slots :
        /\ call \in [Slots -> Call \cup {None}]
        /\ \A d \in Slots : call[d] # None <=> d = c /\ Admin(place)
        /\ Admin(place) => call[c].kind = "me" /\ call[c].mine
  BY <1>1, FirstCallTyped
<1>4. Own("me") = {d \in {c} : Admin(place)} /\ Own("change") = {}
  BY <1>2 DEF Own
<1>5. Alone("me") /\ Alone("change") /\ Attached /\ Settled
  BY <1>2, <1>4 DEF Alone, Attached, Settled
<1>6. /\ auth = FALSE /\ loading = Admin(place) /\ modal = "shut" /\ visits = 0 /\ astray = FALSE
      /\ Admin(place) \in BOOLEAN
  BY DEF Init, Admin
<1>7. TypeOK
  <2>1. /\ loading <=> Own("me") # {}
        /\ modal = "busy" <=> Own("change") # {}
    BY <1>4, <1>6
  <2>2. place = "dashboard" => loading
    BY <1>6 DEF Admin
  <2>3. 0 \in 0..MaxVisits
    OBVIOUS
  <2> QED BY <1>1, <1>2, <1>6, <2>1, <2>2, <2>3 DEF TypeOK
<1> QED BY <1>5, <1>7 DEF Typed

\* A step that gives slot c to left and keeps the rest of the page's bookkeeping.
LEMMA SlotTyped ==
    ASSUME Typed, NEW c \in Slots, NEW left \in Call \cup {None}, Others(c, left),
           left # None /\ left.mine => Admin(place') /\ (loading' => left.kind = "me"),
           loading' => loading \/ place = "home",
           place' \in {"home", "login", "dashboard", "blank"}, modal' \in {"shut", "open", "busy"},
           auth' \in BOOLEAN, loading' \in BOOLEAN, cookie' \in BOOLEAN, astray' \in BOOLEAN,
           visits' \in 0..MaxVisits,
           loading' <=> Own("me")' # {}, modal' = "busy" <=> Own("change")' # {},
           auth' => place' = "dashboard" /\ ~loading',
           modal' # "shut" => place' = "dashboard" /\ auth' /\ ~loading',
           place' = "dashboard" => auth' \/ loading',
           Alone("me")', Alone("change")'
    PROVE  Typed'
<1>1. /\ call' \in [Slots -> Call \cup {None}]
      /\ call'[c] = left
      /\ \A d \in Slots \ {c} :
           IF call[d] = None THEN call'[d] = None
           ELSE call'[d].mine => call[d].mine /\ Admin(place') /\ call'[d].kind = call[d].kind
  BY OthersTyped DEF Typed, TypeOK
<1>2. Attached' /\ Settled'
  <2>1. place = "home" => \A d \in Slots : call[d] # None => ~call[d].mine
    BY DEF Typed, Attached, Admin
  <2> QED BY <1>1, <2>1 DEF Typed, Attached, Settled
<1>3. TypeOK'
  BY <1>1 DEF TypeOK, Working
<1> QED BY <1>2, <1>3 DEF Typed

\* A call ends without a successor.
LEMMA EndTyped ==
    ASSUME Typed, NEW c \in Slots, Others(c, None), UNCHANGED visits,
           place' \in {"home", "login", "dashboard", "blank"}, modal' \in {"shut", "open", "busy"},
           auth' \in BOOLEAN, loading' \in BOOLEAN, cookie' \in BOOLEAN, astray' \in BOOLEAN,
           loading' <=> loading /\ c \notin Own("me") /\ Admin(place'),
           modal' = "busy" <=> modal = "busy" /\ c \notin Own("change") /\ Admin(place') /\ modal' # "shut",
           auth' => place' = "dashboard" /\ ~loading',
           modal' # "shut" => place' = "dashboard" /\ auth' /\ ~loading',
           place' = "dashboard" => auth' \/ loading'
    PROVE  Typed'
<1>1. /\ Own("me")' = {d \in Own("me") \ {c} : Admin(place')}
      /\ Own("change")' = {d \in Own("change") \ {c} : Admin(place') /\ modal' # "shut"}
  BY OthersOwn DEF Typed, TypeOK
<1>2. /\ loading <=> Own("me") # {}
      /\ modal = "busy" <=> Own("change") # {}
      /\ visits \in 0..MaxVisits
  BY DEF Typed, TypeOK
<1>3. Alone("me") /\ Alone("change")
  BY DEF Typed
<1>4. Alone("me")' /\ Alone("change")'
  BY <1>1, <1>3 DEF Alone
<1>5. loading' <=> Own("me")' # {}
  BY <1>1, <1>2, <1>3 DEF Alone
<1>6. modal' = "busy" <=> Own("change")' # {}
  BY <1>1, <1>2, <1>3 DEF Alone
<1> QED BY <1>2, <1>4, <1>5, <1>6, SlotTyped

\* The guard of the dashboard moves nobody who is signed in.
LEMMA GuardTyped ==
    ASSUME Typed, NEW b \in BOOLEAN
    PROVE  /\ Guarded(b) \in {"home", "login", "dashboard", "blank"}
           /\ Guarded(b) = "dashboard" => place = "dashboard" /\ (loading' \/ b)
           /\ Guarded(b) # place => place = "dashboard" /\ Guarded(b) = "login" /\ ~b /\ ~loading'
           /\ place = "dashboard" /\ b => Guarded(b) = "dashboard"
BY DEF Guarded, Typed, TypeOK

\* The answer of a call that the page does not wait for: it signs out or does nothing.
LEMMA AnswerTyped ==
    ASSUME Typed, NEW c \in Slots, Others(c, None), UNCHANGED <<loading, visits>>,
           c \notin Own("me"), cookie' \in BOOLEAN, astray' \in BOOLEAN,
           auth' \in BOOLEAN, auth' => auth, place' = Guarded(auth'),
           modal' \in {"shut", "open", "busy"},
           place' # "dashboard" => modal' = "shut",
           modal' # "shut" => modal # "shut",
           modal' = "busy" <=> modal = "busy" /\ c \notin Own("change") /\ Admin(place') /\ modal' # "shut"
    PROVE  Typed'
<1>1. /\ place \in {"home", "login", "dashboard", "blank"} /\ auth \in BOOLEAN /\ loading \in BOOLEAN
      /\ auth => place = "dashboard" /\ ~loading
      /\ modal # "shut" => place = "dashboard" /\ auth /\ ~loading
      /\ place = "dashboard" => auth \/ loading
  BY DEF Typed, TypeOK, Working
<1>2. loading => Admin(place)
  BY DEF Typed, TypeOK, Attached, Own
<1>3. /\ place' \in {"home", "login", "dashboard", "blank"}
      /\ place' = "dashboard" => place = "dashboard" /\ (loading' \/ auth')
      /\ place' # place => place = "dashboard" /\ place' = "login" /\ ~auth' /\ ~loading'
      /\ place = "dashboard" /\ auth' => place' = "dashboard"
  BY GuardTyped
<1>4. loading' <=> loading /\ c \notin Own("me") /\ Admin(place')
  BY <1>2, <1>3 DEF Admin
<1>5. /\ auth' => place' = "dashboard" /\ ~loading'
      /\ modal' # "shut" => place' = "dashboard" /\ auth' /\ ~loading'
      /\ place' = "dashboard" => auth' \/ loading'
  BY <1>1, <1>3
<1>6. loading' \in BOOLEAN
  BY <1>1
<1> QED BY <1>3, <1>4, <1>5, <1>6, EndTyped

LEMMA SendTyped ==
    ASSUME Typed, NEW kind \in Kinds \ {"me"}, NEW right \in BOOLEAN, Sends(kind, right), Admin(place), ~loading,
           modal' \in {"shut", "open", "busy"},
           modal' # "shut" => Working,
           IF kind = "change" THEN modal = "open" /\ modal' = "busy" ELSE modal' \in {"shut", modal}
    PROVE  Typed'
<1>1. /\ place \in {"home", "login", "dashboard", "blank"} /\ auth \in BOOLEAN /\ loading \in BOOLEAN
      /\ cookie \in BOOLEAN /\ astray \in BOOLEAN /\ visits \in 0..MaxVisits
      /\ auth => place = "dashboard" /\ ~loading
      /\ place = "dashboard" => auth \/ loading
      /\ loading <=> Own("me") # {}
      /\ modal = "busy" <=> Own("change") # {}
      /\ Alone("me") /\ Alone("change")
      /\ UNCHANGED <<place, auth, loading, cookie, visits, astray>>
  BY DEF Typed, TypeOK, Sends
<1>2. PICK c \in Slots : call[c] = None /\ Others(c, Fresh(kind, right, cookie))
  BY DEF Sends
<1> DEFINE left == Fresh(kind, right, cookie)
<1>3. left \in Call /\ left # None /\ left.kind = kind /\ left.mine
  BY <1>1, FreshTyped
<1>4. c \notin Own("me") /\ c \notin Own("change") /\ Admin(place')
  BY <1>1, <1>2 DEF Own
<1>5. \A k : Own(k)' = {d \in Own(k) \ {c} : k = "change" => modal' # "shut"}
                       \cup {d \in {c} : k = kind}
  <2>1. \A k : Own(k)' = {d \in Own(k) \ {c} : Admin(place') /\ (k = "change" => modal' # "shut")}
                         \cup {d \in {c} : left # None /\ left.kind = k /\ left.mine}
    BY <1>1, <1>2, <1>3, OthersOwn DEF Typed, TypeOK
  <2> QED BY <1>3, <1>4, <2>1
<1>6. Own("me")' = Own("me")
  BY <1>4, <1>5
<1>7. /\ modal' = "busy" <=> Own("change")' # {}
      /\ Alone("change")'
  <2>1. CASE kind = "change"
    <3>1. Own("change")' = {c}
      BY <1>1, <1>5, <2>1
    <3> QED BY <2>1, <3>1 DEF Alone
  <2>2. CASE kind # "change"
    <3>1. Own("change")' = {d \in Own("change") : modal' # "shut"}
      BY <1>4, <1>5, <2>2
    <3> QED BY <1>1, <2>2, <3>1 DEF Alone
  <2> QED BY <2>1, <2>2
<1>8. Alone("me")' /\ (loading' <=> Own("me")' # {})
  BY <1>1, <1>6 DEF Alone
<1> QED BY <1>1, <1>2, <1>3, <1>4, <1>7, <1>8, SlotTyped DEF Working

LEMMA MeTyped ==
    ASSUME Typed, NEW c \in Slots, NEW status \in Statuses, MeReply(c, status)
    PROVE  Typed'
<1>1. /\ cookie' \in BOOLEAN /\ astray' \in BOOLEAN /\ Others(c, None) /\ UNCHANGED visits
      /\ call[c] # None /\ call[c].kind = "me"
      /\ place \in {"home", "login", "dashboard", "blank"} /\ auth \in BOOLEAN /\ loading \in BOOLEAN
      /\ modal \in {"shut", "open", "busy"}
      /\ auth => place = "dashboard" /\ ~loading
      /\ modal # "shut" => place = "dashboard" /\ auth /\ ~loading
      /\ place = "dashboard" => auth \/ loading
      /\ loading <=> Own("me") # {}
      /\ modal' = IF place' = "dashboard" THEN modal ELSE "shut"
      /\ c \notin Own("change")
  BY NoteTyped DEF MeReply, Replied, Ended, ModalGoesWithPage, Typed, TypeOK, Working, Own
<1>2. CASE call[c].mine
  <2>1. c \in Own("me") /\ loading /\ modal = "shut" /\ Admin(place)
    BY <1>1, <1>2 DEF Own, Typed, Attached
  <2>2. loading' = FALSE /\ modal' = "shut"
    BY <1>1, <1>2, <2>1 DEF MeReply, Loaded
  <2>3. /\ place' \in {"home", "login", "dashboard", "blank"} /\ auth' \in BOOLEAN
        /\ auth' => place' = "dashboard"
        /\ place' = "dashboard" => auth'
    <3>1. CASE place = "login" /\ status = "ok"
      BY <1>2, <3>1 DEF MeReply
    <3>2. CASE ~(place = "login" /\ status = "ok")
      <4>1. auth' = (status = "ok") /\ place' = Guarded(auth') /\ auth' \in BOOLEAN
        BY <1>2, <3>2 DEF MeReply
      <4>2. auth' => place = "dashboard"
        BY <2>1, <3>2, <4>1 DEF Admin
      <4> QED BY <2>2, <4>1, <4>2, GuardTyped
    <3> QED BY <3>1, <3>2
  <2> QED BY <1>1, <2>1, <2>2, <2>3, EndTyped
<1>3. CASE ~call[c].mine
  <2>1. /\ auth' = (auth /\ status # "unauthorized") /\ UNCHANGED loading
        /\ place' = Guarded(auth')
    BY <1>3 DEF MeReply, AfterUnauthorized
  <2>2. c \notin Own("me") /\ auth' \in BOOLEAN
    BY <1>1, <1>3, <2>1 DEF Own
  <2>3. modal' = "busy" <=> modal = "busy" /\ c \notin Own("change") /\ Admin(place') /\ modal' # "shut"
    BY <1>1 DEF Admin
  <2> QED BY <1>1, <2>1, <2>2, <2>3, AnswerTyped
<1> QED BY <1>2, <1>3

LEMMA LoginTyped ==
    ASSUME Typed, NEW c \in Slots, NEW status \in Statuses, LoginReply(c, status)
    PROVE  Typed'
<1>1. /\ call[c] # None /\ call[c].kind = "login" /\ call[c] \in Call
      /\ c \notin Own("me") /\ c \notin Own("change") /\ UNCHANGED visits
      /\ cookie' = (cookie \/ status = "ok") /\ cookie \in BOOLEAN
      /\ place \in {"home", "login", "dashboard", "blank"} /\ auth \in BOOLEAN /\ loading \in BOOLEAN
      /\ modal \in {"shut", "open", "busy"} /\ visits \in 0..MaxVisits
      /\ auth => place = "dashboard" /\ ~loading
      /\ modal # "shut" => place = "dashboard" /\ auth /\ ~loading
      /\ place = "dashboard" => auth \/ loading
      /\ loading <=> Own("me") # {}
      /\ modal = "busy" <=> Own("change") # {}
  BY DEF LoginReply, Replied, Typed, TypeOK, Working, Own
<1>2. cookie' \in BOOLEAN
  BY <1>1
<1>3. CASE status = "ok" /\ place = "home" /\ Mount("dashboard") /\ Ended(c, status, Fresh("me", FALSE, TRUE))
  <2>0. PICK left \in Call :
           left = Fresh("me", FALSE, TRUE) /\ left # None /\ left.kind = "me" /\ left.mine
    BY FreshTyped DEF Kinds
  <2>1. /\ place' = "dashboard" /\ auth' = FALSE /\ loading' = TRUE /\ modal' = "shut" /\ Admin(place')
        /\ Others(c, left) /\ astray' \in BOOLEAN
    BY <1>3, <2>0, NoteTyped DEF Mount, Admin, Ended
  <2>2. /\ cookie \in BOOLEAN /\ cookie' \in BOOLEAN
        /\ call \in [Slots -> Call \cup {None}]
    BY <1>1, <1>2 DEF Typed, TypeOK
  <2>3. Own("me") = {} /\ Own("change") = {}
    BY <1>3 DEF Typed, Attached, Own, Admin
  <2>4. \A kind : Own(kind)' = {d \in Own(kind) \ {c} :
                                  Admin(place') /\ (kind = "change" => modal' # "shut")}
                               \cup {d \in {c} : left # None /\ left.kind = kind /\ left.mine}
    <3>1. left \in Call \cup {None} /\ Others(c, left)
      BY <2>0, <2>1
    <3> QED BY <2>2, <3>1, OthersOwn
  <2>5. Own("me")' = {c} /\ Own("change")' = {}
    BY <2>0, <2>1, <2>3, <2>4
  <2>6. Alone("me")' /\ Alone("change")'
    BY <2>5 DEF Alone
  <2> QED BY <1>1, <1>2, <1>3, <2>0, <2>1, <2>5, <2>6, SlotTyped
<1>4. CASE /\ Admin(place) /\ auth' = (auth \/ call[c].mine) /\ UNCHANGED loading
           /\ place' = IF auth' \/ loading THEN "dashboard" ELSE "login"
           /\ ModalGoesWithPage /\ Ended(c, status, None)
  <2>1. astray' \in BOOLEAN /\ Others(c, None) /\ modal' = IF place' = "dashboard" THEN modal ELSE "shut"
    BY <1>4, NoteTyped DEF Ended, ModalGoesWithPage
  <2>2. auth' \in BOOLEAN /\ place' \in {"home", "login", "dashboard", "blank"} /\ loading' \in BOOLEAN
        /\ Admin(place')
    BY <1>1, <1>4 DEF Call, Admin
  <2>3. call[c].mine => ~loading
    BY <1>1 DEF Typed, Settled
  <2>4. /\ loading' <=> loading /\ c \notin Own("me") /\ Admin(place')
        /\ modal' = "busy" <=> modal = "busy" /\ c \notin Own("change") /\ Admin(place') /\ modal' # "shut"
    BY <1>1, <1>4, <2>1, <2>2
  <2>5. /\ auth' => place' = "dashboard" /\ ~loading'
        /\ modal' # "shut" => place' = "dashboard" /\ auth' /\ ~loading'
        /\ place' = "dashboard" => auth' \/ loading'
    BY <1>1, <1>4, <2>1, <2>3
  <2> QED BY <1>1, <1>2, <2>1, <2>2, <2>4, <2>5, EndTyped
<1>5. CASE /\ status # "ok" \/ place = "blank"
           /\ auth' = AfterUnauthorized(status) /\ UNCHANGED loading
           /\ place' = Guarded(auth') /\ ModalGoesWithPage
           /\ Ended(c, status, None)
  <2>1. astray' \in BOOLEAN /\ Others(c, None) /\ modal' = IF place' = "dashboard" THEN modal ELSE "shut"
    BY <1>5, NoteTyped DEF Ended, ModalGoesWithPage
  <2>2. auth' \in BOOLEAN /\ (auth' => auth)
    BY <1>1, <1>5 DEF AfterUnauthorized
  <2>3. modal' = "busy" <=> modal = "busy" /\ c \notin Own("change") /\ Admin(place') /\ modal' # "shut"
    BY <1>1, <2>1 DEF Admin
  <2> QED BY <1>1, <1>2, <1>5, <2>1, <2>2, <2>3, AnswerTyped
<1> QED BY <1>3, <1>4, <1>5 DEF LoginReply

LEMMA ReplyTyped ==
    ASSUME Typed, NEW c \in Slots, NEW status \in Statuses,
           LogoutReply(c, status) \/ WorkReply(c, status) \/ ChangeReply(c, status)
    PROVE  Typed'
<1>1. /\ call[c] # None /\ call[c].kind # "me" /\ c \notin Own("me") /\ Others(c, None)
      /\ UNCHANGED <<loading, visits>> /\ astray' \in BOOLEAN
      /\ place' = Guarded(auth') /\ auth \in BOOLEAN /\ cookie \in BOOLEAN
      /\ modal \in {"shut", "open", "busy"}
      /\ modal = "busy" <=> Own("change") # {}
  BY NoteTyped DEF LogoutReply, WorkReply, ChangeReply, Replied, Ended, Own, Typed, TypeOK
<1>2. cookie' \in BOOLEAN /\ auth' \in BOOLEAN /\ (auth' => auth)
  BY <1>1 DEF LogoutReply, WorkReply, ChangeReply, AfterUnauthorized
<1>3. /\ modal' \in {"shut", "open", "busy"}
      /\ place' # "dashboard" => modal' = "shut"
      /\ modal' # "shut" => modal # "shut"
      /\ modal' = "busy" <=> modal = "busy" /\ c \notin Own("change") /\ Admin(place') /\ modal' # "shut"
  <2>1. CASE LogoutReply(c, status) \/ WorkReply(c, status)
    <3>1. modal' = (IF place' = "dashboard" THEN modal ELSE "shut") /\ c \notin Own("change")
      BY <2>1 DEF LogoutReply, WorkReply, Replied, ModalGoesWithPage, Own
    <3> QED BY <1>1, <3>1 DEF Admin
  <2>2. CASE ChangeReply(c, status)
    <3>1. /\ c \in Own("change") <=> call[c].mine
          /\ modal' = IF place' # "dashboard" THEN "shut"
                      ELSE IF call[c].mine THEN AfterChange(status) ELSE modal
      BY <2>2 DEF ChangeReply, Replied, Own
    <3>2. CASE place' # "dashboard"
      BY <3>1, <3>2
    <3>3. CASE place' = "dashboard" /\ call[c].mine
      <4>1. modal = "busy"
        BY <1>1, <3>1, <3>3
      <4> QED BY <3>1, <3>3, <4>1 DEF AfterChange, Admin
    <3>4. CASE place' = "dashboard" /\ ~call[c].mine
      <4>1. modal' = modal
        BY <3>1, <3>4
      <4> QED BY <1>1, <3>1, <3>4, <4>1 DEF Admin
    <3> QED BY <3>2, <3>3, <3>4
  <2> QED BY <2>1, <2>2
<1> QED BY <1>1, <1>2, <1>3, AnswerTyped

\* The page does not see it.
LEMMA UnseenTyped ==
    ASSUME Typed, UNCHANGED <<place, auth, loading, modal, visits>>,
           cookie' \in BOOLEAN, astray' \in BOOLEAN, call' \in [Slots -> Call \cup {None}],
           \A d \in Slots : /\ call[d] = None <=> call'[d] = None
                            /\ call[d] # None => call'[d].kind = call[d].kind /\ call'[d].mine = call[d].mine
    PROVE  Typed'
<1>1. \A kind : Own(kind)' = Own(kind)
  BY DEF Own
<1>2. Own("me")' = Own("me") /\ Own("change")' = Own("change")
  BY <1>1
<1>3. Alone("me")' /\ Alone("change")'
  BY <1>2 DEF Typed, Alone
<1>4. Attached' /\ Settled'
  BY DEF Typed, Attached, Settled
<1>5. TypeOK'
  BY <1>2 DEF Typed, TypeOK, Working
<1> QED BY <1>3, <1>4, <1>5 DEF Typed

LEMMA ServerTyped ==
    ASSUME Typed, (\E c \in Slots : Serve(c)) \/ Expire \/ OtherTab
    PROVE  Typed'
<1>0. call \in [Slots -> Call \cup {None}] /\ cookie \in BOOLEAN /\ astray \in BOOLEAN
  BY DEF Typed, TypeOK
<1>1. ASSUME NEW c \in Slots, Serve(c)
      PROVE  Typed'
  <2>1. PICK status \in {Judged(call[c])} \cup (IF Faults THEN {"error"} ELSE {}) :
           call' = [call EXCEPT ![c] = [call[c] EXCEPT !.status = status]]
    BY <1>1 DEF Serve
  <2>2. call[c] # None /\ call[c] \in Call /\ UNCHANGED <<place, auth, loading, modal, cookie, visits, astray>>
    BY <1>0, <1>1 DEF Serve, page
  <2>3. status \in Statuses
    <3>1. call[c].kind \in Kinds /\ call[c].right \in BOOLEAN /\ call[c].token \in BOOLEAN
      BY <2>2 DEF Call
    <3> QED BY <3>1 DEF Judged, Kinds, Statuses
  <2>4. /\ [call[c] EXCEPT !.status = status] \in Call
        /\ [call[c] EXCEPT !.status = status].kind = call[c].kind
        /\ [call[c] EXCEPT !.status = status].mine = call[c].mine
    BY <2>2, <2>3 DEF Call
  <2> QED BY <1>0, <2>1, <2>2, <2>4, UnseenTyped
<1>2. ASSUME NEW d \in Slots, call[d] # None
      PROVE  /\ [call[d] EXCEPT !.late = TRUE] \in Call
             /\ [call[d] EXCEPT !.late = TRUE].kind = call[d].kind
             /\ [call[d] EXCEPT !.late = TRUE].mine = call[d].mine
             /\ [call[d] EXCEPT !.late = TRUE, !.token = FALSE] \in Call
             /\ [call[d] EXCEPT !.late = TRUE, !.token = FALSE].kind = call[d].kind
             /\ [call[d] EXCEPT !.late = TRUE, !.token = FALSE].mine = call[d].mine
  <2>1. call[d] \in Call
    BY <1>0, <1>2
  <2> QED BY <2>1 DEF Call
<1>3. CASE Expire
  <2>1. /\ UNCHANGED <<place, auth, loading, modal, visits>> /\ cookie' \in BOOLEAN /\ astray' \in BOOLEAN
        /\ call' = [d \in Slots |-> IF call[d] = None THEN None
                                    ELSE [call[d] EXCEPT !.late = TRUE, !.token = FALSE]]
    BY <1>3, NoteTyped DEF Expire, page
  <2> QED BY <1>2, <2>1, UnseenTyped
<1>4. CASE OtherTab
  <2>1. /\ UNCHANGED <<place, auth, loading, modal, visits>> /\ cookie' \in BOOLEAN /\ astray' \in BOOLEAN
        /\ call' = [d \in Slots |-> IF call[d] = None THEN None ELSE [call[d] EXCEPT !.late = TRUE]]
    BY <1>0, <1>4, NoteTyped DEF OtherTab, page
  <2> QED BY <1>2, <2>1, UnseenTyped
<1> QED BY <1>1, <1>3, <1>4

LEMMA AdministratorTyped ==
    ASSUME Typed, Administrator
    PROVE  Typed'
<1>0. /\ place \in {"home", "login", "dashboard", "blank"} /\ auth \in BOOLEAN /\ loading \in BOOLEAN
      /\ modal \in {"shut", "open", "busy"} /\ cookie \in BOOLEAN /\ astray \in BOOLEAN
      /\ call \in [Slots -> Call \cup {None}] /\ visits \in 0..MaxVisits
      /\ modal # "shut" => Working
      /\ Working => place = "dashboard" /\ auth /\ ~loading /\ Admin(place)
      /\ modal = "busy" <=> Own("change") # {}
  BY DEF Typed, TypeOK, Working, Admin
<1>1. ASSUME NEW p \in {"home", "login", "dashboard"}, Load(p)
      PROVE  Typed'
  <2>1. visits' \in 0..MaxVisits /\ astray' \in BOOLEAN /\ cookie' \in BOOLEAN
    BY <1>0, <1>1, NoCauseTyped DEF Load, Visit
  <2> QED BY <1>0, <1>1, <2>1, MountTyped DEF Load
<1>2. ASSUME NEW p \in {"home", "login", "dashboard"}, Enter(p)
      PROVE  Typed'
  <2>1. visits' \in 0..MaxVisits /\ astray' \in BOOLEAN /\ cookie' \in BOOLEAN
    BY <1>0, <1>2, NoCauseTyped DEF Enter, Visit
  <2>2. PICK c \in Slots : call[c] = None /\ call' = [call EXCEPT ![c] = Fresh("me", FALSE, cookie)]
    BY <1>2 DEF Enter
  <2>3. /\ Fresh("me", FALSE, cookie) \in Call /\ Fresh("me", FALSE, cookie) # None
        /\ Fresh("me", FALSE, cookie).kind = "me" /\ Fresh("me", FALSE, cookie).mine
    <3>1. cookie \in BOOLEAN
      BY <1>0
    <3> QED BY <3>1, FreshTyped DEF Kinds
  <2>4. /\ place' = p /\ auth' = FALSE /\ loading' = TRUE /\ modal' = "shut" /\ Admin(place')
        /\ \A d \in Slots : call[d] # None => ~call[d].mine
    BY <1>2 DEF Enter, Mount, Typed, Attached, Admin
  <2>5. /\ call' \in [Slots -> Call \cup {None}]
        /\ call'[c] # None /\ call'[c].kind = "me" /\ call'[c].mine
        /\ \A d \in Slots : d # c /\ call'[d] # None => ~call'[d].mine
    BY <1>0, <2>2, <2>3, <2>4
  <2>6. Own("me")' = {c} /\ Own("change")' = {}
    BY <2>5 DEF Own
  <2>7. Alone("me")' /\ Alone("change")' /\ Attached' /\ Settled'
    BY <2>4, <2>5, <2>6 DEF Alone, Attached, Settled
  <2>8. TypeOK'
    BY <1>2, <2>1, <2>4, <2>5, <2>6 DEF TypeOK
  <2> QED BY <2>7, <2>8 DEF Typed
<1>3. CASE Leave
  <2>1. /\ place' = "home" /\ auth' = FALSE /\ loading' = FALSE /\ modal' = "shut"
        /\ cookie' = cookie /\ visits' = visits /\ astray' \in BOOLEAN /\ ~Admin(place')
    <3>1. Mount("home") /\ Note(FALSE, FALSE) /\ UNCHANGED <<cookie, visits>>
      BY <1>3 DEF Leave
    <3>2. astray' \in BOOLEAN
      BY <3>1, NoCauseTyped
    <3>3. Admin("home") = FALSE
      BY DEF Admin
    <3> QED BY <3>1, <3>2, <3>3 DEF Mount
  <2>2. ASSUME NEW d \in Slots, call[d] # None
        PROVE  Aged(d) \in Call /\ ~Aged(d).mine
    <3>1. call[d] \in Call
      BY <1>0, <2>2
    <3>2. (call[d].late \/ cookie' # cookie) \in BOOLEAN
      BY <3>1 DEF Call
    <3>3. (call[d].mine /\ Admin(place') /\ (call[d].kind = "change" => modal' # "shut")) = FALSE
      BY <2>1
    <3> QED BY <3>1, <3>2, <3>3 DEF Aged, Call
  <2>3. call' = [d \in Slots |-> IF call[d] = None THEN None ELSE Aged(d)]
    BY <1>3 DEF Leave
  <2>4. /\ call' \in [Slots -> Call \cup {None}]
        /\ \A d \in Slots : call'[d] # None => ~call'[d].mine
    BY <2>2, <2>3
  <2>5. Own("me")' = {} /\ Own("change")' = {}
    BY <2>4 DEF Own
  <2>6. Alone("me")' /\ Alone("change")' /\ Attached' /\ Settled'
    BY <2>4, <2>5 DEF Alone, Attached, Settled
  <2>7. TypeOK'
    BY <1>0, <2>1, <2>4, <2>5 DEF TypeOK
  <2> QED BY <2>6, <2>7 DEF Typed
<1>4. ASSUME NEW right \in BOOLEAN, SubmitLogin(right)
      PROVE  Typed'
  <2>1. Admin(place) /\ ~loading /\ modal' = modal /\ Sends("login", right)
    BY <1>4 DEF SubmitLogin, Admin
  <2> QED BY <1>0, <2>1, SendTyped DEF Kinds
<1>5. ASSUME NEW right \in BOOLEAN, SubmitChange(right)
      PROVE  Typed'
  <2>1. modal = "open" /\ modal' = "busy" /\ Sends("change", right)
    BY <1>5 DEF SubmitChange
  <2> QED BY <1>0, <2>1, SendTyped DEF Kinds
<1>6. CASE Work \/ Logout
  <2>1. \E kind \in {"work", "logout"} :
           Working /\ modal' \in {"shut", modal} /\ Sends(kind, FALSE)
    BY <1>6 DEF Work, Logout
  <2> QED BY <1>0, <2>1, SendTyped DEF Kinds
<1>7. CASE OpenModal \/ CloseModal
  <2>1. /\ UNCHANGED <<place, auth, loading, cookie, call, visits, astray>>
        /\ modal' \in {"shut", "open"} /\ modal # "busy" /\ (modal' # "shut" => Working)
    BY <1>7 DEF OpenModal, CloseModal
  <2>2. Own("me")' = Own("me") /\ Own("change")' = Own("change")
    BY <2>1 DEF Own
  <2>3. Alone("me")' /\ Alone("change")' /\ Attached' /\ Settled'
    BY <2>1, <2>2 DEF Typed, Alone, Attached, Settled
  <2>4. TypeOK'
    BY <2>1, <2>2 DEF Typed, TypeOK, Working
  <2> QED BY <2>3, <2>4 DEF Typed
<1> QED BY <1>1, <1>2, <1>3, <1>4, <1>5, <1>6, <1>7 DEF Administrator

LEMMA NextTyped ==
    ASSUME Typed, [Next]_vars
    PROVE  Typed'
<1>1. CASE UNCHANGED vars
  BY <1>1 DEF vars, page, Typed, TypeOK, Alone, Attached, Settled, Own, Working
<1>2. ASSUME NEW c \in Slots, Reply(c)
      PROVE  Typed'
  BY <1>2, MeTyped, LoginTyped, ReplyTyped DEF Reply
<1> QED BY <1>1, <1>2, ServerTyped, AdministratorTyped DEF Next

\* Types; the provider is loading exactly while its /me is under way, the dialog is busy
\* exactly while its change is, and the dashboard is shown to nobody else, for any number
\* of calls in flight (AdminAuthContext, ProtectedRoute, ChangePasswordModal).
THEOREM TypesHold == Spec => []TypeOK
<1>1. Typed => TypeOK
  BY DEF Typed
<1> QED BY <1>1, InitTyped, NextTyped, PTL DEF Spec

-----------------------------------------------------------------------------
(* The page and the cookie. *)

\* What a call that is not late, and its answer, say about the cookie.
Timely(c) ==
    call[c] # None /\ ~call[c].late =>
        /\ call[c].token = cookie
        /\ call[c].kind = "me" /\ call[c].status = "ok" => call[c].token
        /\ call[c].kind = "logout" => call[c].status # "unauthorized"

Answers == \A c \in Slots : Timely(c)

LEMMA InitAnswers == Init => Answers
<1> SUFFICES ASSUME Init, NEW c \in Slots, call[c] # None
             PROVE  call[c] = Fresh("me", FALSE, cookie)
  BY DEF Answers, Timely, Fresh
<1> QED BY DEF Init, FirstCall

\* The calls that go on with a step.
LEMMA OthersAnswers ==
    ASSUME Typed, Answers, cookie' \in BOOLEAN, NEW c \in Slots, NEW left \in Call \cup {None},
           Others(c, left),
           left # None => left.token = cookie' /\ left.status = "pending"
    PROVE  Answers'
<1>1. /\ call \in [Slots -> Call \cup {None}] /\ cookie \in BOOLEAN
  BY DEF Typed, TypeOK
<1>2. /\ call'[c] = left
      /\ \A d \in Slots \ {c} :
           IF call[d] = None THEN call'[d] = None
           ELSE /\ call'[d].kind = call[d].kind /\ call'[d].token = call[d].token
                /\ call'[d].status = call[d].status
                /\ call'[d].late = (call[d].late \/ cookie' # cookie)
  BY <1>1, OthersTyped
<1>3. Timely(c)'
  BY <1>2 DEF Timely
<1>4. ASSUME NEW d \in Slots \ {c}
      PROVE  Timely(d)'
  BY <1>2 DEF Answers, Timely
<1> QED BY <1>3, <1>4 DEF Answers

LEMMA AdministratorAnswers ==
    ASSUME Typed, Typed', Answers, Administrator
    PROVE  Answers'
<1>0. /\ call \in [Slots -> Call \cup {None}] /\ cookie \in BOOLEAN /\ cookie' \in BOOLEAN
      /\ cookie' = cookie
  BY DEF Typed, TypeOK, Administrator, Load, Enter, Leave, SubmitLogin, SubmitChange, Work, Logout,
         Sends, OpenModal, CloseModal
<1>1. ASSUME NEW p, Load(p)
      PROVE  Answers'
  <2>1. ASSUME NEW c \in Slots, call'[c] # None
        PROVE  call'[c] = Fresh("me", FALSE, cookie)
    BY <1>1, <2>1 DEF Load, FirstCall
  <2> QED BY <1>0, <2>1 DEF Answers, Timely, Fresh
<1>2. ASSUME NEW p, Enter(p)
      PROVE  Answers'
  <2>1. PICK c \in Slots : call' = [call EXCEPT ![c] = Fresh("me", FALSE, cookie)]
    BY <1>2 DEF Enter
  <2>2. call'[c] = Fresh("me", FALSE, cookie) /\ \A d \in Slots \ {c} : call'[d] = call[d]
    BY <1>0, <2>1
  <2> QED BY <1>0, <2>2 DEF Answers, Timely, Fresh
<1>3. CASE Leave
  <2>1. ASSUME NEW d \in Slots, call'[d] # None
        PROVE  /\ call[d] # None /\ call'[d].kind = call[d].kind /\ call'[d].token = call[d].token
               /\ call'[d].status = call[d].status /\ (call[d].late => call'[d].late)
    <3>1. call[d] \in Call /\ call'[d] = Aged(d) /\ call[d] # None
      BY <1>0, <1>3, <2>1 DEF Leave
    <3> QED BY <3>1 DEF Aged, Call
  <2> QED BY <1>0, <2>1 DEF Answers, Timely
<1>4. ASSUME NEW kind \in Kinds, NEW right \in BOOLEAN, Sends(kind, right)
      PROVE  Answers'
  <2>1. PICK c \in Slots : Others(c, Fresh(kind, right, cookie))
    BY <1>4 DEF Sends
  <2>2. Fresh(kind, right, cookie) \in Call
    BY <1>0, FreshTyped
  <2>3. Fresh(kind, right, cookie).token = cookie' /\ Fresh(kind, right, cookie).status = "pending"
    BY <1>0 DEF Fresh
  <2> QED BY <1>0, <2>1, <2>2, <2>3, OthersAnswers
<1>5. CASE OpenModal \/ CloseModal
  BY <1>0, <1>5 DEF OpenModal, CloseModal, Answers, Timely
<1>6. /\ "login" \in Kinds /\ "change" \in Kinds /\ "work" \in Kinds /\ "logout" \in Kinds
      /\ FALSE \in BOOLEAN
  BY DEF Kinds
<1> QED BY <1>1, <1>2, <1>3, <1>4, <1>5, <1>6 DEF Administrator, SubmitLogin, SubmitChange, Work, Logout

LEMMA ReplyAnswers ==
    ASSUME Typed, Typed', Answers, NEW c \in Slots, Reply(c)
    PROVE  Answers'
<1>0. cookie' \in BOOLEAN
  BY DEF Typed, TypeOK
<1>1. CASE Others(c, None)
  BY <1>0, <1>1, OthersAnswers
<1>2. CASE cookie' = TRUE /\ Others(c, Fresh("me", FALSE, TRUE))
  <2>1. Fresh("me", FALSE, TRUE) \in Call
    BY FreshTyped DEF Kinds
  <2>2. Fresh("me", FALSE, TRUE).token = cookie' /\ Fresh("me", FALSE, TRUE).status = "pending"
    BY <1>2 DEF Fresh
  <2> QED BY <1>0, <1>2, <2>1, <2>2, OthersAnswers
<1> QED
  BY <1>1, <1>2 DEF Reply, MeReply, LoginReply, LogoutReply, WorkReply, ChangeReply, Ended

LEMMA ServerAnswers ==
    ASSUME Typed, Typed', Answers, (\E c \in Slots : Serve(c)) \/ Expire \/ OtherTab
    PROVE  Answers'
<1>0. call \in [Slots -> Call \cup {None}]
  BY DEF Typed, TypeOK
<1>1. ASSUME NEW c \in Slots, Serve(c)
      PROVE  Answers'
  <2>1. PICK status \in {Judged(call[c])} \cup (IF Faults THEN {"error"} ELSE {}) :
           call' = [call EXCEPT ![c] = [call[c] EXCEPT !.status = status]]
    BY <1>1 DEF Serve
  <2>2. call[c] # None /\ call[c] \in Call /\ cookie' = cookie
    BY <1>0, <1>1 DEF Serve
  <2>3. /\ call[c].kind = "me" /\ status = "ok" => call[c].token
        /\ call[c].kind = "logout" => status # "unauthorized"
    BY <2>2 DEF Call, Judged
  <2>4. /\ call'[c].kind = call[c].kind /\ call'[c].token = call[c].token
        /\ call'[c].late = call[c].late /\ call'[c].status = status
        /\ \A d \in Slots \ {c} : call'[d] = call[d]
    BY <1>0, <2>1, <2>2 DEF Call
  <2>5. Timely(c)'
    BY <2>2, <2>3, <2>4 DEF Answers, Timely
  <2>6. ASSUME NEW d \in Slots \ {c}
        PROVE  Timely(d)'
    BY <2>2, <2>4 DEF Answers, Timely
  <2> QED BY <2>5, <2>6 DEF Answers
<1>2. CASE Expire \/ OtherTab
  <2>1. ASSUME NEW d \in Slots, call'[d] # None
        PROVE  call'[d].late
    <3>1. call[d] # None /\ call[d] \in Call
      BY <1>0, <1>2, <2>1 DEF Expire, OtherTab
    <3>2. call'[d] \in {[call[d] EXCEPT !.late = TRUE, !.token = FALSE], [call[d] EXCEPT !.late = TRUE]}
      BY <1>2, <3>1 DEF Expire, OtherTab
    <3> QED BY <3>1, <3>2 DEF Call
  <2> QED BY <2>1 DEF Answers, Timely
<1> QED BY <1>1, <1>2

LEMMA NextAnswers ==
    ASSUME Typed, Typed', Answers, [Next]_vars
    PROVE  Answers'
<1>1. CASE UNCHANGED vars
  BY <1>1 DEF vars, Answers, Timely
<1> QED BY <1>1, AdministratorAnswers, ReplyAnswers, ServerAnswers DEF Next

\* An answer that is no Cause leaves them as they were, and a telling one makes them agree.
LEMMA ReplyAgrees ==
    ASSUME Typed, Typed', Answers, NEW c \in Slots, NEW status \in Statuses,
           \/ MeReply(c, status) \/ LoginReply(c, status) \/ LogoutReply(c, status)
           \/ WorkReply(c, status) \/ ChangeReply(c, status),
           ~Cause(c, status), Disagree'
    PROVE  Disagree /\ ~Telling(c, status)
<1>1. /\ call[c] # None /\ call[c].mine /\ ~call[c].late /\ call[c].kind \in Kinds
      /\ call[c].token = cookie /\ cookie \in BOOLEAN /\ auth \in BOOLEAN /\ loading \in BOOLEAN
      /\ call[c].kind = "me" /\ call[c].status = "ok" => call[c].token
      /\ call[c].kind = "logout" => call[c].status # "unauthorized"
      /\ status \in {"error", call[c].status}
      /\ status = "error" => call[c].kind \notin {"me", "logout"}
      /\ status = "unauthorized" => call[c].kind # "login" /\ ~call[c].token
      /\ Admin(place) /\ (place = "dashboard" => auth \/ loading)
      /\ call[c].kind # "me" => ~loading
      /\ auth => place = "dashboard"
      /\ Admin(place') /\ ~loading' /\ auth' # cookie'
  BY DEF MeReply, LoginReply, LogoutReply, WorkReply, ChangeReply, Replied, Outcomes, Cause,
         Answers, Timely, Typed, TypeOK, Attached, Settled, Disagree, Call
<1>2. CASE MeReply(c, status)
  <2>1. cookie' = cookie /\ (auth' = (status = "ok") \/ place' = "blank")
    BY <1>1, <1>2 DEF MeReply
  <2>2. status = "ok" \/ status = "unauthorized"
    BY <1>1, <1>2 DEF MeReply, Replied, Statuses
  <2> QED BY <1>1, <1>2, <2>1, <2>2 DEF MeReply, Replied, Admin
<1>3. CASE LoginReply(c, status)
  <2>1. status # "ok" /\ auth' = (auth /\ status # "unauthorized")
    BY <1>1, <1>3 DEF LoginReply, AfterUnauthorized, Mount, Admin, Replied
  <2>2. status = "error" /\ cookie' = cookie /\ auth' = auth
    BY <1>1, <1>3, <2>1 DEF LoginReply, Replied, Statuses
  <2> QED BY <1>1, <1>3, <2>2 DEF Disagree, Telling, LoginReply, Replied
<1>4. CASE LogoutReply(c, status)
  <2>1. status = "ok"
    BY <1>1, <1>4 DEF LogoutReply, Replied, Statuses
  <2> QED BY <1>1, <1>4, <2>1 DEF LogoutReply
<1>5. CASE WorkReply(c, status) \/ ChangeReply(c, status)
  <2>1. auth' = (auth /\ status # "unauthorized") /\ UNCHANGED <<loading, cookie>>
        /\ call[c].kind \in {"work", "change"}
    BY <1>5 DEF WorkReply, ChangeReply, AfterUnauthorized, Replied
  <2>2. status # "unauthorized"
    BY <1>1, <2>1
  <2> QED BY <1>1, <2>1, <2>2 DEF Disagree, Telling
<1> QED BY <1>2, <1>3, <1>4, <1>5

LEMMA NextAgrees ==
    ASSUME Typed, Typed', Answers, PageMatchesCookie, [Next]_vars
    PROVE  PageMatchesCookie'
<1> USE DEF PageMatchesCookie
<1>1. CASE UNCHANGED vars
  BY <1>1 DEF vars, page, Disagree
<1>2. ASSUME NEW c \in Slots, Reply(c)
      PROVE  PageMatchesCookie'
  <2>1. PICK status \in Statuses :
           \/ MeReply(c, status) \/ LoginReply(c, status) \/ LogoutReply(c, status)
           \/ WorkReply(c, status) \/ ChangeReply(c, status)
    BY <1>2 DEF Reply
  <2>2. Note(Cause(c, status), Telling(c, status))
    BY <2>1 DEF MeReply, LoginReply, LogoutReply, WorkReply, ChangeReply, Ended
  <2>3. ~Cause(c, status) /\ Disagree' => Disagree /\ ~Telling(c, status)
    BY <2>1, ReplyAgrees
  <2> QED BY <2>2, <2>3 DEF Note
<1>3. CASE (\E c \in Slots : Serve(c)) \/ OpenModal \/ CloseModal
  BY <1>3 DEF Serve, OpenModal, CloseModal, page, Disagree
<1>4. CASE Expire \/ OtherTab
  BY <1>4 DEF Expire, OtherTab, Note
<1>5. CASE (\E p \in {"home", "login", "dashboard"} : Load(p) \/ Enter(p)) \/ Leave
  <2>1. loading' = Admin(place')
    BY <1>5 DEF Load, Enter, Leave, Mount, Admin
  <2> QED BY <2>1 DEF Disagree
<1>6. ASSUME NEW kind, NEW right, Sends(kind, right)
      PROVE  PageMatchesCookie'
  BY <1>6 DEF Sends, Disagree
<1> QED
  BY <1>1, <1>2, <1>3, <1>4, <1>5, <1>6 DEF Next, Administrator, SubmitLogin, SubmitChange, Work, Logout

\* What the page believes about the session is what the cookie says, unless one of the
\* known Causes made them differ, and no timely answer that tells has come since, for any
\* number of calls in flight and any order of their answers (AdminAuthContext, api.ts).
THEOREM PageAgrees == Spec => []PageMatchesCookie
<1>1. Init => PageMatchesCookie
  BY DEF Init, PageMatchesCookie, Disagree
<1> QED BY <1>1, InitTyped, NextTyped, InitAnswers, NextAnswers, NextAgrees, PTL DEF Spec

=============================================================================
