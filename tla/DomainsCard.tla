------------------------------ MODULE DomainsCard ------------------------------
(***************************************************************************)
(* The custom e-mail domains on the administrator's dashboard: the list,   *)
(* the input that adds one, the buttons that delete one, and the endpoints *)
(* behind them.  Texts are domains here.  The mode switch of the same card *)
(* is in SettingsCards.                                                    *)
(***************************************************************************)
EXTENDS ListCard

VARIABLES
    newDomain,  \* the input: a domain, or None while it is blank
    adding,     \* domainAddLoading
    deletingId  \* domainDeleteLoadingId, or None: one for all deletions

domainsVars == <<newDomain, adding, deletingId>>

-----------------------------------------------------------------------------
DomainsInit == newDomain = None /\ adding = FALSE /\ deletingId = None

DomainsMount == MountList /\ newDomain' = None /\ adding' = FALSE /\ deletingId' = None

EnterDomain ==
    /\ newDomain' \in (Texts \cup {None}) \ {newDomain}
    /\ UNCHANGED <<listVars, adding, deletingId>>

\* By the button or the Enter key.
AddDomain ==
    /\ ~adding /\ newDomain # None
    /\ Send("add", None, newDomain)
    /\ adding' = TRUE
    /\ UNCHANGED <<newDomain, deletingId>>

\* Only the button of the deletion begun last is disabled.
DeleteDomain(i) ==
    /\ deletingId # i
    /\ Send("delete", i, None)
    /\ deletingId' = i
    /\ UNCHANGED <<newDomain, adding>>

-----------------------------------------------------------------------------
(* The continuations: handleAddDomain, handleDeleteDomain. *)

DomainsDone(goal) ==
    /\ adding' = (adding /\ goal # "add")
    /\ deletingId' = IF goal = "delete" THEN None ELSE deletingId

DomainsChanged(c) ==
    /\ ChangeReply(c, TRUE)
    /\ newDomain' = IF call[c].kind = "add" THEN None ELSE newDomain
    /\ UNCHANGED <<adding, deletingId>>

DomainsFailed(c) == ChangeReply(c, FALSE) /\ DomainsDone(call[c].kind) /\ UNCHANGED newDomain

DomainsListed(c) ==
    /\ \E ok \in BOOLEAN : ListReply(c, ok)
    /\ DomainsDone(call[c].goal)
    /\ UNCHANGED newDomain

DomainsReply(c) == DomainsChanged(c) \/ DomainsFailed(c) \/ DomainsListed(c)

-----------------------------------------------------------------------------
(* The server: the handlers AddDomain, DeleteDomain, ListDomains. *)

Allows(a) == IF a.kind = "add" THEN \A i \in Stored : rows[i] # a.text ELSE a.id \in Stored

Outcome(a) == IF a.kind = "add" THEN Inserted(a.text) ELSE Deleted(a.id)

DomainsServe(c) ==
    /\ \/ ServeList(c)
       \/ /\ Waits(c) /\ call[c].kind # "list" /\ Allows(call[c])
          /\ Serve(c, Outcome(call[c]))
       \/ /\ Waits(c) /\ (CallFaults \/ (call[c].kind # "list" /\ ~Allows(call[c])))
          /\ Refuse(c)
    /\ UNCHANGED domainsVars

DomainsStray ==
    /\ DropStray \/ \E s \in stray : Allows(s) /\ ServeStray(s, Outcome(s))
    /\ UNCHANGED domainsVars

-----------------------------------------------------------------------------
DomainsNext ==
    \/ DomainsMount
    \/ EnterDomain \/ AddDomain
    \/ \E i \in Offered : DeleteDomain(i)
    \/ \E c \in Slots : DomainsReply(c) \/ DomainsServe(c)
    \/ DomainsStray
    \/ OtherAdministrator /\ UNCHANGED domainsVars

\* Types; the input is busy exactly while its handler runs, and a button is disabled
\* only while some deletion is under way.
DomainsTypeOK ==
    /\ ListTypeOK
    /\ newDomain \in Texts \cup {None} /\ adding \in BOOLEAN
    /\ deletingId \in Ids \cup {None}
    /\ adding <=> \E c \in Slots : call[c] # None /\ call[c].goal = "add"
    /\ deletingId # None => \E c \in Slots : call[c] # None /\ call[c].goal = "delete"

=============================================================================
