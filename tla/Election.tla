------------------------------ MODULE Election ------------------------------
(***************************************************************************)
(* What the voting application promises of one election: a ballot box that *)
(* holds at most one ballot per e-mail address and per device, and only    *)
(* ballots for candidates on the roll.  VoteFlow, the model of the code,   *)
(* is shown to implement this specification.                               *)
(***************************************************************************)
CONSTANTS
    Candidates,    \* ids of the candidates table
    Ballots        \* [email, fp, cand]: who may ask to vote for whom, from where

VARIABLES
    box,           \* the ballots on record
    roll           \* candidate -> "new" (not added yet), "listed" or "gone"

vars == <<box, roll>>

Conflict(a, b) == a.email = b.email \/ a.fp = b.fp

Init ==
    /\ box = {}
    /\ roll \in [Candidates -> {"new", "listed"}]

\* A ballot is recorded: nobody voted with its address or its device before.
Cast(b) ==
    /\ roll[b.cand] = "listed"
    /\ \A a \in box : ~Conflict(a, b)
    /\ box' = box \cup {b}
    /\ UNCHANGED roll

\* The administrator adds a candidate.
List(c) ==
    /\ roll[c] = "new"
    /\ roll' = [roll EXCEPT ![c] = "listed"]
    /\ UNCHANGED box

\* The administrator removes a candidate, and the ballots for it go with it.
Withdraw(c) ==
    /\ roll[c] = "listed"
    /\ roll' = [roll EXCEPT ![c] = "gone"]
    /\ box' = {b \in box : b.cand # c}

Next ==
    \/ \E b \in Ballots : Cast(b)
    \/ \E c \in Candidates : List(c) \/ Withdraw(c)

Spec == Init /\ [][Next]_vars

-----------------------------------------------------------------------------
\* No two ballots of one address or one device, and each for a candidate on the roll.
Sound ==
    /\ roll \in [Candidates -> {"new", "listed", "gone"}]
    /\ box \subseteq Ballots
    /\ \A a, b \in box : Conflict(a, b) => a = b
    /\ \A b \in box : roll[b.cand] = "listed"
=============================================================================
