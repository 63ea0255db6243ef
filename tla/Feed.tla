-------------------------------- MODULE Feed --------------------------------
(***************************************************************************)
(* What the hub promises of the broadcasts: each subscriber reads all that *)
(* is posted from the moment it joins, in order and once, until it leaves, *)
(* which it does once and for ever; and the next payload is posted only    *)
(* when everybody has been given the one before.  Hub, the model of the    *)
(* code, is shown to implement this specification.                         *)
(***************************************************************************)
EXTENDS Naturals, Sequences

CONSTANTS Subscribers, Payloads

VARIABLES
    log,      \* what was posted, in order
    place,    \* subscriber -> "out", "in" or "left"
    next,     \* subscriber -> how much of the log lies behind it
    got       \* subscriber -> what it read, in order

vars == <<log, place, next, got>>

Init ==
    /\ log = <<>>
    /\ place = [s \in Subscribers |-> "out"]
    /\ next = [s \in Subscribers |-> 0]
    /\ got = [s \in Subscribers |-> <<>>]

Post(v) ==
    /\ \A s \in Subscribers : place[s] = "in" => next[s] = Len(log)
    /\ log' = Append(log, v)
    /\ UNCHANGED <<place, next, got>>

Join(s) ==
    /\ place[s] = "out"
    /\ place' = [place EXCEPT ![s] = "in"]
    /\ next' = [next EXCEPT ![s] = Len(log)]
    /\ UNCHANGED <<log, got>>

Read(s) ==
    /\ place[s] = "in"
    /\ next[s] < Len(log)
    /\ next' = [next EXCEPT ![s] = @ + 1]
    /\ got' = [got EXCEPT ![s] = Append(@, log[next[s] + 1])]
    /\ UNCHANGED <<log, place>>

Leave(s) ==
    /\ place[s] = "in"
    /\ place' = [place EXCEPT ![s] = "left"]
    /\ UNCHANGED <<log, next, got>>

Next ==
    \/ \E v \in Payloads : Post(v)
    \/ \E s \in Subscribers : Join(s) \/ Read(s) \/ Leave(s)

Spec == Init /\ [][Next]_vars

-----------------------------------------------------------------------------
\* What a subscriber read is a piece of the log that ends where it stands.
Behind(s) ==
    /\ Len(got[s]) <= next[s]
    /\ next[s] <= Len(log)
    /\ \A i \in 1..Len(got[s]) : got[s][i] = log[next[s] - Len(got[s]) + i]
    /\ place[s] = "out" => got[s] = <<>>

Sound ==
    /\ log \in Seq(Payloads)
    /\ place \in [Subscribers -> {"out", "in", "left"}]
    /\ next \in [Subscribers -> Nat]
    /\ got \in [Subscribers -> Seq(Payloads)]
    /\ \A s \in Subscribers : Behind(s)

\* That piece begins where the subscriber joined: it moves on by reading only.
StartStays ==
    \A s \in Subscribers : place[s] # "out" =>
        next'[s] - Len(got'[s]) = next[s] - Len(got[s])

NoneSkipped == [][StartStays]_vars
=============================================================================
