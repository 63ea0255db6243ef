----------------------------- MODULE MCVoteFlow -----------------------------
(* VoteFlow on small instances. *)
EXTENDS VoteFlow, TLC

CONSTANTS f1, f2, c1, c2

\* The capitals that the addresses below use.
Lowered(x) ==
    CASE x = "A" -> "a"
      [] x = "Gmail.com" -> "gmail.com"
      [] OTHER -> x

Asks(a, f, c) == [email |-> a, fp |-> f, cand |-> c]

\* Two mailboxes and how their owners write them.
Outlook  == [local |-> <<"a", ".", "b", "+", "a">>, domain |-> "outlook.com"]
Gmail1   == [local |-> <<"a", "b">>, domain |-> "Gmail.com"]
Gmail2   == [local |-> <<"A", ".", "b", "+">>, domain |-> "googlemail.com"]

AllAddresses == {Outlook, Gmail1, Gmail2}
OneAddress   == {Gmail2}

\* Two voters; the second one asks from the device of the first for one candidate and,
\* with the other spelling, from another device for the other: a mixture of the two
\* requests of that mailbox is no ballot.
CrossBallots == {Asks(Outlook, f1, c1), Asks(Gmail1, f1, c2), Asks(Gmail2, f2, c1)}

\* One voter.
OneBallot == {Asks(Gmail2, f1, c1)}

HandlerSymmetry == Permutations(Handlers)
=============================================================================
