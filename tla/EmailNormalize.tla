--------------------------- MODULE EmailNormalize ---------------------------
(***************************************************************************)
(* The key under which the backend knows a voter: normalizeEmail, applied  *)
(* by both voter endpoints before any look-up or insertion.  An address is *)
(* the sequence of characters before its last "@", and a domain.           *)
(***************************************************************************)
EXTENDS Naturals, FiniteSets, SequencesExt

CONSTANT ToLower(_)   \* strings.ToLower, of a character and of a domain

\* What binding:"email" lets through, cut at the last "@".
Address == [local : Seq(STRING), domain : STRING]

(* Mutated forms: dots are kept, the suffix is kept. *)
KeepDots(local)   == local
KeepSuffix(local) == local

StripPlus(local) ==
    LET pluses == {i \in DOMAIN local : local[i] = "+"}
    IN  IF pluses # {} THEN SubSeq(local, 1, Min(pluses) - 1) ELSE local

\* strings.ReplaceAll of every "." by "".
RemoveDots(local) ==
    LET kept[n \in 0..Len(local)] ==
            IF n = 0 THEN << >>
            ELSE IF local[n] = "." THEN kept[n - 1] ELSE Append(kept[n - 1], local[n])
    IN  kept[Len(local)]

Gmail == {"gmail.com", "googlemail.com"}

NormalizeEmail(a) ==
    LET local  == StripPlus([i \in DOMAIN a.local |-> ToLower(a.local[i])])
        domain == ToLower(a.domain)
    IN  IF domain \in Gmail THEN [local |-> RemoveDots(local), domain |-> "gmail.com"]
                            ELSE [local |-> local, domain |-> domain]

-----------------------------------------------------------------------------
(* The reference: what the providers deliver to one mailbox, as the comment on
   normalizeEmail has it.  Letters count without their case, up to the first
   "+"; dots count, but not at Gmail, which has two names. *)

AtGmail(a) == ToLower(a.domain) \in Gmail

SameProvider(a, b) == ToLower(a.domain) = ToLower(b.domain) \/ (AtGmail(a) /\ AtGmail(b))

Counts(a, i) ==
    /\ \A j \in 1..i : a.local[j] # "+"
    /\ ~(AtGmail(a) /\ a.local[i] = ".")

\* The places of the letters that count, and of each the position among them.
Places(a)  == {i \in DOMAIN a.local : Counts(a, i)}
Rank(a, i) == Cardinality({j \in Places(a) : j <= i})

\* As many letters, and the same one at every position.
SameLetters(a, b) ==
    /\ Cardinality(Places(a)) = Cardinality(Places(b))
    /\ \A i \in Places(a), j \in Places(b) :
          Rank(a, i) = Rank(b, j) => ToLower(a.local[i]) = ToLower(b.local[j])

SameMailbox(a, b) == SameProvider(a, b) /\ SameLetters(a, b)

=============================================================================
