--------------------------- MODULE VoteFlowProofs ---------------------------
(* Theorems of VoteFlow, for every value of its constants. *)
EXTENDS VoteFlow, FiniteSetTheorems, WellFoundedInduction, TLAPS

-----------------------------------------------------------------------------
(* What NormalizeEmail computes, for addresses of any length.  Where a proof  *)
(* needs induction, it looks at the least number for which something fails.  *)

Less == {ss \in Nat \X Nat : ss[1] < ss[2]}

\* A non-empty set of natural numbers has a least element.
LEMMA LeastElement ==
    ASSUME NEW T \in SUBSET Nat, T # {}
    PROVE  \E m \in T : \A n \in T : m <= n
<1>1. IsWellFoundedOn(Less, Nat)
  BY NatLessThanWellFounded DEF OpToRel, Less
<1>2. PICK m \in T : \A n \in T : ~ (<<n, m>> \in Less)
  BY <1>1, WFMin
<1>3. \A n \in T : ~ (n < m)
  BY <1>2 DEF Less
<1> QED BY <1>3

\* The recursion of RemoveDots: g is the function it calls kept, up to N.
KeptStep(local, g, n) ==
    IF n = 0 THEN << >>
    ELSE IF local[n] = "." THEN g[n - 1] ELSE Append(g[n - 1], local[n])

IsKept(local, N, g) == g = [n \in 0..N |-> KeptStep(local, g, n)]

\* That recursion has a solution.
LEMMA KeptExists ==
    ASSUME NEW local, NEW N \in Nat
    PROVE  \E g : IsKept(local, N, g)
<1> DEFINE Bad == {n \in Nat : ~\E g : IsKept(local, n, g)}
<1> SUFFICES ASSUME Bad # {} PROVE FALSE
  OBVIOUS
<1>1. PICK n \in Bad : \A m \in Bad : n <= m
  BY LeastElement
<1>2. n # 0
  <2> DEFINE g == [m \in 0..0 |-> << >>]
  <2>1. IsKept(local, 0, g)
    BY DEF IsKept, KeptStep
  <2> QED BY <2>1
<1>3. n - 1 \in Nat /\ n - 1 \notin Bad
  BY <1>1, <1>2
<1>4. PICK g : IsKept(local, n - 1, g)
  BY <1>3
<1> DEFINE h == [m \in 0..n |-> IF m < n THEN g[m] ELSE KeptStep(local, g, n)]
<1>5. IsKept(local, n, h)
  <2>1. \A m \in 0..(n - 1) : h[m] = g[m] /\ g[m] = KeptStep(local, g, m)
    BY <1>3, <1>4 DEF IsKept
  <2>2. h[n] = KeptStep(local, g, n)
    BY <1>3
  <2>3. \A m \in 0..n : h[m] = KeptStep(local, h, m)
    <3> HIDE DEF h
    <3> TAKE m \in 0..n
    <3>1. m # 0 => m - 1 \in 0..(n - 1)
      BY <1>3
    <3>2. m # n => m \in 0..(n - 1)
      BY <1>3
    <3>3. KeptStep(local, g, m) = KeptStep(local, h, m)
      BY <2>1, <3>1 DEF KeptStep
    <3>4. h[m] = KeptStep(local, g, m)
      BY <2>1, <2>2, <3>2
    <3> QED BY <3>3, <3>4
  <2> HIDE DEF h
  <2>4. h = [m \in 0..n |-> h[m]]
    BY DEF h
  <2> QED BY <2>3, <2>4 DEF IsKept
<1> QED BY <1>1, <1>5

LEMMA RemoveDotsKept ==
    ASSUME NEW local, Len(local) \in Nat
    PROVE  \E g : IsKept(local, Len(local), g) /\ RemoveDots(local) = g[Len(local)]
<1> DEFINE g == CHOOSE f : IsKept(local, Len(local), f)
<1>1. IsKept(local, Len(local), g)
  BY KeptExists
<1>2. RemoveDots(local) = g[Len(local)]
  BY DEF IsKept, KeptStep, RemoveDots
<1> QED BY <1>1, <1>2

\* The position of i among the places of K; and what it means that s, of characters
\* X, consists of what stands in text at the places of K, in their order.
Position(K, i) == Cardinality({j \in K : j <= i})

Enumerates(s, K, text, X) ==
    /\ s \in Seq(X)
    /\ Len(s) = Cardinality(K)
    /\ \A i \in K : Position(K, i) \in 1..Len(s) /\ s[Position(K, i)] = text[i]
    /\ \A k \in 1..Len(s) : \E i \in K : Position(K, i) = k

\* One more place, behind the others.
LEMMA EnumeratesOneMore ==
    ASSUME NEW n \in Nat \ {0}, NEW K \in SUBSET (1..(n - 1)), NEW X, NEW text, text[n] \in X,
           NEW s, Enumerates(s, K, text, X)
    PROVE  Enumerates(Append(s, text[n]), K \cup {n}, text, X)
<1> DEFINE L == K \cup {n}
           t == Append(s, text[n])
<1>0. \A i \in K : i \in Int /\ i < n
  OBVIOUS
<1>1. IsFiniteSet(K) /\ n \notin K
  <2>1. IsFiniteSet(1..(n - 1))
    BY FS_Interval
  <2>2. IsFiniteSet(K)
    BY <2>1, FS_Subset
  <2> QED BY <2>2, <1>0
<1>2. Cardinality(L) = Cardinality(K) + 1 /\ Cardinality(K) \in Nat
  BY <1>1, FS_AddElement, FS_CardinalityType
<1>3. s \in Seq(X) /\ Len(s) = Cardinality(K)
  BY DEF Enumerates
<1>4. /\ t \in Seq(X)
      /\ Len(t) = Cardinality(K) + 1
      /\ t[Cardinality(K) + 1] = text[n]
      /\ \A k \in 1..Cardinality(K) : t[k] = s[k]
  BY <1>2, <1>3
<1>5. \A i \in K : Position(L, i) = Position(K, i)
  <2> TAKE i \in K
  <2>1. {j \in L : j <= i} = {j \in K : j <= i}
    BY <1>0
  <2> QED BY <2>1 DEF Position
<1>6. Position(L, n) = Cardinality(K) + 1
  <2>1. {j \in L : j <= n} = L
    <3>1. \A j \in L : j <= n
      BY <1>0
    <3> QED BY <3>1
  <2> QED BY <1>2, <2>1 DEF Position
<1>7. \A i \in K : Position(K, i) \in 1..Cardinality(K) /\ s[Position(K, i)] = text[i]
  BY <1>3 DEF Enumerates
<1>8. \A k \in 1..Cardinality(K) : \E i \in K : Position(K, i) = k
  BY <1>3 DEF Enumerates
<1> HIDE DEF t
<1>9. ASSUME NEW i \in L
      PROVE  Position(L, i) \in 1..Len(t) /\ t[Position(L, i)] = text[i]
  <2>1. CASE i \in K
    <3>1. Position(K, i) \in 1..Cardinality(K) /\ s[Position(K, i)] = text[i]
      BY <2>1, <1>7
    <3>2. Position(K, i) \in 1..(Cardinality(K) + 1)
      BY <1>2, <3>1
    <3> QED BY <2>1, <3>1, <3>2, <1>4, <1>5
  <2>2. CASE i = n
    BY <2>2, <1>2, <1>4, <1>6
  <2> QED BY <2>1, <2>2
<1>10. ASSUME NEW k \in 1..Len(t)
       PROVE  \E i \in L : Position(L, i) = k
  <2>1. CASE k = Cardinality(K) + 1
    BY <2>1, <1>6
  <2>2. CASE k # Cardinality(K) + 1
    <3>1. k \in 1..Cardinality(K)
      BY <1>2, <1>4, <2>2
    <3>2. PICK i \in K : Position(K, i) = k
      BY <1>8, <3>1
    <3> QED BY <1>5, <3>2
  <2> QED BY <2>1, <2>2
<1> HIDE DEF L
<1>11. Len(t) = Cardinality(L)
  BY <1>2, <1>4
<1>12. Enumerates(t, L, text, X)
  BY <1>4, <1>9, <1>10, <1>11 DEF Enumerates
<1> QED BY <1>12 DEF L, t

\* RemoveDots keeps what is not a dot.
Letters(text, n) == {i \in 1..n : text[i] # "."}

LEMMA RemoveDotsEnumerates ==
    ASSUME NEW X, NEW text \in Seq(X)
    PROVE  Enumerates(RemoveDots(text), Letters(text, Len(text)), text, X)
<1>1. PICK kept : IsKept(text, Len(text), kept) /\ RemoveDots(text) = kept[Len(text)]
  BY RemoveDotsKept
<1>2. \A n \in 0..Len(text) : kept[n] = KeptStep(text, kept, n)
  BY <1>1 DEF IsKept
<1> DEFINE Bad == {n \in 0..Len(text) : ~Enumerates(kept[n], Letters(text, n), text, X)}
<1>3. SUFFICES ASSUME Bad # {} PROVE FALSE
  BY <1>1
<1>4. PICK n \in Bad : \A m \in Bad : n <= m
  <2>1. Bad \in SUBSET Nat
    OBVIOUS
  <2> HIDE DEF Bad
  <2> QED BY <1>3, <2>1, LeastElement
<1>5. n # 0
  <2>1. kept[0] = << >> /\ Letters(text, 0) = {}
    BY <1>2 DEF KeptStep, Letters
  <2>2. Enumerates(<< >>, {}, text, X)
    BY FS_EmptySet DEF Enumerates
  <2> QED BY <2>1, <2>2
<1>6. n - 1 \in 0..Len(text) /\ n - 1 \notin Bad /\ n \in 1..Len(text)
  BY <1>4, <1>5
<1>7. Enumerates(kept[n - 1], Letters(text, n - 1), text, X)
  BY <1>6
<1>8. CASE text[n] = "."
  <2>1. Letters(text, n) = Letters(text, n - 1)
    BY <1>6, <1>8 DEF Letters
  <2>2. kept[n] = kept[n - 1]
    BY <1>2, <1>5, <1>6, <1>8 DEF KeptStep
  <2> QED BY <1>7, <2>1, <2>2
<1>9. CASE text[n] # "."
  <2>1. Letters(text, n) = Letters(text, n - 1) \cup {n}
    BY <1>6, <1>9 DEF Letters
  <2>2. kept[n] = Append(kept[n - 1], text[n])
    BY <1>2, <1>5, <1>6, <1>9 DEF KeptStep
  <2>3. Letters(text, n - 1) \in SUBSET (1..(n - 1)) /\ text[n] \in X /\ n \in Nat \ {0}
    BY <1>6 DEF Letters
  <2>4. Enumerates(Append(kept[n - 1], text[n]), Letters(text, n - 1) \cup {n}, text, X)
    BY <1>7, <2>3, EnumeratesOneMore
  <2> QED BY <2>1, <2>2, <2>4
<1> QED BY <1>8, <1>9

\* Without dots to remove, every place is a letter's.
LEMMA WholeEnumerates ==
    ASSUME NEW X, NEW text \in Seq(X)
    PROVE  Enumerates(text, 1..Len(text), text, X)
<1>1. \A n \in Nat : Cardinality(1..n) = n
  BY FS_Interval
<1>2. \A i \in 1..Len(text) : Position(1..Len(text), i) = i
  <2> TAKE i \in 1..Len(text)
  <2>1. {j \in 1..Len(text) : j <= i} = 1..i
    OBVIOUS
  <2>2. Cardinality(1..i) = i
    BY <1>1
  <2> QED BY <2>1, <2>2 DEF Position
<1> QED BY <1>1, <1>2 DEF Enumerates

\* StripPlus keeps what stands before the first plus.
LEMMA StripPlusPrefix ==
    ASSUME NEW X, NEW text \in Seq(X)
    PROVE  \E m \in 0..Len(text) :
             /\ StripPlus(text) = [i \in 1..m |-> text[i]]
             /\ \A i \in 1..m : text[i] # "+"
             /\ m # Len(text) => text[m + 1] = "+"
<1> DEFINE I == {i \in DOMAIN text : text[i] = "+"}
<1>1. CASE I = {}
  <2>1. StripPlus(text) = text
    BY <1>1 DEF StripPlus
  <2> QED BY <1>1, <2>1
<1>2. CASE I # {}
  <2>1. PICK m \in I : \A n \in I : m <= n
    <3>1. I \in SUBSET Nat
      OBVIOUS
    <3> HIDE DEF I
    <3> QED BY <1>2, <3>1, LeastElement
  <2>2. Min(I) = m
    <3>1. Min(I) = CHOOSE x \in I : \A y \in I : x <= y
      BY DEF Min
    <3>2. Min(I) \in I /\ \A y \in I : Min(I) <= y
      BY <2>1, <3>1
    <3>3. m \in Nat /\ Min(I) \in Nat /\ m <= Min(I) /\ Min(I) <= m
      BY <2>1, <3>2
    <3> QED BY <3>3
  <2>3. StripPlus(text) = SubSeq(text, 1, m - 1)
    BY <1>2, <2>1, <2>2 DEF StripPlus
  <2>4. m - 1 \in 0..Len(text) /\ SubSeq(text, 1, m - 1) = [i \in 1..(m - 1) |-> text[i]]
    BY <2>1
  <2>5. \A i \in 1..(m - 1) : text[i] # "+"
    BY <2>1
  <2> QED BY <2>1, <2>3, <2>4, <2>5
<1> QED BY <1>1, <1>2

\* The local part of an address in lower case, and its characters.
Lower(a) == [i \in DOMAIN a.local |-> ToLower(a.local[i])]
Characters(a) == {ToLower(a.local[i]) : i \in DOMAIN a.local}
\* What the key of an address is: the letters that count, in their order, and the
\* name of the provider.
LEMMA KeyEnumerates ==
    ASSUME NEW a \in Addresses
    PROVE  /\ Enumerates(NormalizeEmail(a).local, Places(a), Lower(a), Characters(a))
           /\ NormalizeEmail(a).domain = IF AtGmail(a) THEN "gmail.com" ELSE ToLower(a.domain)
<1> DEFINE text == Lower(a)
           strip == StripPlus(text)
           X == Characters(a)
<1>1. /\ text \in Seq(X)
      /\ Len(text) = Len(a.local)
      /\ DOMAIN a.local = 1..Len(text)
      /\ \A i \in 1..Len(text) : text[i] = ToLower(a.local[i])
  <2>1. a.local \in Seq(STRING)
    BY AddressesType DEF Address
  <2>2. DOMAIN a.local = 1..Len(a.local) /\ Len(a.local) \in Nat
    BY <2>1
  <2>3. text = [i \in 1..Len(a.local) |-> ToLower(a.local[i])]
    BY <2>2 DEF Lower
  <2>4. \A i \in 1..Len(a.local) : ToLower(a.local[i]) \in X
    BY <2>2 DEF Characters
  <2> HIDE DEF text, X
  <2>5. text \in Seq(X) /\ Len(text) = Len(a.local)
    BY <2>2, <2>3, <2>4
  <2> QED BY <2>2, <2>3, <2>5
<1>2. \A i \in 1..Len(text) : /\ text[i] = "+" <=> a.local[i] = "+"
                              /\ text[i] = "." <=> a.local[i] = "."
  BY <1>1, ToLowerKeeps
<1>3. NormalizeEmail(a) = IF AtGmail(a)
                            THEN [local |-> RemoveDots(strip), domain |-> "gmail.com"]
                            ELSE [local |-> strip, domain |-> ToLower(a.domain)]
  BY DEF NormalizeEmail, AtGmail, Lower
<1> HIDE DEF text, X
<1>4. PICK m \in 0..Len(text) :
             /\ strip = [i \in 1..m |-> text[i]]
             /\ \A i \in 1..m : text[i] # "+"
             /\ m # Len(text) => text[m + 1] = "+"
  BY <1>1, StripPlusPrefix
<1> HIDE DEF strip
<1>5. strip \in Seq(X) /\ Len(strip) = m
  BY <1>1, <1>4
<1>6. \A i \in 1..Len(text) : (\A j \in 1..i : a.local[j] # "+") <=> i <= m
  <2> TAKE i \in 1..Len(text)
  <2>1. CASE i <= m
    BY <2>1, <1>1, <1>2, <1>4
  <2>2. CASE ~(i <= m)
    <3>1. m + 1 \in 1..i /\ m + 1 \in 1..Len(text) /\ m # Len(text)
      BY <2>2, <1>4
    <3>2. a.local[m + 1] = "+"
      BY <3>1, <1>1, <1>2, <1>4
    <3> QED BY <2>2, <3>1, <3>2
  <2> QED BY <2>1, <2>2
<1>7. Places(a) = {i \in 1..m : ~(AtGmail(a) /\ text[i] = ".")}
  BY <1>1, <1>2, <1>4, <1>6 DEF Places, Counts
<1>8. CASE AtGmail(a)
  <2>1. Places(a) = Letters(strip, Len(strip))
    BY <1>4, <1>5, <1>7, <1>8 DEF Letters
  <2>2. Enumerates(RemoveDots(strip), Places(a), strip, X)
    BY <1>5, <2>1, RemoveDotsEnumerates
  <2>3. \A i \in Places(a) : strip[i] = text[i]
    BY <1>4, <1>7
  <2>4. Enumerates(RemoveDots(strip), Places(a), text, X)
    BY <2>2, <2>3 DEF Enumerates
  <2> QED BY <1>3, <1>8, <2>4 DEF text, X
<1>9. CASE ~AtGmail(a)
  <2>1. Places(a) = 1..Len(strip)
    BY <1>5, <1>7, <1>9
  <2>2. Enumerates(strip, Places(a), strip, X)
    BY <1>5, <2>1, WholeEnumerates
  <2>3. \A i \in Places(a) : strip[i] = text[i]
    BY <1>4, <1>5, <2>1
  <2>4. Enumerates(strip, Places(a), text, X)
    BY <2>2, <2>3 DEF Enumerates
  <2> QED BY <1>3, <1>9, <2>4 DEF text, X
<1> QED BY <1>8, <1>9

\* Two addresses have one key exactly when the providers deliver them to one mailbox
\* (email_domains.go normalizeEmail and its comment), for addresses of any length.
THEOREM KeysAreMailboxes ==
    ASSUME NEW a \in Addresses, NEW b \in Addresses
    PROVE  NormalizeEmail(a) = NormalizeEmail(b) <=> SameMailbox(a, b)
<1> DEFINE k == NormalizeEmail(a)
           l == NormalizeEmail(b)
<1>1. /\ Enumerates(k.local, Places(a), Lower(a), Characters(a))
      /\ k.domain = IF AtGmail(a) THEN "gmail.com" ELSE ToLower(a.domain)
      /\ Enumerates(l.local, Places(b), Lower(b), Characters(b))
      /\ l.domain = IF AtGmail(b) THEN "gmail.com" ELSE ToLower(b.domain)
  BY KeyEnumerates
<1>2. k = l <=> k.local = l.local /\ k.domain = l.domain
  BY DEF NormalizeEmail
<1> HIDE DEF k, l
<1>3. k.domain = l.domain <=> SameProvider(a, b)
  BY <1>1 DEF SameProvider, AtGmail, Gmail
<1>4. /\ \A i \in Places(a) : Lower(a)[i] = ToLower(a.local[i]) /\ Position(Places(a), i) = Rank(a, i)
      /\ \A i \in Places(b) : Lower(b)[i] = ToLower(b.local[i]) /\ Position(Places(b), i) = Rank(b, i)
  BY DEF Lower, Places, Position, Rank
<1>5. ASSUME k.local = l.local
      PROVE  SameLetters(a, b)
  <2>1. Cardinality(Places(a)) = Cardinality(Places(b))
    BY <1>1, <1>5 DEF Enumerates
  <2>2. ASSUME NEW i \in Places(a), NEW j \in Places(b), Rank(a, i) = Rank(b, j)
        PROVE  ToLower(a.local[i]) = ToLower(b.local[j])
    <3>1. k.local[Rank(a, i)] = ToLower(a.local[i])
      BY <1>1, <1>4 DEF Enumerates
    <3>2. l.local[Rank(b, j)] = ToLower(b.local[j])
      BY <1>1, <1>4 DEF Enumerates
    <3> QED BY <1>5, <2>2, <3>1, <3>2
  <2> QED BY <2>1, <2>2 DEF SameLetters
<1>6. ASSUME SameLetters(a, b)
      PROVE  k.local = l.local
  <2>1. /\ k.local \in Seq(Characters(a)) /\ Len(k.local) = Cardinality(Places(a))
        /\ l.local \in Seq(Characters(b)) /\ Len(l.local) = Cardinality(Places(b))
    BY <1>1 DEF Enumerates
  <2>2. Len(k.local) = Len(l.local)
    BY <1>6, <2>1 DEF SameLetters
  <2>3. ASSUME NEW n \in 1..Len(k.local)
        PROVE  k.local[n] = l.local[n]
    <3>1. PICK i \in Places(a) : Rank(a, i) = n
      BY <1>1, <1>4 DEF Enumerates
    <3>2. PICK j \in Places(b) : Rank(b, j) = n
      BY <1>1, <1>4, <2>2 DEF Enumerates
    <3>3. k.local[n] = ToLower(a.local[i])
      BY <1>1, <1>4, <3>1 DEF Enumerates
    <3>4. l.local[n] = ToLower(b.local[j])
      BY <1>1, <1>4, <3>2 DEF Enumerates
    <3>5. ToLower(a.local[i]) = ToLower(b.local[j])
      BY <1>6, <3>1, <3>2 DEF SameLetters
    <3> QED BY <3>3, <3>4, <3>5
  <2> QED BY <2>1, <2>2, <2>3
<1> QED BY <1>2, <1>3, <1>5, <1>6 DEF SameMailbox, k, l

-----------------------------------------------------------------------------
USE DEF redis, db

\* Normalisation maps what clients ask for to ballots of known voters.
LEMMA BallotsType == Ballots \subseteq Ballot
BY AskedType DEF Ballots, Ballot, Emails

\* A request for a code carries the normalised form of what a client asks for.
LEMMA RequestCarriesBallot ==
    ASSUME NEW h \in Handlers, RequestOTP(h)
    PROVE  \E b \in Ballots, ip \in IPs :
             req' = [req EXCEPT ![h] = [email |-> b.email, fp |-> b.fp, cand |-> b.cand,
                                        ip |-> ip, code |-> None]]
<1>1. PICK a \in Asked, ip \in IPs :
        req' = [req EXCEPT ![h] = [email |-> NormalizeEmail(a.email), fp |-> a.fp,
                                   cand |-> a.cand, ip |-> ip, code |-> None]]
  BY DEF RequestOTP
<1> DEFINE b == [email |-> NormalizeEmail(a.email), fp |-> a.fp, cand |-> a.cand]
<1>2. b \in Ballots
  BY DEF Ballots
<1>3. b.email = NormalizeEmail(a.email) /\ b.fp = a.fp /\ b.cand = a.cand
  OBVIOUS
<1> QED BY <1>1, <1>2, <1>3

\* So does the verification of a code.
LEMMA VerifyCarriesEmail ==
    ASSUME NEW h \in Handlers, VerifyVote(h)
    PROVE  \E e \in Emails, c \in Codes, ip \in IPs :
             req' = [req EXCEPT ![h] = [email |-> e, fp |-> None, cand |-> None,
                                        ip |-> ip, code |-> c]]
BY DEF VerifyVote, Emails

\* The part of TypeOK about the handlers: their control state and locals.
HandlersOK ==
    /\ pc \in [Handlers -> {"idle"} \cup RequestSteps \cup VerifySteps]
    /\ req \in [Handlers -> Request \cup {None}]
    /\ \A h \in Handlers : pc[h] = "idle" <=> req[h] = None

\* Answering a request, and going on to its next call, keep the handlers' types.
LEMMA FinishTypes ==
    ASSUME TypeOK, NEW h \in Handlers, Finish(h)
    PROVE  HandlersOK'
BY DEF TypeOK, Finish, HandlersOK

LEMMA GotoTypes ==
    ASSUME TypeOK, NEW h \in Handlers, pc[h] # "idle",
           NEW s \in RequestSteps \cup VerifySteps, Goto(h, s)
    PROVE  HandlersOK'
BY DEF TypeOK, Goto, RequestSteps, VerifySteps, HandlersOK

\* A handler that serves a request has the local variables of one.
LEMMA RequestType ==
    ASSUME TypeOK, NEW h \in Handlers, pc[h] # "idle"
    PROVE  /\ req[h] \in Request
           /\ req[h].email \in Emails
           /\ req[h].ip \in IPs
           /\ req[h].fp \in Fingerprints \cup {None}
           /\ req[h].cand \in Candidates \cup {None}
           /\ req[h].code \in Codes \cup {None}
BY DEF TypeOK, Request

\* Types are preserved by the handlers' own steps.  A code is stored, and a vote
\* inserted, with the fields that RequestsBacked knows of.
LEMMA StepTypes ==
    ASSUME TypeOK, RequestsBacked, NEW h \in Handlers, Step(h)
    PROVE  TypeOK'
<1>0. pc[h] # "idle"
  BY DEF Step, CheckEmail, CheckFingerprint, CheckIP, CandidateName, CheckBlocked, Store,
         Enqueue, Unstore, CheckLock, Fetch, Mismatch, Expire, Block, Clear, Consume,
         InsertVote, Reply
<1>1. /\ req[h] \in Request
      /\ req[h].email \in Emails
      /\ req[h].ip \in IPs
      /\ req[h].code \in Codes \cup {None}
  BY <1>0, RequestType
<1>2. SUFFICES /\ HandlersOK'
               /\ otp' \in [Emails -> OTPRecord \cup {None}]
               /\ attempts' \in [Emails -> Nat]
               /\ expiring' \in [Emails -> BOOLEAN]
               /\ blocked' \in [Emails -> BOOLEAN]
               /\ votes' \subseteq Vote
               /\ roll' \in [Candidates -> {"new", "listed", "gone"}]
               /\ deleting' \subseteq Candidates
               /\ open' \in BOOLEAN
               /\ acked' \subseteq Vote
  BY DEF TypeOK, HandlersOK
<1>3. CASE CheckEmail(h)
  BY <1>0, <1>3, FinishTypes, GotoTypes DEF CheckEmail, TypeOK, RequestSteps
<1>4. CASE CheckFingerprint(h)
  BY <1>0, <1>4, FinishTypes, GotoTypes DEF CheckFingerprint, TypeOK, RequestSteps
<1>5. CASE CheckIP(h)
  BY <1>0, <1>5, FinishTypes, GotoTypes DEF CheckIP, TypeOK, RequestSteps
<1>6. CASE CandidateName(h)
  BY <1>0, <1>6, FinishTypes, GotoTypes DEF CandidateName, TypeOK, RequestSteps
<1>7. CASE CheckBlocked(h)
  <2>1. HandlersOK'
    <3>1. CASE Finish(h)
      BY <3>1, FinishTypes
    <3>2. CASE /\ \E c \in Codes : req' = [req EXCEPT ![h].code = c]
               /\ pc' = [pc EXCEPT ![h] = "store"]
      <4>1. PICK c \in Codes : req' = [req EXCEPT ![h].code = c]
        BY <3>2
      <4>2. [req[h] EXCEPT !.code = c] \in Request
        BY <1>1 DEF Request
      <4> QED BY <1>0, <3>2, <4>1, <4>2, NoneIsNew DEF TypeOK, HandlersOK, RequestSteps
    <3> QED BY <1>7, <3>1, <3>2 DEF CheckBlocked
  <2> QED BY <1>7, <2>1 DEF CheckBlocked, TypeOK
<1>8. CASE Store(h)
  <2>1. [code |-> req[h].code, cand |-> req[h].cand, fp |-> req[h].fp] \in OTPRecord
    <3>1. req[h].code \in Codes /\ BallotOf(req[h]) \in Ballot
      BY <1>8, BallotsType DEF Store, RequestsBacked, RequestSteps
    <3> QED BY <3>1 DEF OTPRecord, BallotOf, Ballot
  <2> QED BY <1>0, <1>1, <1>8, <2>1, GotoTypes DEF Store, TypeOK, RequestSteps
<1>9. CASE Enqueue(h)
  BY <1>0, <1>9, FinishTypes, GotoTypes DEF Enqueue, TypeOK, RequestSteps
<1>10. CASE Unstore(h)
  BY <1>0, <1>1, <1>10, FinishTypes DEF Unstore, TypeOK
<1>11. CASE CheckLock(h)
  BY <1>0, <1>11, FinishTypes, GotoTypes DEF CheckLock, TypeOK, VerifySteps
<1>12. CASE Fetch(h)
  <2>1. HandlersOK'
    <3>1. CASE Finish(h)
      BY <3>1, FinishTypes
    <3>2. CASE Goto(h, "mismatch")
      BY <1>0, <3>2, GotoTypes DEF VerifySteps
    <3>3. CASE /\ otp[req[h].email] # None
               /\ req' = [req EXCEPT ![h] = WithStored(req[h], otp[req[h].email])]
               /\ pc' = [pc EXCEPT ![h] = "consume"]
      <4>1. otp[req[h].email] \in OTPRecord
        BY <1>1, <3>3 DEF TypeOK
      <4>2. WithStored(req[h], otp[req[h].email]) \in Request
        BY <1>1, <4>1 DEF WithStored, Request, OTPRecord
      <4> QED BY <1>0, <3>3, <4>2, NoneIsNew DEF TypeOK, HandlersOK, VerifySteps
    <3> QED BY <1>12, <3>1, <3>2, <3>3 DEF Fetch
  <2> QED BY <1>12, <2>1 DEF Fetch, TypeOK
<1>13. CASE Mismatch(h)
  <2>1. HandlersOK'
    BY <1>0, <1>13, FinishTypes, GotoTypes DEF Mismatch, VerifySteps
  <2> QED BY <1>1, <1>13, <2>1 DEF Mismatch, TypeOK
<1>14. CASE Expire(h)
  BY <1>1, <1>14, FinishTypes DEF Expire, TypeOK
<1>15. CASE Block(h)
  BY <1>0, <1>1, <1>15, GotoTypes DEF Block, TypeOK, VerifySteps
<1>16. CASE Clear(h)
  BY <1>1, <1>16, FinishTypes DEF Clear, DeleteKeys, TypeOK
<1>17. CASE Consume(h)
  BY <1>0, <1>1, <1>17, GotoTypes DEF Consume, DeleteKeys, TypeOK, VerifySteps
<1>18. pc[h] \in {"insert", "reply"} => NewVote(req[h]) \in Vote
  <2>1. pc[h] \in {"insert", "reply"} => BallotOf(req[h]) \in Ballot
    BY BallotsType DEF RequestsBacked
  <2> QED BY <1>1, <2>1 DEF NewVote, BallotOf, Ballot, Vote
<1>19. CASE InsertVote(h)
  <2>1. HandlersOK'
    BY <1>0, <1>19, FinishTypes, GotoTypes DEF InsertVote, RefuseDuplicate, VerifySteps
  <2>2. votes' \subseteq Vote
    BY <1>18, <1>19 DEF InsertVote, TypeOK
  <2> QED BY <1>19, <2>1, <2>2 DEF InsertVote, TypeOK
<1>20. CASE Reply(h)
  BY <1>18, <1>20, FinishTypes DEF Reply, TypeOK
<1> QED
  BY <1>3, <1>4, <1>5, <1>6, <1>7, <1>8, <1>9, <1>10, <1>11, <1>12, <1>13, <1>14,
     <1>15, <1>16, <1>17, <1>19, <1>20 DEF Step

\* The other steps: arrivals, faults, expiries and the administrator.
LEMMA OtherTypes ==
    ASSUME TypeOK, [Next]_vars, \A h \in Handlers : ~Step(h)
    PROVE  TypeOK'
<1>1. CASE UNCHANGED vars
  BY <1>1 DEF TypeOK, vars
<1>2. ASSUME NEW h \in Handlers, RequestOTP(h)
      PROVE  TypeOK'
  <2>1. PICK b \in Ballots, ip \in IPs :
          req' = [req EXCEPT ![h] = [email |-> b.email, fp |-> b.fp, cand |-> b.cand,
                                     ip |-> ip, code |-> None]]
    BY <1>2, RequestCarriesBallot
  <2>2. [email |-> b.email, fp |-> b.fp, cand |-> b.cand, ip |-> ip, code |-> None]
          \in Request
    BY <2>1, BallotsType DEF Ballot, Request
  <2>3. HandlersOK'
    BY <1>2, <2>1, <2>2, NoneIsNew DEF RequestOTP, TypeOK, HandlersOK, RequestSteps
  <2> QED BY <1>2, <2>3 DEF RequestOTP, TypeOK, HandlersOK
<1>3. ASSUME NEW h \in Handlers, VerifyVote(h)
      PROVE  TypeOK'
  <2>1. PICK e \in Emails, c \in Codes, ip \in IPs :
          req' = [req EXCEPT ![h] = [email |-> e, fp |-> None, cand |-> None,
                                     ip |-> ip, code |-> c]]
    BY <1>3, VerifyCarriesEmail
  <2>2. [email |-> e, fp |-> None, cand |-> None, ip |-> ip, code |-> c] \in Request
    BY <2>1 DEF Request
  <2>3. HandlersOK'
    BY <1>3, <2>1, <2>2, NoneIsNew DEF VerifyVote, TypeOK, HandlersOK, VerifySteps
  <2> QED BY <1>3, <2>3 DEF VerifyVote, TypeOK, HandlersOK
<1>4. ASSUME NEW h \in Handlers, Fail(h)
      PROVE  TypeOK'
  <2>1. HandlersOK'
    BY <1>4, FinishTypes DEF Fail
  <2> QED BY <1>4, <2>1 DEF Fail, TypeOK, HandlersOK
<1>5. ASSUME NEW h \in Handlers, LoseWrite(h)
      PROVE  TypeOK'
  <2>1. HandlersOK'
    <3>1. CASE Finish(h)
      BY <3>1, FinishTypes
    <3>2. CASE pc[h] = "block" /\ Goto(h, "clear")
      BY <3>2, GotoTypes DEF VerifySteps
    <3>3. CASE pc[h] = "consume" /\ Goto(h, "insert")
      BY <3>3, GotoTypes DEF VerifySteps
    <3> QED BY <1>5, <3>1, <3>2, <3>3 DEF LoseWrite
  <2> QED BY <1>5, <2>1 DEF LoseWrite, TypeOK, HandlersOK
<1>6. CASE RedisRestart
  BY <1>6 DEF RedisRestart, TypeOK
<1>7. ASSUME NEW e \in Emails, Time(e)
      PROVE  TypeOK'
  <2>1. CASE ExpireOTP(e)
    BY <2>1 DEF ExpireOTP, TypeOK
  <2>2. CASE ExpireAttempts(e)
    BY <2>2 DEF ExpireAttempts, TypeOK
  <2>3. CASE ExpireBlock(e)
    BY <2>3 DEF ExpireBlock, TypeOK
  <2> QED BY <1>7, <2>1, <2>2, <2>3 DEF Time
<1>8. ASSUME NEW c \in Candidates, Admin(c)
      PROVE  TypeOK'
  BY <1>8 DEF Admin, InsertCandidate, CountBeforeDelete, DeleteCandidate, DeleteFails,
              CascadeDelete, TypeOK
<1>9. CASE OpenOrClose
  BY <1>9 DEF OpenOrClose, TypeOK
<1> QED
  BY <1>1, <1>2, <1>3, <1>4, <1>5, <1>6, <1>7, <1>8, <1>9 DEF Next, Arrive

-----------------------------------------------------------------------------
\* The inductive invariant.  VotesBacked and AckedOrWithdrawn are not inductive
\* alone: RequestsBacked says what the requests in flight carry into the tables.
Inv ==
    /\ TypeOK
    /\ RequestsBacked
    /\ OneVotePerVoter
    /\ VotesBacked
    /\ NoOrphanVotes
    /\ AckedOrWithdrawn

LEMMA InitInv == Init => Inv
<1> SUFFICES ASSUME Init
             PROVE  Inv
  OBVIOUS
<1>1. TypeOK
  BY DEF Init, TypeOK
<1>2. RequestsBacked
  BY DEF Init, RequestsBacked, RequestSteps
<1>3. OneVotePerVoter /\ VotesBacked /\ NoOrphanVotes /\ AckedOrWithdrawn
  BY DEF Init, OneVotePerVoter, VotesBacked, NoOrphanVotes, AckedOrWithdrawn
<1> QED BY <1>1, <1>2, <1>3 DEF Inv

\* What a step may do to the tables: add one vote that conflicts with none, for a
\* listed candidate, or list a candidate, or remove one with its votes, or nothing.
Inserts(v) ==
    /\ \A w \in votes : w.email # v.email /\ w.fp # v.fp
    /\ roll[v.cand] = "listed"
    /\ votes' = votes \cup {v}
    /\ UNCHANGED roll

Lists(c) == roll[c] = "new" /\ roll' = [roll EXCEPT ![c] = "listed"] /\ UNCHANGED votes

Removes(c) ==
    /\ roll[c] = "listed"
    /\ roll' = [roll EXCEPT ![c] = "gone"]
    /\ votes' = {v \in votes : v.cand # c}


LEMMA TableSteps ==
    ASSUME [Next]_vars
    PROVE  \/ UNCHANGED <<votes, roll>>
           \/ \E h \in Handlers :
                /\ InsertVote(h)
                /\ pc[h] = "insert"
                /\ Inserts(NewVote(req[h]))
           \/ \E c \in Candidates : Lists(c) \/ Removes(c)
<1>1. CASE UNCHANGED vars
  BY <1>1 DEF vars
<1>2. ASSUME NEW h \in Handlers, InsertVote(h)
      PROVE  UNCHANGED <<votes, roll>> \/ (pc[h] = "insert" /\ Inserts(NewVote(req[h])))
  BY <1>2 DEF InsertVote, Inserts, NewVote, Duplicate, ForeignKey, HasVotedByEmail,
              HasVotedByFingerprint
<1>3. ASSUME NEW h \in Handlers, Arrive(h) \/ Fail(h) \/ LoseWrite(h)
      PROVE  UNCHANGED <<votes, roll>>
  BY <1>3 DEF Arrive, RequestOTP, VerifyVote, Fail, LoseWrite
<1>4. ASSUME NEW h \in Handlers, Step(h), ~InsertVote(h)
      PROVE  UNCHANGED <<votes, roll>>
  BY <1>4 DEF Step, CheckEmail, CheckFingerprint, CheckIP, CandidateName, CheckBlocked,
              Store, Enqueue, Unstore, CheckLock, Fetch, Mismatch, Expire, Block, Clear,
              Consume, Reply
<1>5. ASSUME NEW c \in Candidates, Admin(c)
      PROVE  UNCHANGED <<votes, roll>> \/ Lists(c) \/ Removes(c)
  BY <1>5 DEF Admin, InsertCandidate, CountBeforeDelete, DeleteCandidate, DeleteFails,
              Lists, Removes, CascadeDelete
<1>6. CASE RedisRestart \/ OpenOrClose \/ \E e \in Emails : Time(e)
  BY <1>6 DEF RedisRestart, OpenOrClose, Time, ExpireOTP, ExpireAttempts, ExpireBlock
<1> QED
  BY <1>1, <1>2, <1>3, <1>4, <1>5, <1>6 DEF Next

\* The tables alone: uniqueness and the foreign key survive every step.
LEMMA TableInvariants ==
    ASSUME Inv, [Next]_vars
    PROVE  OneVotePerVoter' /\ VotesBacked' /\ NoOrphanVotes'
<1> USE DEF Inv, OneVotePerVoter, VotesBacked, NoOrphanVotes
<1>1. CASE UNCHANGED <<votes, roll>>
  BY <1>1
<1>2. ASSUME NEW h \in Handlers, pc[h] = "insert", Inserts(NewVote(req[h]))
      PROVE  OneVotePerVoter' /\ VotesBacked' /\ NoOrphanVotes'
  <2>1. BallotOf(NewVote(req[h])) \in Ballots
    BY <1>2 DEF RequestsBacked, BallotOf, NewVote
  <2> QED BY <1>2, <2>1 DEF Inserts
<1>3. ASSUME NEW c \in Candidates, Lists(c)
      PROVE  OneVotePerVoter' /\ VotesBacked' /\ NoOrphanVotes'
  BY <1>3 DEF Lists, TypeOK, Vote
<1>4. ASSUME NEW c \in Candidates, Removes(c)
      PROVE  OneVotePerVoter' /\ VotesBacked' /\ NoOrphanVotes'
  BY <1>4 DEF Removes, TypeOK, Vote
<1> QED BY <1>1, <1>2, <1>3, <1>4, TableSteps

\* A vote on record, or withdrawn with its candidate, stays one or the other.
LEMMA RecordedStays ==
    ASSUME Inv, [Next]_vars, NEW v, v.cand \in Candidates, v \in votes \/ roll[v.cand] = "gone"
    PROVE  v \in votes' \/ roll'[v.cand] = "gone"
<1>1. CASE \E h \in Handlers : Inserts(NewVote(req[h]))
  BY <1>1 DEF Inserts
<1>2. ASSUME NEW c \in Candidates, Lists(c)
      PROVE  v \in votes' \/ roll'[v.cand] = "gone"
  BY <1>2 DEF Lists, Inv, TypeOK
<1>3. ASSUME NEW c \in Candidates, Removes(c)
      PROVE  v \in votes' \/ roll'[v.cand] = "gone"
  BY <1>3 DEF Removes, Inv, TypeOK
<1> QED BY <1>1, <1>2, <1>3, TableSteps

\* Whoever was told that the vote is recorded finds it so.
LEMMA AckedInvariant ==
    ASSUME Inv, [Next]_vars
    PROVE  AckedOrWithdrawn'
<1>1. ASSUME NEW v \in acked'
      PROVE  v.cand \in Candidates /\ (v \in votes \/ roll[v.cand] = "gone")
  <2>1. CASE v \in acked
    BY <2>1 DEF Inv, AckedOrWithdrawn, TypeOK, Vote
  <2>2. CASE \E h \in Handlers : Reply(h) /\ v = NewVote(req[h])
    <3>1. PICK h \in Handlers : Reply(h) /\ v = NewVote(req[h])
      BY <2>2
    <3>2. BallotOf(req[h]) \in Ballot
      BY <3>1, BallotsType DEF Reply, Inv, RequestsBacked
    <3> QED BY <3>1, <3>2 DEF Reply, Inv, RequestsBacked, NewVote, BallotOf, Ballot
  <2>3. acked' = acked \/ \E h \in Handlers : Reply(h) /\ acked' = acked \cup {NewVote(req[h])}
    <3>1. ASSUME NEW h \in Handlers, Arrive(h) \/ Fail(h) \/ LoseWrite(h)
          PROVE  UNCHANGED acked
      BY <3>1 DEF Arrive, RequestOTP, VerifyVote, Fail, LoseWrite
    <3>2. ASSUME NEW h \in Handlers, Step(h), ~Reply(h)
          PROVE  UNCHANGED acked
      BY <3>2 DEF Step, CheckEmail, CheckFingerprint, CheckIP, CandidateName, CheckBlocked,
                  Store, Enqueue, Unstore, CheckLock, Fetch, Mismatch, Expire, Block,
                  Clear, Consume, InsertVote
    <3>3. CASE RedisRestart \/ OpenOrClose \/ \E e \in Emails : Time(e)
      BY <3>3 DEF RedisRestart, OpenOrClose, Time, ExpireOTP, ExpireAttempts, ExpireBlock
    <3>4. CASE \E c \in Candidates : Admin(c)
      BY <3>4 DEF Admin, InsertCandidate, CountBeforeDelete, DeleteCandidate, DeleteFails
    <3>5. CASE UNCHANGED vars
      BY <3>5 DEF vars
    <3> QED BY <3>1, <3>2, <3>3, <3>4, <3>5 DEF Next, Reply
  <2> QED BY <2>1, <2>2, <2>3
<1> QED BY <1>1, RecordedStays DEF AckedOrWithdrawn

\* What a stored code and a request in flight must carry, one at a time.
CodeBacked(e) ==
    otp[e] # None => [email |-> e, fp |-> otp[e].fp, cand |-> otp[e].cand] \in Ballots

HandlerBacked(h) ==
    /\ pc[h] \in RequestSteps \cup {"consume", "insert", "reply"} => BallotOf(req[h]) \in Ballots
    /\ pc[h] \in {"store", "enqueue", "unstore"} => req[h].code \in Codes
    /\ pc[h] = "reply" => NewVote(req[h]) \in votes \/ roll[req[h].cand] = "gone"

\* A handler that does not move stays backed.
LEMMA OthersBacked ==
    ASSUME Inv, [Next]_vars, NEW g \in Handlers, pc'[g] = pc[g], req'[g] = req[g]
    PROVE  HandlerBacked(g)'
<1>1. HandlerBacked(g)
  BY DEF Inv, RequestsBacked, HandlerBacked
<1>2. ASSUME pc[g] = "reply"
      PROVE  NewVote(req[g]) \in votes' \/ roll'[req[g].cand] = "gone"
  <2>1. NewVote(req[g]).cand = req[g].cand
    BY DEF NewVote
  <2>2. req[g].cand \in Candidates
    BY <1>1, <1>2, BallotsType DEF HandlerBacked, BallotOf, Ballot
  <2> QED BY <1>1, <1>2, <2>1, <2>2, RecordedStays DEF HandlerBacked
<1> QED BY <1>1, <1>2 DEF HandlerBacked, NewVote, BallotOf

\* A handler that answers its request carries nothing any more.
LEMMA FinishBacked ==
    ASSUME Inv, [Next]_vars, NEW h \in Handlers, Finish(h)
    PROVE  \A g \in Handlers : HandlerBacked(g)'
<1>1. ASSUME NEW g \in Handlers, g # h
      PROVE  HandlerBacked(g)'
  BY <1>1, OthersBacked DEF Finish, Inv, TypeOK
<1>2. HandlerBacked(h)'
  BY DEF Finish, Inv, TypeOK, HandlerBacked, RequestSteps
<1> QED BY <1>1, <1>2

\* A handler that goes on with the same locals stays backed, if it was where it
\* comes from as much as it has to be where it goes.
LEMMA GotoBacked ==
    ASSUME Inv, [Next]_vars, NEW h \in Handlers, NEW s, Goto(h, s),
           s \in RequestSteps \cup {"consume", "insert"} =>
               pc[h] \in RequestSteps \cup {"consume", "insert"},
           s \in {"store", "enqueue", "unstore"} => pc[h] \in {"store", "enqueue", "unstore"},
           s # "reply"
    PROVE  \A g \in Handlers : HandlerBacked(g)'
<1>1. ASSUME NEW g \in Handlers, g # h
      PROVE  HandlerBacked(g)'
  BY <1>1, OthersBacked DEF Goto, Inv, TypeOK
<1>2. HandlerBacked(h)'
  BY DEF Goto, Inv, TypeOK, RequestsBacked, HandlerBacked, BallotOf
<1> QED BY <1>1, <1>2

\* A handler that changes its locals is backed if its new locals are.
LEMMA MoveBacked ==
    ASSUME Inv, [Next]_vars, NEW h \in Handlers, NEW s, NEW r,
           s \in RequestSteps \cup {"consume", "checkLock"},
           pc' = [pc EXCEPT ![h] = s],
           req' = [req EXCEPT ![h] = r],
           s # "checkLock" => BallotOf(r) \in Ballots,
           s \in {"store", "enqueue", "unstore"} => r.code \in Codes
    PROVE  \A g \in Handlers : HandlerBacked(g)'
<1>1. ASSUME NEW g \in Handlers, g # h
      PROVE  HandlerBacked(g)'
  BY <1>1, OthersBacked DEF Inv, TypeOK
<1>2. HandlerBacked(h)'
  BY DEF Inv, TypeOK, HandlerBacked, BallotOf, RequestSteps
<1> QED BY <1>1, <1>2

\* The stored codes stay backed: one is written by Store only.
LEMMA CodesBacked ==
    ASSUME Inv, [Next]_vars
    PROVE  \A e \in Emails : CodeBacked(e)'
<1>0. \A e \in Emails : CodeBacked(e)
  BY DEF Inv, RequestsBacked, CodeBacked
<1>1. ASSUME \A e \in Emails : otp'[e] = otp[e] \/ otp'[e] = None
      PROVE  \A e \in Emails : CodeBacked(e)'
  BY <1>0, <1>1 DEF CodeBacked
<1>2. ASSUME NEW h \in Handlers, Store(h)
      PROVE  \A e \in Emails : CodeBacked(e)'
  <2>1. BallotOf(req[h]) \in Ballots
    BY <1>2 DEF Store, Inv, RequestsBacked, RequestSteps
  <2> QED BY <1>0, <1>2, <2>1 DEF Store, CodeBacked, BallotOf, Inv, TypeOK
<1>3. ASSUME NEW h \in Handlers, Step(h), ~Store(h)
      PROVE  \A e \in Emails : otp'[e] = otp[e] \/ otp'[e] = None
  BY <1>3 DEF Step, CheckEmail, CheckFingerprint, CheckIP, CandidateName, CheckBlocked,
              Enqueue, Unstore, CheckLock, Fetch, Mismatch, Expire, Block, Clear,
              Consume, DeleteKeys, InsertVote, Reply, Inv, TypeOK
<1>4. ASSUME NEW h \in Handlers, Arrive(h) \/ Fail(h) \/ LoseWrite(h)
      PROVE  otp' = otp
  BY <1>4 DEF Arrive, RequestOTP, VerifyVote, Fail, LoseWrite
<1>5. CASE RedisRestart
  BY <1>1, <1>5 DEF RedisRestart
<1>6. ASSUME NEW e \in Emails, Time(e)
      PROVE  \A f \in Emails : otp'[f] = otp[f] \/ otp'[f] = None
  BY <1>6 DEF Time, ExpireOTP, ExpireAttempts, ExpireBlock, Inv, TypeOK
<1>7. CASE UNCHANGED vars \/ OpenOrClose \/ \E c \in Candidates : Admin(c)
  BY <1>1, <1>7 DEF vars, OpenOrClose, Admin, InsertCandidate, CountBeforeDelete,
                    DeleteCandidate, DeleteFails
<1> QED
  BY <1>1, <1>2, <1>3, <1>4, <1>5, <1>6, <1>7 DEF Next

\* Every handler stays backed, action by action.
LEMMA HandlersBacked ==
    ASSUME Inv, [Next]_vars
    PROVE  \A g \in Handlers : HandlerBacked(g)'
<1>0. \A g \in Handlers : HandlerBacked(g)
  BY DEF Inv, RequestsBacked, HandlerBacked
<1>1. ASSUME UNCHANGED <<pc, req>>
      PROVE  \A g \in Handlers : HandlerBacked(g)'
  BY <1>1, OthersBacked
<1>2. ASSUME NEW h \in Handlers, RequestOTP(h)
      PROVE  \A g \in Handlers : HandlerBacked(g)'
  <2>1. PICK b \in Ballots, ip \in IPs :
          req' = [req EXCEPT ![h] = [email |-> b.email, fp |-> b.fp, cand |-> b.cand,
                                     ip |-> ip, code |-> None]]
    BY <1>2, RequestCarriesBallot
  <2> DEFINE r == [email |-> b.email, fp |-> b.fp, cand |-> b.cand, ip |-> ip, code |-> None]
  <2>2. BallotOf(r) \in Ballots
    BY BallotsType DEF BallotOf, Ballot
  <2>3. req' = [req EXCEPT ![h] = r] /\ pc' = [pc EXCEPT ![h] = "checkEmail"]
    BY <1>2, <2>1 DEF RequestOTP
  <2> HIDE DEF r
  <2> QED BY <2>2, <2>3, MoveBacked DEF RequestSteps
<1>3. ASSUME NEW h \in Handlers, VerifyVote(h)
      PROVE  \A g \in Handlers : HandlerBacked(g)'
  BY <1>3, MoveBacked DEF VerifyVote
<1>4. ASSUME NEW h \in Handlers, Fail(h)
      PROVE  \A g \in Handlers : HandlerBacked(g)'
  BY <1>4, FinishBacked DEF Fail
<1>5. ASSUME NEW h \in Handlers, LoseWrite(h)
      PROVE  \A g \in Handlers : HandlerBacked(g)'
  BY <1>5, FinishBacked, GotoBacked DEF LoseWrite, RequestSteps
<1>6. ASSUME NEW h \in Handlers, CheckEmail(h) \/ CheckFingerprint(h) \/ CheckIP(h)
                                   \/ CandidateName(h)
      PROVE  \A g \in Handlers : HandlerBacked(g)'
  BY <1>6, FinishBacked, GotoBacked
     DEF CheckEmail, CheckFingerprint, CheckIP, CandidateName, RequestSteps
<1>7. ASSUME NEW h \in Handlers, CheckBlocked(h)
      PROVE  \A g \in Handlers : HandlerBacked(g)'
  <2>1. CASE Finish(h)
    BY <2>1, FinishBacked
  <2>2. CASE ~Finish(h)
    <3>1. PICK c \in Codes : req' = [req EXCEPT ![h].code = c]
      BY <1>7, <2>2 DEF CheckBlocked
    <3> DEFINE r == [req[h] EXCEPT !.code = c]
    <3>2. req[h] \in Request /\ BallotOf(req[h]) \in Ballots
      BY <1>7, RequestType DEF CheckBlocked, Inv, RequestsBacked, RequestSteps
    <3>3. BallotOf(r) \in Ballots /\ r.code \in Codes
      BY <3>2 DEF BallotOf, Request
    <3>4. req' = [req EXCEPT ![h] = r] /\ pc' = [pc EXCEPT ![h] = "store"]
      BY <1>7, <2>2, <3>1 DEF CheckBlocked
    <3> HIDE DEF r
    <3> QED BY <3>3, <3>4, MoveBacked DEF RequestSteps
  <2> QED BY <2>1, <2>2
<1>8. ASSUME NEW h \in Handlers, Store(h) \/ Enqueue(h) \/ Unstore(h)
      PROVE  \A g \in Handlers : HandlerBacked(g)'
  BY <1>8, FinishBacked, GotoBacked DEF Store, Enqueue, Unstore, RequestSteps
<1>9. ASSUME NEW h \in Handlers, CheckLock(h) \/ Mismatch(h) \/ Expire(h) \/ Block(h)
                                   \/ Clear(h) \/ Consume(h)
      PROVE  \A g \in Handlers : HandlerBacked(g)'
  BY <1>9, FinishBacked, GotoBacked
     DEF CheckLock, Mismatch, Expire, Block, Clear, Consume, RequestSteps
<1>10. ASSUME NEW h \in Handlers, Fetch(h)
       PROVE  \A g \in Handlers : HandlerBacked(g)'
  <2>1. CASE Finish(h) \/ Goto(h, "mismatch")
    BY <2>1, FinishBacked, GotoBacked DEF RequestSteps
  <2>2. CASE ~(Finish(h) \/ Goto(h, "mismatch"))
    <3> DEFINE r == WithStored(req[h], otp[req[h].email])
    <3>1. req[h] \in Request /\ req[h].email \in Emails /\ otp[req[h].email] # None
      BY <1>10, <2>2, RequestType DEF Fetch, Inv
    <3>2. /\ r.email = req[h].email
          /\ r.fp = otp[req[h].email].fp
          /\ r.cand = otp[req[h].email].cand
      BY <3>1 DEF WithStored, Request
    <3>3. BallotOf(r) \in Ballots
      BY <3>1, <3>2 DEF Inv, RequestsBacked, BallotOf
    <3>4. req' = [req EXCEPT ![h] = r] /\ pc' = [pc EXCEPT ![h] = "consume"]
      BY <1>10, <2>2 DEF Fetch
    <3> HIDE DEF r
    <3> QED BY <3>3, <3>4, MoveBacked
  <2> QED BY <2>1, <2>2
<1>11. ASSUME NEW h \in Handlers, InsertVote(h)
       PROVE  \A g \in Handlers : HandlerBacked(g)'
  <2>1. CASE Finish(h)
    BY <2>1, FinishBacked
  <2>2. CASE ~Finish(h)
    <3>1. /\ pc[h] = "insert"
          /\ pc' = [pc EXCEPT ![h] = "reply"]
          /\ req' = req
          /\ NewVote(req[h]) \in votes'
      BY <1>11, <2>2 DEF InsertVote, RefuseDuplicate, Goto
    <3>2. ASSUME NEW g \in Handlers, g # h
          PROVE  HandlerBacked(g)'
      BY <3>1, <3>2, OthersBacked DEF Inv, TypeOK
    <3>3. HandlerBacked(h)'
      BY <1>0, <3>1 DEF HandlerBacked, NewVote, BallotOf, Inv, TypeOK
    <3> QED BY <3>2, <3>3
  <2> QED BY <2>1, <2>2
<1>12. ASSUME NEW h \in Handlers, Reply(h)
       PROVE  \A g \in Handlers : HandlerBacked(g)'
  BY <1>12, FinishBacked DEF Reply
<1>13. CASE \/ UNCHANGED vars \/ RedisRestart \/ OpenOrClose
            \/ \E e \in Emails : Time(e)
            \/ \E c \in Candidates : Admin(c)
  BY <1>1, <1>13 DEF vars, RedisRestart, OpenOrClose, Time, ExpireOTP, ExpireAttempts,
                     ExpireBlock, Admin, InsertCandidate, CountBeforeDelete,
                     DeleteCandidate, DeleteFails
<1> QED
  BY <1>2, <1>3, <1>4, <1>5, <1>6, <1>7, <1>8, <1>9, <1>10, <1>11, <1>12, <1>13
     DEF Next, Arrive, Step

LEMMA NextInv ==
    ASSUME Inv, [Next]_vars
    PROVE  Inv'
<1>1. TypeOK'
  BY StepTypes, OtherTypes DEF Inv
<1>2. RequestsBacked'
  BY CodesBacked, HandlersBacked DEF RequestsBacked, CodeBacked, HandlerBacked
<1> QED BY <1>1, <1>2, TableInvariants, AckedInvariant DEF Inv

-----------------------------------------------------------------------------
\* The invariant holds in every state the endpoints reach, for any number of
\* voters, devices, candidates and concurrent requests, and under every fault.
THEOREM Invariance == Spec => []Inv
<1>1. Init => Inv
  BY InitInv
<1>2. Inv /\ [Next]_vars => Inv'
  BY NextInv
<1> QED BY <1>1, <1>2, PTL DEF Spec

\* Redis, the tables and the handlers keep their types (otp_service.go,
\* vote_service.go).
THEOREM TypesHold == Spec => []TypeOK
BY Invariance, PTL DEF Inv

\* Each e-mail and each device votes at most once (vote_repo.go InsertVote and the
\* UNIQUE columns of schema.sql), however requests interleave.
THEOREM VotersVoteOnce == Spec => []OneVotePerVoter
BY Invariance, PTL DEF Inv

\* And so does each mailbox, however its owner writes the address, and no two
\* mailboxes share a vote (email_domains.go normalizeEmail, both endpoints).
THEOREM MailboxesVoteOnce == Spec => []OneVotePerMailbox
<1>1. TypeOK /\ OneVotePerVoter => OneVotePerMailbox
  <2>0. TypeOK => \A v \in votes : v.email \in Emails
    BY DEF TypeOK, Vote
  <2> SUFFICES ASSUME OneVotePerVoter, NEW v \in votes, NEW w \in votes,
                      NEW a \in Addresses, NEW b \in Addresses,
                      v.email = NormalizeEmail(a), w.email = NormalizeEmail(b)
               PROVE  SameMailbox(a, b) <=> v = w
    BY <2>0 DEF OneVotePerMailbox, SpellingsOf, MailboxOf
  <2>1. NormalizeEmail(a) = NormalizeEmail(b) <=> SameMailbox(a, b)
    BY KeysAreMailboxes
  <2>2. v.email = w.email => v = w
    BY DEF OneVotePerVoter
  <2> QED BY <2>1, <2>2
<1> QED BY <1>1, Invariance, VotersVoteOnce, PTL DEF Inv

\* Every vote is the ballot that its code was asked for (VerifyAndVote takes the
\* candidate and the fingerprint from Redis), for a candidate on the roll.
THEOREM VotesAreBacked == Spec => [](VotesBacked /\ NoOrphanVotes)
BY Invariance, PTL DEF Inv

\* A voter told "Vote recorded" finds that vote on record, unless its candidate
\* was deleted (VerifyAndVote, DeleteCandidate).
THEOREM AckedVotesStay == Spec => []AckedOrWithdrawn
BY Invariance, PTL DEF Inv

-----------------------------------------------------------------------------
\* The endpoints implement Election: every step of the code is one of its steps,
\* seen through the ballots on record, or leaves them alone.
THEOREM Refinement == Spec => ImplementsElection
<1>1. Init => E!Init
  BY DEF Init, E!Init, Box
<1>2. Inv /\ [Next]_vars => [E!Next]_(E!vars)
  <2> SUFFICES ASSUME Inv, [Next]_vars
               PROVE  [E!Next]_(E!vars)
    OBVIOUS
  <2>1. CASE UNCHANGED <<votes, roll>>
    BY <2>1 DEF E!vars, Box
  <2>2. ASSUME NEW h \in Handlers, pc[h] = "insert", Inserts(NewVote(req[h]))
        PROVE  E!Next
    <3> DEFINE v == NewVote(req[h])
               b == BallotOf(v)
    <3>1. b \in Ballots
      BY <2>2 DEF Inv, RequestsBacked, BallotOf, NewVote
    <3>2. b.email = v.email /\ b.fp = v.fp /\ b.cand = v.cand
      BY DEF BallotOf
    <3>3. \A a \in Box : ~E!Conflict(a, b)
      BY <2>2, <3>2 DEF Inserts, Box, BallotOf, E!Conflict
    <3>4. Box' = Box \cup {b}
      BY <2>2 DEF Inserts, Box
    <3>5. E!Cast(b)
      BY <2>2, <3>2, <3>3, <3>4 DEF Inserts, E!Cast
    <3> QED BY <3>1, <3>5 DEF E!Next
  <2>3. ASSUME NEW c \in Candidates, Lists(c)
        PROVE  E!Next
    BY <2>3 DEF Lists, Box, E!List, E!Next
  <2>4. ASSUME NEW c \in Candidates, Removes(c)
        PROVE  E!Next
    <3>1. Box' = {b \in Box : b.cand # c}
      BY <2>4 DEF Removes, Box, BallotOf
    <3> QED BY <2>4, <3>1 DEF Removes, E!Withdraw, E!Next
  <2> QED BY <2>1, <2>2, <2>3, <2>4, TableSteps
<1> QED BY <1>1, <1>2, Invariance, PTL DEF Spec, ImplementsElection, E!Spec

\* Election keeps what it says: no two ballots of one address or one device, and each for
\* a candidate on the roll (the UNIQUE columns, the foreign key and the cascade).
THEOREM ElectionSound == E!Spec => []E!Sound
<1>1. E!Init => E!Sound
  BY DEF E!Init, E!Sound
<1>2. E!Sound /\ [E!Next]_(E!vars) => E!Sound'
  <2> SUFFICES ASSUME E!Sound, [E!Next]_(E!vars)
               PROVE  E!Sound'
    OBVIOUS
  <2>1. CASE UNCHANGED E!vars
    BY <2>1 DEF E!Sound, E!vars
  <2>2. ASSUME NEW b \in Ballots, E!Cast(b)
        PROVE  E!Sound'
    <3>1. /\ Box' = Box \cup {b} /\ roll' = roll /\ roll[b.cand] = "listed"
          /\ \A a \in Box : ~E!Conflict(a, b)
      BY <2>2 DEF E!Cast
    <3>2. \A a \in Box : ~E!Conflict(b, a)
      BY <3>1 DEF E!Conflict
    <3> QED BY <3>1, <3>2 DEF E!Sound
  <2>3. ASSUME NEW c \in Candidates, E!List(c)
        PROVE  E!Sound'
    BY <2>3 DEF E!List, E!Sound
  <2>4. ASSUME NEW c \in Candidates, E!Withdraw(c)
        PROVE  E!Sound'
    BY <2>4 DEF E!Withdraw, E!Sound
  <2> QED BY <2>1, <2>2, <2>3, <2>4 DEF E!Next
<1> QED BY <1>1, <1>2, PTL DEF E!Spec

-----------------------------------------------------------------------------
(* The failed-attempt counter.  Both of its properties hold only as long as     *)
(* no call is lost, hence the hypothesis ~Faults.                               *)

\* What one step does to the counter of e: it deletes it, counts one failure, or
\* leaves it and the handlers about to block e alone.
LEMMA CounterSteps ==
    ASSUME ~Faults, Inv, [Next]_vars, NEW e \in Emails
    PROVE  \/ attempts'[e] = 0
           \/ attempts'[e] = attempts[e] /\ Blockers(e)' = Blockers(e)
           \/ \E h \in Handlers : Mismatch(h) /\ req[h].email = e
<1> DEFINE Same == attempts'[e] = attempts[e] /\ Blockers(e)' = Blockers(e)
<1>0. TypeOK
  BY DEF Inv
<1>1. ASSUME NEW h \in Handlers, pc[h] \notin {"block", "clear"},
             pc'[h] \notin {"block", "clear"}, attempts' = attempts,
             \A g \in Handlers \ {h} : pc'[g] = pc[g] /\ req'[g] = req[g]
      PROVE  Same
  BY <1>1 DEF Blockers
<1>2. ASSUME NEW h \in Handlers, pc[h] \notin {"block", "clear"}, attempts' = attempts,
             \/ Finish(h)
             \/ \E s : Goto(h, s) /\ s \notin {"block", "clear"}
             \/ \E s, r : /\ pc' = [pc EXCEPT ![h] = s] /\ s \notin {"block", "clear"}
                          /\ req' = [req EXCEPT ![h] = r]
      PROVE  Same
  BY <1>0, <1>1, <1>2 DEF Finish, Goto, TypeOK
<1>3. ASSUME NEW h \in Handlers, Arrive(h)
      PROVE  Same
  <2>1. CASE RequestOTP(h)
    BY <1>0, <1>1, <2>1 DEF RequestOTP, TypeOK
  <2>2. CASE VerifyVote(h)
    BY <1>0, <1>1, <2>2 DEF VerifyVote, TypeOK
  <2> QED BY <1>3, <2>1, <2>2 DEF Arrive
<1>4. ASSUME NEW h \in Handlers,
             \/ CheckEmail(h) \/ CheckFingerprint(h) \/ CheckIP(h) \/ CandidateName(h)
             \/ CheckBlocked(h) \/ Store(h) \/ Enqueue(h) \/ Unstore(h)
             \/ CheckLock(h) \/ Fetch(h) \/ Expire(h) \/ InsertVote(h) \/ Reply(h)
      PROVE  Same
  <2>1. CASE CheckEmail(h) \/ CheckFingerprint(h) \/ CheckIP(h) \/ CandidateName(h)
    BY <1>2, <2>1 DEF CheckEmail, CheckFingerprint, CheckIP, CandidateName
  <2>2. CASE CheckBlocked(h)
    BY <1>2, <2>2 DEF CheckBlocked
  <2>3. CASE Store(h) \/ Enqueue(h) \/ Unstore(h)
    BY <1>2, <2>3 DEF Store, Enqueue, Unstore
  <2>4. CASE CheckLock(h) \/ Fetch(h)
    BY <1>2, <2>4 DEF CheckLock, Fetch
  <2>5. CASE Expire(h) \/ InsertVote(h) \/ Reply(h)
    BY <1>2, <2>5 DEF Expire, InsertVote, RefuseDuplicate, Reply
  <2> QED BY <1>4, <2>1, <2>2, <2>3, <2>4, <2>5
<1>5. ASSUME NEW h \in Handlers, Block(h)
      PROVE  Same
  BY <1>0, <1>5 DEF Block, Goto, Blockers, TypeOK
<1>6. ASSUME NEW h \in Handlers, Clear(h)
      PROVE  attempts'[e] = 0 \/ Same
  BY <1>0, <1>6 DEF Clear, DeleteKeys, Finish, Blockers, TypeOK
<1>7. ASSUME NEW h \in Handlers, Consume(h)
      PROVE  attempts'[e] = 0 \/ Same
  BY <1>0, <1>7 DEF Consume, DeleteKeys, Goto, Blockers, TypeOK
<1>8. ASSUME NEW h \in Handlers, Mismatch(h), req[h].email # e
      PROVE  Same
  BY <1>0, <1>8 DEF Mismatch, Goto, Finish, Blockers, TypeOK
<1>9. ASSUME NEW f \in Emails, Time(f)
      PROVE  attempts'[e] = 0 \/ Same
  <2>1. Blockers(e)' = Blockers(e)
    BY <1>9 DEF Time, ExpireOTP, ExpireAttempts, ExpireBlock, Blockers
  <2>2. attempts'[e] = 0 \/ attempts'[e] = attempts[e]
    BY <1>0, <1>9 DEF Time, ExpireOTP, ExpireAttempts, ExpireBlock, TypeOK
  <2> QED BY <2>1, <2>2
<1>10. CASE UNCHANGED vars \/ OpenOrClose \/ \E c \in Candidates : Admin(c)
  BY <1>10 DEF vars, OpenOrClose, Admin, InsertCandidate, CountBeforeDelete,
               DeleteCandidate, DeleteFails, Blockers
<1>11. ~RedisRestart /\ \A h \in Handlers : ~Fail(h) /\ ~LoseWrite(h)
  BY DEF RedisRestart, Fail, LoseWrite
<1> QED
  BY <1>3, <1>4, <1>5, <1>6, <1>7, <1>8, <1>9, <1>10, <1>11 DEF Next, Step

LEMMA BoundStep ==
    ASSUME ~Faults, Inv, CounterBounded, [Next]_vars
    PROVE  CounterBounded'
<1> SUFFICES ASSUME NEW e \in Emails
             PROVE  attempts'[e] < MaxOTPAttempts + Cardinality(Blockers(e)')
  BY DEF CounterBounded
<1>1. /\ attempts[e] \in Nat
      /\ MaxOTPAttempts \in Nat \ {0, 1}
      /\ attempts[e] < MaxOTPAttempts + Cardinality(Blockers(e))
  BY AttemptsType DEF Inv, TypeOK, CounterBounded
<1>2. /\ IsFiniteSet(Blockers(e)) /\ IsFiniteSet(Blockers(e)')
      /\ Cardinality(Blockers(e)) \in Nat /\ Cardinality(Blockers(e)') \in Nat
  BY HandlersType, FS_Subset, FS_CardinalityType DEF Blockers
<1>3. CASE attempts'[e] = 0
  BY <1>1, <1>2, <1>3
<1>4. CASE attempts'[e] = attempts[e] /\ Blockers(e)' = Blockers(e)
  BY <1>1, <1>4
<1>5. ASSUME NEW h \in Handlers, Mismatch(h), req[h].email = e
      PROVE  attempts'[e] < MaxOTPAttempts + Cardinality(Blockers(e)')
  <2>1. attempts'[e] = attempts[e] + 1 /\ pc[h] = "mismatch"
    BY <1>5 DEF Mismatch, Inv, TypeOK
  <2>2. CASE attempts[e] + 1 < MaxOTPAttempts
    BY <1>1, <1>2, <2>1, <2>2
  <2>3. CASE attempts[e] + 1 >= MaxOTPAttempts
    <3>1. Goto(h, "block")
      BY <1>1, <1>5, <2>3 DEF Mismatch, FirstAttempt, AttemptsExhausted
    <3>2. Blockers(e)' = Blockers(e) \cup {h}
      BY <1>5, <3>1 DEF Goto, Blockers, Inv, TypeOK
    <3>3. h \notin Blockers(e)
      BY <2>1 DEF Blockers
    <3>4. Cardinality(Blockers(e)') = Cardinality(Blockers(e)) + 1
      BY <1>2, <3>2, <3>3, FS_AddElement
    <3> QED BY <1>1, <1>2, <2>1, <3>4
  <2> QED BY <1>1, <2>2, <2>3
<1> QED BY <1>3, <1>4, <1>5, CounterSteps

\* The counter passes the maximum only as far as there are requests that are about
\* to block the e-mail (otp_service.go recordFailure), whatever their number.
THEOREM CounterStaysBounded ==
    ASSUME ~Faults
    PROVE  Spec => []CounterBounded
<1>1. Init => CounterBounded
  <2> SUFFICES ASSUME Init, NEW e \in Emails
               PROVE  attempts[e] < MaxOTPAttempts + Cardinality(Blockers(e))
    BY DEF CounterBounded
  <2>1. IsFiniteSet(Blockers(e))
    BY HandlersType, FS_Subset DEF Blockers
  <2>2. Cardinality(Blockers(e)) \in Nat
    BY <2>1, FS_CardinalityType
  <2>3. attempts[e] = 0
    BY DEF Init
  <2>4. MaxOTPAttempts \in Nat \ {0, 1}
    BY AttemptsType
  <2>5. \A n \in Nat : 0 < MaxOTPAttempts + n
    BY <2>4
  <2> QED BY <2>2, <2>3, <2>5
<1>2. Inv /\ CounterBounded /\ [Next]_vars => CounterBounded'
  BY BoundStep
<1> QED BY <1>1, <1>2, Invariance, PTL DEF Spec

-----------------------------------------------------------------------------
\* A handler's step moves that handler only.
LEMMA OneMoves ==
    ASSUME TypeOK, NEW h \in Handlers, NEW g \in Handlers, h # g,
           Arrive(h) \/ Step(h) \/ Fail(h) \/ LoseWrite(h)
    PROVE  pc'[g] = pc[g] /\ req'[g] = req[g]
<1>1. \/ Finish(h)
      \/ \E s : Goto(h, s)
      \/ \E s, r : pc' = [pc EXCEPT ![h] = s] /\ req' = [req EXCEPT ![h] = r]
  <2>1. CASE Arrive(h)
    BY <2>1 DEF Arrive, RequestOTP, VerifyVote
  <2>2. CASE CheckEmail(h) \/ CheckFingerprint(h) \/ CheckIP(h) \/ CandidateName(h)
    BY <2>2 DEF CheckEmail, CheckFingerprint, CheckIP, CandidateName
  <2>3. CASE CheckBlocked(h) \/ Store(h) \/ Enqueue(h) \/ Unstore(h)
    BY <2>3 DEF CheckBlocked, Store, Enqueue, Unstore
  <2>4. CASE CheckLock(h) \/ Fetch(h) \/ Mismatch(h) \/ Expire(h) \/ Block(h)
    BY <2>4 DEF CheckLock, Fetch, Mismatch, Expire, Block
  <2>5. CASE Clear(h) \/ Consume(h) \/ InsertVote(h) \/ Reply(h)
    BY <2>5 DEF Clear, Consume, InsertVote, RefuseDuplicate, Reply
  <2>6. CASE Fail(h) \/ LoseWrite(h)
    BY <2>6 DEF Fail, LoseWrite
  <2> QED BY <2>1, <2>2, <2>3, <2>4, <2>5, <2>6 DEF Step
<1> QED BY <1>1 DEF Finish, Goto, TypeOK

\* A handler stays about to set the TTL until it sets it.
LEMMA ExpirerSteps ==
    ASSUME ~Faults, Inv, [Next]_vars, NEW g \in Handlers, pc[g] = "expire"
    PROVE  \/ pc'[g] = "expire" /\ req'[g] = req[g]
           \/ Expire(g)
<1>0. TypeOK
  BY DEF Inv
<1>1. ASSUME NEW h \in Handlers, h # g, Arrive(h) \/ Step(h)
      PROVE  pc'[g] = "expire" /\ req'[g] = req[g]
  BY <1>0, <1>1, OneMoves
<1>2. ASSUME Arrive(g) \/ Step(g)
      PROVE  Expire(g)
  BY <1>2 DEF Arrive, RequestOTP, VerifyVote, Step, CheckEmail, CheckFingerprint, CheckIP,
              CandidateName, CheckBlocked, Store, Enqueue, Unstore, CheckLock, Fetch,
              Mismatch, Block, Clear, Consume, InsertVote, Reply
<1>3. CASE UNCHANGED <<pc, req>>
  BY <1>3
<1>4. CASE UNCHANGED vars \/ OpenOrClose \/ \E e \in Emails : Time(e)
  BY <1>3, <1>4 DEF vars, OpenOrClose, Time, ExpireOTP, ExpireAttempts, ExpireBlock
<1>5. CASE \E c \in Candidates : Admin(c)
  BY <1>3, <1>5 DEF Admin, InsertCandidate, CountBeforeDelete, DeleteCandidate, DeleteFails
<1>6. ~RedisRestart /\ \A h \in Handlers : ~Fail(h) /\ ~LoseWrite(h)
  BY DEF RedisRestart, Fail, LoseWrite
<1> QED BY <1>1, <1>2, <1>4, <1>5, <1>6 DEF Next

\* The TTL of a counter goes away with the counter only.
LEMMA ExpiringSteps ==
    ASSUME ~Faults, Inv, [Next]_vars, NEW e \in Emails, attempts'[e] > 0, ~expiring'[e]
    PROVE  \/ attempts[e] > 0 /\ ~expiring[e]
           \/ \E h \in Handlers : Mismatch(h) /\ req[h].email = e /\ pc'[h] = "expire"
                                              /\ req'[h] = req[h]
<1>0. TypeOK /\ MaxOTPAttempts \in Nat \ {0, 1}
  BY AttemptsType DEF Inv
<1>1. ASSUME UNCHANGED <<attempts, expiring>>
      PROVE  attempts[e] > 0 /\ ~expiring[e]
  BY <1>1
<1>2. ASSUME NEW h \in Handlers,
             \/ Arrive(h)
             \/ CheckEmail(h) \/ CheckFingerprint(h) \/ CheckIP(h) \/ CandidateName(h)
             \/ CheckBlocked(h) \/ Store(h) \/ Enqueue(h) \/ Unstore(h)
             \/ CheckLock(h) \/ Fetch(h) \/ Block(h) \/ InsertVote(h) \/ Reply(h)
      PROVE  UNCHANGED <<attempts, expiring>>
  BY <1>2 DEF Arrive, RequestOTP, VerifyVote, CheckEmail, CheckFingerprint, CheckIP,
              CandidateName, CheckBlocked, Store, Enqueue, Unstore, CheckLock, Fetch,
              Block, InsertVote, Reply
<1>3. ASSUME NEW h \in Handlers, Mismatch(h)
      PROVE  \/ attempts[e] > 0 /\ ~expiring[e]
             \/ req[h].email = e /\ pc'[h] = "expire" /\ req'[h] = req[h]
  <2>1. CASE req[h].email # e
    BY <1>0, <1>3, <2>1 DEF Mismatch, TypeOK
  <2>2. CASE req[h].email = e /\ attempts[e] = 0
    BY <1>0, <1>3, <2>2 DEF Mismatch, FirstAttempt, AttemptsExhausted, Goto, TypeOK
  <2>3. CASE req[h].email = e /\ attempts[e] # 0
    BY <1>0, <1>3, <2>3 DEF Mismatch, TypeOK
  <2> QED BY <2>1, <2>2, <2>3
<1>4. ASSUME NEW h \in Handlers, Expire(h)
      PROVE  attempts[e] > 0 /\ ~expiring[e]
  BY <1>0, <1>4 DEF Expire, TypeOK
<1>5. ASSUME NEW h \in Handlers, Clear(h) \/ Consume(h)
      PROVE  attempts[e] > 0 /\ ~expiring[e]
  BY <1>0, <1>5 DEF Clear, Consume, DeleteKeys, TypeOK
<1>6. ASSUME NEW f \in Emails, Time(f)
      PROVE  attempts[e] > 0 /\ ~expiring[e]
  <2>1. CASE ExpireAttempts(f)
    BY <1>0, <2>1 DEF ExpireAttempts, TypeOK
  <2> QED BY <1>1, <1>6, <2>1 DEF Time, ExpireOTP, ExpireBlock
<1>7. CASE UNCHANGED vars \/ OpenOrClose \/ \E c \in Candidates : Admin(c)
  BY <1>1, <1>7 DEF vars, OpenOrClose, Admin, InsertCandidate, CountBeforeDelete,
                    DeleteCandidate, DeleteFails
<1>8. ~RedisRestart /\ \A h \in Handlers : ~Fail(h) /\ ~LoseWrite(h)
  BY DEF RedisRestart, Fail, LoseWrite
<1> QED
  BY <1>1, <1>2, <1>3, <1>4, <1>5, <1>6, <1>7, <1>8 DEF Next, Step

\* A failure counter never stays without a TTL: somebody is about to set it
\* (otp_service.go recordFailure, EXPIRE after the first INCR).
THEOREM CountersExpire ==
    ASSUME ~Faults
    PROVE  Spec => []CounterHasTTL
<1>1. Init => CounterHasTTL
  BY DEF Init, CounterHasTTL
<1>2. Inv /\ CounterHasTTL /\ [Next]_vars => CounterHasTTL'
  <2> SUFFICES ASSUME Inv, CounterHasTTL, [Next]_vars,
                      NEW e \in Emails, attempts'[e] > 0, ~expiring'[e]
               PROVE  \E h \in Handlers : pc'[h] = "expire" /\ req'[h].email = e
    BY DEF CounterHasTTL
  <2>1. CASE attempts[e] > 0 /\ ~expiring[e]
    <3>1. PICK h \in Handlers : pc[h] = "expire" /\ req[h].email = e
      BY <2>1 DEF CounterHasTTL
    <3>2. CASE Expire(h)
      BY <3>1, <3>2 DEF Expire, Inv, TypeOK
    <3> QED BY <3>1, <3>2, ExpirerSteps
  <2> QED BY <2>1, ExpiringSteps
<1> QED BY <1>1, <1>2, Invariance, PTL DEF Spec

-----------------------------------------------------------------------------
(* What becomes of an accepted code. *)

\* A code is stored for a candidate that was on the roll when it was asked for, and a
\* candidate once on the roll is on it or gone.
Carrying == {"checkBlocked", "store", "consume", "insert"}

OnRoll ==
    /\ \A e \in Emails : otp[e] # None => roll[otp[e].cand] # "new"
    /\ \A h \in Handlers : pc[h] \in Carrying => roll[req[h].cand] # "new"

LEMMA RollStays ==
    ASSUME TypeOK, [Next]_vars, NEW c \in Candidates, roll[c] # "new"
    PROVE  roll'[c] # "new"
BY TableSteps DEF Inserts, Lists, Removes, TypeOK

LEMMA CodesOnRoll ==
    ASSUME Inv, Inv', OnRoll, [Next]_vars, NEW e \in Emails, otp'[e] # None
    PROVE  roll'[otp'[e].cand] # "new"
<1>0. TypeOK /\ otp'[e].cand \in Candidates
  <2>1. [email |-> e, fp |-> otp'[e].fp, cand |-> otp'[e].cand] \in Ballot
    BY BallotsType DEF Inv, RequestsBacked
  <2> QED BY <2>1 DEF Ballot, Inv
<1>1. CASE otp'[e] = otp[e]
  BY <1>0, <1>1, RollStays DEF OnRoll
<1>2. CASE \E h \in Handlers : Store(h) /\ otp'[e].cand = req[h].cand
  <2>1. PICK h \in Handlers : Store(h) /\ otp'[e].cand = req[h].cand
    BY <1>2
  <2>2. roll[req[h].cand] # "new"
    BY <2>1 DEF Store, OnRoll, Carrying
  <2> QED BY <1>0, <2>1, <2>2, RollStays
<1>3. ASSUME NEW h \in Handlers, Store(h)
      PROVE  otp'[e] = otp[e] \/ otp'[e].cand = req[h].cand
  BY <1>0, <1>3 DEF Store, TypeOK
<1>4. ASSUME NEW h \in Handlers, Step(h), ~Store(h)
      PROVE  otp'[e] = otp[e]
  BY <1>0, <1>4 DEF Step, CheckEmail, CheckFingerprint, CheckIP, CandidateName, CheckBlocked,
              Enqueue, Unstore, CheckLock, Fetch, Mismatch, Expire, Block, Clear,
              Consume, DeleteKeys, InsertVote, Reply, TypeOK
<1>5. ASSUME NEW h \in Handlers, Arrive(h) \/ Fail(h) \/ LoseWrite(h)
      PROVE  otp' = otp
  BY <1>5 DEF Arrive, RequestOTP, VerifyVote, Fail, LoseWrite
<1>6. ASSUME NEW f \in Emails, Time(f)
      PROVE  otp'[e] = otp[e]
  BY <1>0, <1>6 DEF Time, ExpireOTP, ExpireAttempts, ExpireBlock, TypeOK
<1>7. CASE UNCHANGED vars \/ OpenOrClose \/ \E c \in Candidates : Admin(c)
  BY <1>1, <1>7 DEF vars, OpenOrClose, Admin, InsertCandidate, CountBeforeDelete,
                    DeleteCandidate, DeleteFails
<1>8. ~RedisRestart
  BY DEF RedisRestart
<1> QED
  BY <1>1, <1>2, <1>3, <1>4, <1>5, <1>6, <1>7, <1>8 DEF Next

LEMMA HandlersOnRoll ==
    ASSUME Inv, Inv', OnRoll, [Next]_vars, NEW g \in Handlers, pc'[g] \in Carrying
    PROVE  roll'[req'[g].cand] # "new"
<1>0. TypeOK /\ req'[g].cand \in Candidates
  <2>1. BallotOf(req'[g]) \in Ballot
    BY BallotsType DEF Inv, RequestsBacked, RequestSteps, Carrying
  <2> QED BY <2>1 DEF Ballot, BallotOf, Inv
<1>1. CASE pc'[g] = pc[g] /\ req'[g] = req[g]
  BY <1>0, <1>1, RollStays DEF OnRoll
<1>2. CASE RequestOTP(g) \/ VerifyVote(g) \/ Fail(g)
  BY <1>0, <1>2 DEF RequestOTP, VerifyVote, Fail, Finish, TypeOK, Carrying
<1>3. CASE CheckEmail(g) \/ CheckFingerprint(g) \/ CheckIP(g) \/ CheckLock(g)
  BY <1>0, <1>3 DEF CheckEmail, CheckFingerprint, CheckIP, CheckLock, Finish, Goto, TypeOK, Carrying
<1>4. CASE CandidateName(g)
  BY <1>0, <1>4, RollStays DEF CandidateName, Finish, Goto, TypeOK, Carrying
<1>5. CASE CheckBlocked(g)
  <2>1. pc[g] \in Carrying /\ roll[req[g].cand] # "new" /\ req[g] \in Request
    BY <1>0, <1>5, RequestType DEF CheckBlocked, OnRoll, Carrying
  <2>2. req'[g].cand = req[g].cand
    BY <1>0, <1>5, <2>1 DEF CheckBlocked, Finish, TypeOK, Request, Carrying
  <2> QED BY <1>0, <2>1, <2>2, RollStays
<1>6. CASE Store(g) \/ Enqueue(g) \/ Unstore(g)
  BY <1>0, <1>6 DEF Store, Enqueue, Unstore, Finish, Goto, TypeOK, Carrying
<1>7. CASE Fetch(g)
  <2>1. /\ req[g] \in Request /\ req[g].email \in Emails /\ otp[req[g].email] # None
        /\ req'[g] = WithStored(req[g], otp[req[g].email])
    BY <1>0, <1>7, RequestType DEF Fetch, Finish, Goto, TypeOK, Carrying
  <2>2. req'[g].cand = otp[req[g].email].cand
    BY <2>1 DEF WithStored, Request
  <2> QED BY <1>0, <2>1, <2>2, RollStays DEF OnRoll
<1>8. CASE Mismatch(g) \/ Expire(g) \/ Block(g) \/ Clear(g) \/ InsertVote(g) \/ Reply(g)
  BY <1>0, <1>8 DEF Mismatch, Expire, Block, Clear, InsertVote, RefuseDuplicate, Reply, Finish, Goto,
                    TypeOK, Carrying
<1>9. CASE Consume(g) \/ LoseWrite(g)
  <2>1. pc[g] \in Carrying /\ req'[g] = req[g]
    BY <1>0, <1>9 DEF Consume, LoseWrite, Finish, Goto, TypeOK, Carrying
  <2> QED BY <1>0, <2>1, RollStays DEF OnRoll
<1>10. ASSUME NEW h \in Handlers, h # g, Arrive(h) \/ Step(h) \/ Fail(h) \/ LoseWrite(h)
       PROVE  roll'[req'[g].cand] # "new"
  BY <1>0, <1>1, <1>10, OneMoves
<1>11. CASE \/ UNCHANGED vars \/ RedisRestart \/ OpenOrClose
            \/ \E e \in Emails : Time(e)
            \/ \E c \in Candidates : Admin(c)
  BY <1>1, <1>11 DEF vars, RedisRestart, OpenOrClose, Time, ExpireOTP, ExpireAttempts,
                     ExpireBlock, Admin, InsertCandidate, CountBeforeDelete,
                     DeleteCandidate, DeleteFails
<1> QED
  BY <1>2, <1>3, <1>4, <1>5, <1>6, <1>7, <1>8, <1>9, <1>10, <1>11 DEF Next, Arrive, Step

\* The ballot of an accepted code is on its way, or somebody has voted with its e-mail or
\* from its device, or its candidate was deleted.
Accepted(h, b) == pc[h] \in {"consume", "insert"} /\ BallotOf(req[h]) = b
Settled(b)     == \/ HasVotedByEmail(b.email) \/ HasVotedByFingerprint(b.fp)
                  \/ roll[b.cand] = "gone"

GoesOn == \A h \in Handlers, b \in Ballots : Accepted(h, b) => Accepted(h, b)' \/ Settled(b)'

LEMMA InsertSettles ==
    ASSUME Inv, OnRoll, NEW h \in Handlers, InsertVote(h), NEW b \in Ballots, BallotOf(req[h]) = b
    PROVE  Settled(b)'
<1>1. /\ b.email = req[h].email /\ b.fp = req[h].fp /\ b.cand = req[h].cand
      /\ b.cand \in Candidates
  BY BallotsType DEF BallotOf, Ballot
<1>2. roll[b.cand] \in {"listed", "gone"} /\ roll' = roll
  BY <1>1 DEF InsertVote, OnRoll, Carrying, Inv, TypeOK
<1>3. CASE Duplicate(req[h])
  <2>1. votes' = votes
    BY <1>3 DEF InsertVote
  <2> QED BY <1>1, <1>3, <2>1 DEF Settled, Duplicate, HasVotedByEmail, HasVotedByFingerprint
<1>4. CASE ~Duplicate(req[h]) /\ ~ForeignKey(req[h].cand)
  BY <1>1, <1>2, <1>4 DEF Settled, ForeignKey
<1>5. CASE ~Duplicate(req[h]) /\ ForeignKey(req[h].cand)
  <2>1. NewVote(req[h]) \in votes' /\ NewVote(req[h]).email = b.email
    BY <1>1, <1>5 DEF InsertVote, NewVote
  <2> QED BY <2>1 DEF Settled, HasVotedByEmail
<1> QED BY <1>3, <1>4, <1>5

\* What AcceptedCodeCounts rests on: without faults a request whose code was accepted keeps the
\* ballot of the code until the INSERT, and leaves it only with that e-mail or that device on
\* record, or the candidate gone (otp_service.go Verify, vote_service.go VerifyAndVote), for
\* any number of voters, devices and concurrent requests.
THEOREM AcceptedCodesGoOn ==
    ASSUME ~Faults
    PROVE  Spec => [][GoesOn]_vars
<1>1. Init => OnRoll
  BY DEF Init, OnRoll, Carrying
<1>2. Inv /\ Inv' /\ OnRoll /\ [Next]_vars => OnRoll'
  BY CodesOnRoll, HandlersOnRoll DEF OnRoll
<1>3. Inv /\ OnRoll /\ [Next]_vars => GoesOn
  <2> SUFFICES ASSUME Inv, OnRoll, [Next]_vars, NEW g \in Handlers, NEW b \in Ballots, Accepted(g, b)
               PROVE  Accepted(g, b)' \/ Settled(b)'
    BY DEF GoesOn
  <2>0. TypeOK
    BY DEF Inv
  <2>1. CASE pc'[g] = pc[g] /\ req'[g] = req[g]
    BY <2>1 DEF Accepted
  <2>2. CASE Arrive(g) \/ Step(g)
    <3>1. Consume(g) \/ InsertVote(g)
      BY <2>2 DEF Accepted, Arrive, RequestOTP, VerifyVote, Step, CheckEmail, CheckFingerprint, CheckIP,
                  CandidateName, CheckBlocked, Store, Enqueue, Unstore, CheckLock, Fetch, Mismatch,
                  Expire, Block, Clear, Reply
    <3>2. CASE Consume(g)
      BY <2>0, <3>2 DEF Consume, Goto, Accepted, TypeOK
    <3>3. CASE InsertVote(g)
      BY <3>3, InsertSettles DEF Accepted
    <3> QED BY <3>1, <3>2, <3>3
  <2>3. ASSUME NEW h \in Handlers, h # g, Arrive(h) \/ Step(h)
        PROVE  Accepted(g, b)'
    BY <2>0, <2>1, <2>3, OneMoves DEF Accepted
  <2>4. CASE \/ UNCHANGED vars \/ OpenOrClose
             \/ \E e \in Emails : Time(e)
             \/ \E c \in Candidates : Admin(c)
    BY <2>1, <2>4 DEF vars, OpenOrClose, Time, ExpireOTP, ExpireAttempts, ExpireBlock, Admin,
                      InsertCandidate, CountBeforeDelete, DeleteCandidate, DeleteFails
  <2>5. ~RedisRestart /\ \A h \in Handlers : ~Fail(h) /\ ~LoseWrite(h)
    BY DEF RedisRestart, Fail, LoseWrite
  <2> QED BY <2>2, <2>3, <2>4, <2>5 DEF Next
<1> QED BY <1>1, <1>2, <1>3, Invariance, PTL DEF Spec
=============================================================================
