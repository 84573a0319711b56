----------------------------- MODULE MailLemmas -----------------------------
(***************************************************************************)
(* Lemmas on the lists MailData puts together: which elements are in them, *)
(* and that none is in them twice; and on secret keys in files and in an   *)
(* agent.                                                                  *)
(***************************************************************************)
EXTENDS Secrets, SequenceLemmas

LEMMA KeepFacts ==
    ASSUME NEW S, NEW s \in Seq(S), NEW T
    PROVE  /\ Keep(s, T) \in Seq(S) /\ Keep(s, T) \in Seq(T)
           /\ ToSet(Keep(s, T)) = ToSet(s) \intersect T
           /\ IsInjective(s) => IsInjective(Keep(s, T))
<1> DEFINE D == {i \in 1..Len(s) : s[i] \in T}
           Piece(i) == IF s[i] \in T THEN << s[i] >> ELSE << >>
           Picked(i) == IF i \in D THEN << s[i] >> ELSE << >>
<1>1. Len(s) \in Nat /\ DOMAIN s = 1..Len(s)
    BY LenProperties
<1>2. \A i \in DOMAIN s : Piece(i) = Picked(i)
    BY <1>1
<1>3. [i \in DOMAIN s |-> Piece(i)] = [i \in DOMAIN s |-> Picked(i)]
    <2> HIDE DEF Piece, Picked
    <2>1. QED BY <1>2
<1>4. Keep(s, T) = FlattenSeq([i \in DOMAIN s |-> Picked(i)])
    <2>1. Keep(s, T) = FlattenSeq([i \in DOMAIN s |-> Piece(i)])
        BY Zenon DEF Keep
    <2> HIDE DEF Piece, Picked
    <2>2. QED BY <1>3, <2>1
<1> DEFINE k == Keep(s, T)
<1>5. /\ k \in Seq(S)
      /\ \A x : x \in ToSet(k) <=> \E i \in 1..Len(s) : i \in D /\ x = s[i]
      /\ (\A i, j \in 1..Len(s) : i \in D /\ j \in D /\ s[i] = s[j] => i = j) => IsInjective(k)
    <2>1. k = Picks(s, D)
        BY <1>4, Zenon DEF Picks
    <2> HIDE DEF D, k
    <2>2. QED BY <2>1, PickFacts
<1> HIDE DEF k
<1>6. \A x : x \in ToSet(s) <=> \E i \in 1..Len(s) : x = s[i]
    BY SeqFacts
<1>7. \A x : x \in ToSet(k) <=> x \in ToSet(s) /\ x \in T
    BY <1>5, <1>6
<1>8. k \in Seq(ToSet(k)) /\ ToSet(k) \subseteq T
    BY <1>5, <1>7, SeqFacts
<1>9. k \in Seq(T)
    BY <1>8
<1>10. IsInjective(s) => IsInjective(k)
    BY <1>1, <1>5 DEF IsInjective
<1>11. QED BY <1>5, <1>7, <1>9, <1>10 DEF k

\* Without duplicates, the same certificates.
LEMMA DedupeFacts ==
    ASSUME NEW s \in Seq(Certs)
    PROVE  /\ Dedupe(s) \in Seq(Certs)
           /\ ToSet(Dedupe(s)) = ToSet(s)
           /\ IsInjective(Dedupe(s))
<1> DEFINE Again(i) == \E j \in 1..(i - 1) : s[j] = s[i]
           D == {i \in 1..Len(s) : ~Again(i)}
           Piece(i) == IF Again(i) THEN << >> ELSE << s[i] >>
           Picked(i) == IF i \in D THEN << s[i] >> ELSE << >>
<1>1. Len(s) \in Nat /\ DOMAIN s = 1..Len(s)
    BY LenProperties
<1>2. \A i \in DOMAIN s : Piece(i) = Picked(i)
    BY <1>1
<1>3. [i \in DOMAIN s |-> Piece(i)] = [i \in DOMAIN s |-> Picked(i)]
    <2> HIDE DEF Piece, Picked
    <2>1. QED BY <1>2
<1>4. Dedupe(s) = FlattenSeq([i \in DOMAIN s |-> Picked(i)])
    <2>1. Dedupe(s) = FlattenSeq([i \in DOMAIN s |-> Piece(i)])
        BY DEF Dedupe, Firsts
    <2> HIDE DEF Piece, Picked
    <2>2. QED BY <1>3, <2>1
<1> DEFINE d == Dedupe(s)
<1>5. /\ d \in Seq(Certs)
      /\ \A x : x \in ToSet(d) <=> \E i \in 1..Len(s) : i \in D /\ x = s[i]
      /\ (\A i, j \in 1..Len(s) : i \in D /\ j \in D /\ s[i] = s[j] => i = j) => IsInjective(d)
    <2>1. d = Picks(s, D)
        BY <1>4, Zenon DEF Picks
    <2> HIDE DEF D, d
    <2>2. QED BY <2>1, PickFacts
<1> HIDE DEF d
<1>6. \A x : x \in ToSet(s) <=> \E i \in 1..Len(s) : x = s[i]
    BY SeqFacts
<1>7. ASSUME NEW i \in 1..Len(s), NEW j \in 1..Len(s), i \in D, j \in D, s[i] = s[j]
      PROVE  i = j
    <2>1. i < j => i \in 1..(j - 1)
        BY <1>1
    <2>2. j < i => j \in 1..(i - 1)
        BY <1>1
    <2>3. QED BY <1>1, <1>7, <2>1, <2>2
\* The first of equals is kept.
<1>8. ASSUME NEW i \in 1..Len(s) PROVE \E j \in D : s[j] = s[i]
    <2> DEFINE T == {j \in 1..Len(s) : s[j] = s[i]}
    <2>1. T \subseteq Nat /\ T # {}
        BY <1>1
    <2>2. PICK k \in T : \A j \in T : ~(<<j, k>> \in OpToRel(<, Nat))
        <3> HIDE DEF T
        <3>1. QED BY <2>1, NatLessThanWellFounded, WFMin
    <2>3. \A j \in 1..(k - 1) : j \in 1..Len(s) /\ j \in Nat /\ k \in Nat /\ j < k
        BY <1>1
    <2>4. ASSUME NEW j \in 1..(k - 1) PROVE s[j] # s[k]
        BY <2>2, <2>3 DEF OpToRel
    <2>5. k \in D
        BY <2>4
    <2>6. QED BY <2>5
<1>9. \A x : x \in ToSet(d) <=> x \in ToSet(s)
    BY <1>5, <1>6, <1>8
<1>10. IsInjective(d)
    <2> HIDE DEF D
    <2>1. QED BY <1>5, <1>7
<1>11. QED BY <1>5, <1>9, <1>10 DEF d

-----------------------------------------------------------------------------
(* Secret keys.                                                             *)

LEMMA CertOfFacts ==
    ASSUME NEW k \in Key
    PROVE  /\ CertOf(k) \in Certs /\ k \in ToSet(Keys[CertOf(k)])
           /\ \A c \in Certs : k \in ToSet(Keys[c]) => c = CertOf(k)
<1>1. \E c \in Certs : k \in ToSet(Keys[c])
    BY DEF Key
<1>2. CertOf(k) \in Certs /\ k \in ToSet(Keys[CertOf(k)])
    BY <1>1 DEF CertOf
<1>3. \A c \in Certs : k \in ToSet(Keys[c]) => c = CertOf(k)
    BY <1>2, MailAssumption
<1>4. QED BY <1>2, <1>3

LEMMA SecretKeysFacts ==
    SecretKeys \in Seq(Certs) /\ ToSet(SecretKeys) = {c \in Certs : HasFile(c)}
<1> DEFINE T == {c \in Certs : HasFile(c)}
<1>1. Ring \in Seq(Certs) /\ ToSet(Ring) = Certs
    BY MailAssumption DEF Certs
<1>2. T \subseteq Certs /\ SecretKeys = Keep(Ring, T)
    BY DEF SecretKeys
<1> HIDE DEF T
<1>3. Keep(Ring, T) \in Seq(Certs) /\ ToSet(Keep(Ring, T)) = Certs \intersect T
    BY <1>1, KeepFacts
<1>4. ToSet(SecretKeys) = T
    BY <1>2, <1>3
<1>5. QED BY <1>2, <1>3, <1>4 DEF T

\* Unlocking a certificate loads every key that can be read.
LEMMA UnlocksAll ==
    ASSUME NEW k \in Key, NEW got, Unlocks(CertOf(k), got), Readable(k)
    PROVE  k \in got
<1> DEFINE c == CertOf(k)
<1>1. (Protected(c) => c \in willing) /\ k \in Attachable(c, TRUE)
    BY DEF Readable
<1>2. k \in ToSet(Keys[c]) /\ HasGrip(k) /\ (file[k] = "open" \/ file[k] = "locked")
    BY <1>1 DEF Attachable
<1>3. CASE Protected(c)
    BY <1>1, <1>3 DEF Unlocks
<1>4. CASE ~Protected(c)
    <2>1. file[k] = "open"
        BY <1>2, <1>4 DEF Protected
    <2>2. k \in Attachable(c, FALSE)
        BY <1>2, <2>1 DEF Attachable
    <2>3. QED BY <1>4, <2>2 DEF Unlocks
<1>5. QED BY <1>3, <1>4

\* What a gpg-agent may be found to hold.
AgentType == [up : BOOLEAN, holds : SUBSET Key, ready : SUBSET Key, cached : SUBSET Key]

LEMMA AgentTyped ==
    ASSUME agent \in AgentType
    PROVE  /\ \A k \in Key : [agent EXCEPT !.cached = @ \union {k}] \in AgentType
           /\ \A k \in Key : [agent EXCEPT !.ready = @ \ {k}] \in AgentType
           /\ [up |-> FALSE, holds |-> {}, ready |-> {}, cached |-> {}] \in AgentType
<1>1. agent = [up |-> agent.up, holds |-> agent.holds, ready |-> agent.ready, cached |-> agent.cached]
      /\ agent.up \in BOOLEAN /\ agent.holds \subseteq Key /\ agent.ready \subseteq Key
      /\ agent.cached \subseteq Key
    BY DEF AgentType
<1>2. ASSUME NEW k \in Key
      PROVE  /\ [agent EXCEPT !.cached = @ \union {k}] \in AgentType
             /\ [agent EXCEPT !.ready = @ \ {k}] \in AgentType
    <2>1. agent.cached \union {k} \in SUBSET Key /\ agent.ready \ {k} \in SUBSET Key
        BY <1>1
    <2>2. QED BY <2>1 DEF AgentType
<1>3. [up |-> FALSE, holds |-> {}, ready |-> {}, cached |-> {}] \in AgentType
    BY DEF AgentType
<1>4. QED BY <1>2, <1>3

LEMMA CertsFinite == IsFiniteSet(Certs)
BY MailAssumption, CountFacts DEF Certs
=============================================================================
