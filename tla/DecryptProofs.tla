--------------------------- MODULE DecryptProofs ---------------------------
(***************************************************************************)
(* Proofs about --decrypt: its state is typed, the agent is never asked    *)
(* the same thing twice, it is asked before the key files are, and a       *)
(* message is not given up while a key file can open it.  And about        *)
(* --verify and --decrypt of the same input: what --verify says is sound,  *)
(* the two commands never contradict each other, and what holds of         *)
(* --decrypt alone holds of it after --verify, too.                        *)
(***************************************************************************)
EXTENDS Verify, MailLemmas

-----------------------------------------------------------------------------
(* Keys and certificates.                                                   *)

\* The keys of a certificate that can be tried through the agent.
LEMMA SubkeyFacts ==
    ASSUME NEW c \in Certs
    PROVE  LET t == Keep(Subkeys(c), {k \in Key : AgentDecrypts(k)})
           IN  /\ t \in Seq(Key) /\ IsInjective(t)
               /\ ToSet(t) = {k \in ToSet(Keys[c]) : AgentDecrypts(k)}
<1> DEFINE s == Keys[c]
           T == {k \in Key : AgentDecrypts(k)}
<1>1. s \in Seq(Key) /\ s # << >> /\ IsInjective(s) /\ ~AgentDecrypts(s[1])
    BY MailAssumption DEF AgentDecrypts
<1> HIDE DEF s
<1>2. /\ Tail(s) \in Seq(Key) /\ ToSet(s) = {Head(s)} \union ToSet(Tail(s))
      /\ IsInjective(Tail(s)) /\ ~AgentDecrypts(Head(s))
    BY <1>1, HeadTailFacts
<1>3. ToSet(s) \subseteq Key
    BY <1>1, SeqFacts
<1> DEFINE t == Keep(Tail(s), T)
<1> HIDE DEF T
<1>4. t \in Seq(Key) /\ IsInjective(t) /\ ToSet(t) = ToSet(Tail(s)) \intersect T
    BY <1>2, KeepFacts
<1> HIDE DEF t
<1> USE DEF T
<1>5. ToSet(t) = {k \in ToSet(s) : AgentDecrypts(k)}
    BY <1>2, <1>3, <1>4
<1> HIDE DEF T
<1>6. QED BY <1>4, <1>5 DEF s, t, T, Subkeys

\* The recipients of a message.
LEMMA MessageFacts ==
    ASSUME msg \in Message
    PROVE  /\ msg.to \in Seq(Packet) /\ Len(msg.to) \in Nat /\ DOMAIN msg.to = 1..Len(msg.to)
           /\ \A i \in DOMAIN msg.to :
                 /\ msg.to[i] \in Packet /\ msg.to[i].hidden \in BOOLEAN
                 /\ msg.to[i].key \in Key \union Strangers
<1>1. msg.to \in Seq(Packet)
    BY DEF Message
<1>2. Len(msg.to) \in Nat /\ DOMAIN msg.to = 1..Len(msg.to)
      /\ \A i \in DOMAIN msg.to : msg.to[i] \in Packet
    BY <1>1, LenProperties
<1>3. \A p \in Packet : p.hidden \in BOOLEAN /\ p.key \in Key \union Strangers
    BY DEF Packet
<1>4. QED BY <1>1, <1>2, <1>3

\* The certificates with a secret key that the message names.
LEMMA NamedFacts ==
    ASSUME msg \in Message
    PROVE  /\ Named \in Seq(Certs) /\ IsInjective(Named)
           /\ \A c : c \in ToSet(Named) <=>
                 \E i \in DOMAIN msg.to : /\ ~msg.to[i].hidden /\ msg.to[i].key \in Key
                                          /\ HasFile(CertOf(msg.to[i].key))
                                          /\ c = CertOf(msg.to[i].key)
           /\ ToSet(Named) \subseteq ToSet(SecretKeys)
<1> DEFINE T == {p \in Packet : ~p.hidden /\ p.key \in Key /\ HasFile(CertOf(p.key))}
           for == Keep(msg.to, T)
           cs == [i \in DOMAIN for |-> CertOf(for[i].key)]
<1>1. Named = Dedupe(cs)
    BY DEF Named
<1>2. \A p : p \in T <=> p \in Packet /\ ~p.hidden /\ p.key \in Key /\ HasFile(CertOf(p.key))
    OBVIOUS
<1> HIDE DEF T
<1>3. msg.to \in Seq(Packet) /\ \A i \in DOMAIN msg.to : msg.to[i] \in Packet
    BY MessageFacts
<1>4. for \in Seq(T) /\ ToSet(for) = ToSet(msg.to) \intersect T
    BY <1>3, KeepFacts
<1> HIDE DEF for
<1>5. /\ Len(for) \in Nat /\ DOMAIN for = 1..Len(for)
      /\ \A i \in 1..Len(for) : for[i] \in T
      /\ \A p : p \in ToSet(for) <=> \E i \in 1..Len(for) : p = for[i]
    BY <1>4, LenProperties, SeqFacts
<1>6. \A p : p \in ToSet(msg.to) <=> \E i \in DOMAIN msg.to : p = msg.to[i]
    BY <1>3, MessageFacts, SeqFacts
<1>7. \A i \in 1..Len(for) : CertOf(for[i].key) \in Certs
    BY <1>2, <1>5, CertOfFacts
<1>8. cs \in [1..Len(for) -> Certs] /\ \A i \in 1..Len(for) : cs[i] = CertOf(for[i].key)
    BY <1>5, <1>7
<1> HIDE DEF cs
<1>9. cs \in Seq(Certs) /\ DOMAIN cs = 1..Len(for)
    BY <1>5, <1>8, SeqDef
<1>10. Named \in Seq(Certs) /\ IsInjective(Named) /\ ToSet(Named) = ToSet(cs)
    BY <1>1, <1>9, DedupeFacts
<1>11. \A c : c \in ToSet(cs) <=> \E i \in 1..Len(for) : c = CertOf(for[i].key)
    BY <1>8, <1>9 DEF ToSet
<1>12. \A c : c \in ToSet(cs) <=> \E p \in ToSet(for) : c = CertOf(p.key)
    BY <1>5, <1>11
<1>13. \A p : p \in ToSet(for) <=>
          \E i \in DOMAIN msg.to : /\ p = msg.to[i] /\ ~msg.to[i].hidden /\ msg.to[i].key \in Key
                                   /\ HasFile(CertOf(msg.to[i].key))
    BY <1>2, <1>3, <1>4, <1>6
<1>14. \A c : c \in ToSet(Named) <=>
          \E i \in DOMAIN msg.to : /\ ~msg.to[i].hidden /\ msg.to[i].key \in Key
                                   /\ HasFile(CertOf(msg.to[i].key))
                                   /\ c = CertOf(msg.to[i].key)
    BY <1>10, <1>12, <1>13
<1>15. ToSet(Named) \subseteq ToSet(SecretKeys)
    BY <1>14, SecretKeysFacts, CertOfFacts
<1>16. QED BY <1>10, <1>14, <1>15

LEMMA CandidatesFacts ==
    ASSUME msg \in Message
    PROVE  /\ AgentCandidates \in Seq(Certs) /\ IsInjective(AgentCandidates)
           /\ ToSet(AgentCandidates) =
                 ToSet(Named) \union (IF HasWildcard THEN ToSet(SecretKeys) ELSE {})
<1>1. Named \in Seq(Certs) /\ IsInjective(Named) /\ SecretKeys \in Seq(Certs)
    BY NamedFacts, SecretKeysFacts
<1>2. /\ Named \o SecretKeys \in Seq(Certs)
      /\ ToSet(Named \o SecretKeys) = ToSet(Named) \union ToSet(SecretKeys)
    BY <1>1, ConcatFacts
<1> DEFINE d == Dedupe(Named \o SecretKeys)
<1>3. d \in Seq(Certs) /\ IsInjective(d) /\ ToSet(d) = ToSet(Named) \union ToSet(SecretKeys)
    BY <1>2, DedupeFacts
<1>4. AgentCandidates = IF HasWildcard THEN d ELSE Named
    BY DEF AgentCandidates
<1> HIDE DEF d
<1>5. QED BY <1>1, <1>3, <1>4

\* The keys to try through the agent: the supported subkeys of the candidates.
LEMMA QueueFacts ==
    ASSUME msg \in Message
    PROVE  /\ AgentQueue \in Seq(Key) /\ IsInjective(AgentQueue)
           /\ \A k \in Key : k \in ToSet(AgentQueue) <=>
                                AgentDecrypts(k) /\ CertOf(k) \in ToSet(AgentCandidates)
           /\ \A k \in ToSet(AgentQueue) : k \in Key /\ AgentDecrypts(k)
<1> DEFINE s == AgentCandidates
           T == {k \in Key : AgentDecrypts(k)}
           Part(i) == Keep(Subkeys(s[i]), T)
           ss == [i \in DOMAIN s |-> Part(i)]
<1>1. s \in Seq(Certs) /\ IsInjective(s)
    BY CandidatesFacts
<1>2. AgentQueue = FlattenSeq(ss)
    BY <1>1 DEF AgentQueue, AgentSubkeys
<1> HIDE DEF s
<1>3. Len(s) \in Nat /\ DOMAIN s = 1..Len(s) /\ \A i \in 1..Len(s) : s[i] \in Certs
    BY <1>1, LenProperties
<1>4. \A i \in 1..Len(s) : /\ Part(i) \in Seq(Key) /\ IsInjective(Part(i))
                           /\ ToSet(Part(i)) = {k \in ToSet(Keys[s[i]]) : AgentDecrypts(k)}
    BY <1>3, SubkeyFacts
<1> HIDE DEF Part
<1>5. ss \in [1..Len(s) -> Seq(Key)] /\ \A i \in 1..Len(s) : ss[i] = Part(i)
    BY <1>3, <1>4
<1> HIDE DEF ss
<1>6. ss \in Seq(Seq(Key)) /\ Len(ss) = Len(s)
    <2>1. ss \in Seq(Seq(Key)) /\ DOMAIN ss = 1..Len(s)
        BY <1>3, <1>5, SeqDef
    <2>2. DOMAIN ss = 1..Len(ss) /\ Len(ss) \in Nat
        BY <2>1, LenProperties
    <2>3. QED BY <1>3, <2>1, <2>2
<1>7. \A i \in 1..Len(s) : /\ IsInjective(ss[i])
                           /\ \A k : k \in ToSet(ss[i]) <=> k \in ToSet(Keys[s[i]]) /\ AgentDecrypts(k)
    BY <1>4, <1>5
<1>8. \A i \in 1..Len(s) : \A k \in ToSet(ss[i]) : k \in Key /\ s[i] = CertOf(k)
    <2>1. \A c \in Certs : \A k \in ToSet(Keys[c]) : k \in Key
        BY DEF Key
    <2>2. QED BY <1>3, <1>7, <2>1, CertOfFacts
<1>9. \A i, j \in 1..Len(s) : i # j => ToSet(ss[i]) \intersect ToSet(ss[j]) = {}
    <2> SUFFICES ASSUME NEW i \in 1..Len(s), NEW j \in 1..Len(s),
                        NEW k, k \in ToSet(ss[i]), k \in ToSet(ss[j])
                 PROVE  i = j
        OBVIOUS
    <2>1. s[i] = s[j]
        BY <1>8
    <2>2. QED BY <1>1, <1>3, <2>1 DEF IsInjective
<1> DEFINE q == FlattenSeq(ss)
<1>10. /\ q \in Seq(Key) /\ IsInjective(q)
       /\ \A k : k \in ToSet(q) <=> \E i \in 1..Len(s) : k \in ToSet(ss[i])
    BY <1>6, <1>7, <1>9, FlattenFacts
<1> HIDE DEF q
<1>11. \A c : c \in ToSet(s) <=> \E i \in 1..Len(s) : c = s[i]
    BY <1>1, SeqFacts
<1>12. \A k \in Key : k \in ToSet(q) <=> AgentDecrypts(k) /\ CertOf(k) \in ToSet(s)
    <2> SUFFICES ASSUME NEW k \in Key
                 PROVE  k \in ToSet(q) <=> AgentDecrypts(k) /\ CertOf(k) \in ToSet(s)
        OBVIOUS
    <2>1. k \in ToSet(q) => AgentDecrypts(k) /\ CertOf(k) \in ToSet(s)
        BY <1>7, <1>8, <1>10, <1>11
    <2>2. ASSUME AgentDecrypts(k), NEW i \in 1..Len(s), CertOf(k) = s[i] PROVE k \in ToSet(q)
        BY <1>7, <1>10, <2>2, CertOfFacts
    <2>3. QED BY <1>11, <2>1, <2>2
<1>13. \A k \in ToSet(q) : k \in Key /\ AgentDecrypts(k)
    BY <1>7, <1>8, <1>10
<1>14. QED BY <1>2, <1>10, <1>12, <1>13 DEF q, s

\* The hidden packets, in order.
LEMMA WildcardsFacts ==
    ASSUME msg \in Message
    PROVE  /\ Wildcards \in Seq(DOMAIN msg.to) /\ IsInjective(Wildcards)
           /\ \A i : i \in ToSet(Wildcards) <=>
                        i \in DOMAIN msg.to /\ msg.to[i].hidden /\ IsECDH(msg.to[i].key)
<1> DEFINE N == DOMAIN msg.to
           s == [i \in N |-> i]
           T == {i \in N : msg.to[i].hidden /\ IsECDH(msg.to[i].key)}
<1>1. N = 1..Len(msg.to) /\ Len(msg.to) \in Nat
    BY MessageFacts
<1>2. Wildcards = Keep(s, T)
    BY DEF Wildcards
<1>3. \A i : i \in T <=> i \in N /\ msg.to[i].hidden /\ IsECDH(msg.to[i].key)
    OBVIOUS
<1> HIDE DEF T
<1> HIDE DEF N
<1>4. s \in [N -> N] /\ DOMAIN s = N /\ \A i \in N : s[i] = i
    OBVIOUS
<1> HIDE DEF s
<1>5. s \in Seq(N) /\ IsInjective(s) /\ \A i : i \in ToSet(s) <=> i \in N
    BY <1>1, <1>4, SeqDef DEF IsInjective, ToSet
<1>6. Keep(s, T) \in Seq(N) /\ IsInjective(Keep(s, T)) /\ ToSet(Keep(s, T)) = ToSet(s) \intersect T
    BY <1>5, KeepFacts
<1>7. QED BY <1>2, <1>3, <1>5, <1>6 DEF N

-----------------------------------------------------------------------------
(* What the command was given stays as it is.                               *)

LEMMA Unchanging ==
    ASSUME world' = world
    PROVE  /\ msg' = msg /\ file' = file /\ willing' = willing
           /\ SecretKeys' = SecretKeys /\ HasWildcard' = HasWildcard /\ Named' = Named
           /\ AgentCandidates' = AgentCandidates /\ AgentQueue' = AgentQueue
           /\ Wildcards' = Wildcards
<1>1. msg' = msg /\ file' = file /\ willing' = willing
    BY DEF world, home
<1>2. SecretKeys' = SecretKeys
    BY <1>1, Zenon DEF SecretKeys, HasFile
<1>3. HasWildcard' = HasWildcard
    BY <1>1, Zenon DEF HasWildcard
<1>4. Named' = Named
    BY <1>1, Zenon DEF Named, HasFile
<1>5. AgentCandidates' = AgentCandidates
    BY <1>2, <1>3, <1>4, Zenon DEF AgentCandidates
<1>6. AgentQueue' = AgentQueue
    BY <1>5, Zenon DEF AgentQueue
<1>7. Wildcards' = Wildcards
    BY <1>1, Zenon DEF Wildcards
<1>8. QED BY <1>1, <1>2, <1>3, <1>4, <1>5, <1>6, <1>7

LEMMA UnchangingKeys ==
    ASSUME world' = world
    PROVE  /\ \A k : Readable(k)' <=> Readable(k)
           /\ \A c : UnlockFails(c)' <=> UnlockFails(c)
<1>1. msg' = msg /\ file' = file /\ willing' = willing
    BY DEF world, home
<1>2. \A c : Protected(c)' <=> Protected(c)
    BY <1>1, Zenon DEF Protected
<1>3. \A c : Attachable(c, TRUE)' = Attachable(c, TRUE)
    BY <1>1, Zenon DEF Attachable
<1>4. QED BY <1>1, <1>2, <1>3, Zenon DEF Readable, UnlockFails

-----------------------------------------------------------------------------
(* Types.                                                                   *)

Typed == /\ msg \in Message /\ TypeOK
         /\ calls \in Seq(Key \X DOMAIN msg.to)
         /\ pc = "dial" => queue # << >>

\* Before the first step.
AtStart ==
    /\ msg \in Message /\ SecretsTyped
    /\ pc = "start" /\ queue = << >> /\ scan = << >>
    /\ left = << >> /\ opened = {} /\ loaded = {}
    /\ report = "none" /\ written = FALSE
    /\ calls = << >> /\ agentError = FALSE /\ faults = 0

LEMMA InitAtStart == Init => AtStart
BY DecryptAssumption, SecretsAssumption DEF Init, AtStart, SecretsInit, SecretsTyped

LEMMA TypedAtStart == AtStart => Typed
<1> SUFFICES ASSUME AtStart PROVE Typed
    OBVIOUS
<1>1. calls \in Seq(Key \X DOMAIN msg.to) /\ queue \in Seq(Key) /\ scan \in Seq(DOMAIN msg.to)
      /\ left \in Seq(Certs)
    BY DEF AtStart
<1>2. 0 \in 0..MaxFaults
    BY DecryptAssumption
<1>3. QED BY <1>1, <1>2 DEF AtStart, Typed, TypeOK, Ended

\* The agent of a command that is under way is in its type.
LEMMA TypedDecrypt ==
    ASSUME Typed, pc \in {"find", "scan"}, NEW i \in DOMAIN msg.to, PKDecrypt(i)
    PROVE  /\ agent' \in AgentType
           /\ agentError' \in BOOLEAN /\ faults' = faults
           /\ Head(queue) \in Key
           /\ calls' = Append(calls, <<Head(queue), i>>)
           /\ calls' \in Seq(Key \X DOMAIN msg.to)
<1>1. Head(queue) \in Key
    BY HeadTailFacts DEF Typed, TypeOK
<1>2. agent' \in AgentType
    <2>1. agent \in AgentType
        BY DEF Typed, TypeOK, SecretsTyped, AgentType
    <2>2. agent' = agent \/ agent' = [agent EXCEPT !.cached = @ \union {Head(queue)}]
        BY DEF PKDecrypt, AgentUses
    <2>3. QED BY <1>1, <2>1, <2>2, AgentTyped
<1>3. calls' = Append(calls, <<Head(queue), i>>) /\ faults' = faults /\ agentError' \in BOOLEAN
    BY DEF PKDecrypt, Typed, TypeOK
<1>4. <<Head(queue), i>> \in Key \X DOMAIN msg.to
    BY <1>1
<1>5. calls' \in Seq(Key \X DOMAIN msg.to)
    BY <1>3, <1>4, AppendProperties DEF Typed
<1>6. QED BY <1>1, <1>2, <1>3, <1>5

LEMMA VerdictTyped ==
    \A known : Verdict(known) \in {"none", "good", "bad", "unverified"}
BY DEF Verdict

LEMMA TypedStep == Typed /\ [Next]_vars => Typed'
<1> SUFFICES ASSUME Typed, [Next]_vars PROVE Typed'
    OBVIOUS
<1> DEFINE Stages == Ended \union {"start", "dial", "have", "find", "scan", "local", "unlock", "open"}
<1>1. /\ msg \in Message /\ file \in [Key -> File] /\ willing \subseteq Certs /\ agent \in AgentType
      /\ pc \in Stages /\ queue \in Seq(Key) /\ scan \in Seq(DOMAIN msg.to)
      /\ left \in Seq(Certs) /\ opened \subseteq Certs /\ loaded \subseteq Key
      /\ report \in {"none", "good", "bad", "unverified"} /\ written \in BOOLEAN
      /\ agentError \in BOOLEAN /\ faults \in 0..MaxFaults
      /\ (pc \in {"have", "find", "scan"} => queue # << >>)
      /\ (pc = "unlock" => left # << >>)
      /\ (pc = "dial" => queue # << >>)
      /\ calls \in Seq(Key \X DOMAIN msg.to)
    BY DEF Typed, TypeOK, SecretsTyped, AgentType
<1>2. SUFFICES /\ msg' \in Message /\ file' \in [Key -> File] /\ willing' \subseteq Certs
               /\ agent' \in AgentType
               /\ pc' \in Stages /\ queue' \in Seq(Key) /\ scan' \in Seq(DOMAIN msg'.to)
               /\ left' \in Seq(Certs) /\ opened' \subseteq Certs /\ loaded' \subseteq Key
               /\ report' \in {"none", "good", "bad", "unverified"} /\ written' \in BOOLEAN
               /\ agentError' \in BOOLEAN /\ faults' \in 0..MaxFaults
               /\ (pc' \in {"have", "find", "scan"} => queue' # << >>)
               /\ (pc' = "unlock" => left' # << >>)
               /\ (pc' = "dial" => queue' # << >>)
               /\ calls' \in Seq(Key \X DOMAIN msg'.to)
    BY DEF Typed, TypeOK, SecretsTyped, AgentType
<1>3. pc \in {"have", "find", "scan"} => Tail(queue) \in Seq(Key) /\ Head(queue) \in Key
    BY <1>1, HeadTailFacts
<1>4. pc = "unlock" => Tail(left) \in Seq(Certs) /\ Head(left) \in Certs
    BY <1>1, HeadTailFacts
<1> USE DEF vars, world, home, results, ghost, locals, Ended
<1>5. CASE Symmetric \/ Signed \/ Plain
    BY <1>1, <1>5, VerdictTyped DEF Symmetric, Signed, Plain, Finish, Checked
<1>6. CASE Encrypted
    <2>1. AgentQueue \in Seq(Key)
        BY <1>1, QueueFacts
    <2>2. QED BY <1>1, <1>6, <2>1 DEF Encrypted
<1>7. CASE Dial
    <2>1. queue # << >>
        BY <1>1, <1>7 DEF Dial
    <2>2. QED BY <1>1, <1>7, <2>1 DEF Dial
<1>8. CASE HaveKey
    BY <1>1, <1>3, <1>8 DEF HaveKey, NextKey
<1>9. CASE TryExact
    <2>1. CASE Exact(Head(queue)) # {}
        <3>1. PICK i \in Exact(Head(queue)) : PKDecrypt(i)
            BY <1>9, <2>1 DEF TryExact
        <3>2. i \in DOMAIN msg.to
            BY DEF Exact
        <3>3. agent' \in AgentType /\ agentError' \in BOOLEAN /\ faults' = faults
              /\ calls' \in Seq(Key \X DOMAIN msg.to)
            BY <1>9, <3>1, <3>2, TypedDecrypt DEF TryExact
        <3>4. QED BY <1>1, <1>9, <2>1, <3>3, VerdictTyped DEF TryExact, AgentDone, Finish
    <2>2. CASE Exact(Head(queue)) = {}
        <3>1. Wildcards \in Seq(DOMAIN msg.to)
            BY <1>1, WildcardsFacts
        <3>2. QED BY <1>1, <1>9, <2>2, <3>1 DEF TryExact
    <2>3. QED BY <2>1, <2>2
<1>10. CASE Scan
    <2>1. Head(scan) \in DOMAIN msg.to /\ Tail(scan) \in Seq(DOMAIN msg.to)
        BY <1>1, <1>10, HeadTailFacts DEF Scan
    <2>2. agent' \in AgentType /\ agentError' \in BOOLEAN /\ faults' = faults
          /\ calls' \in Seq(Key \X DOMAIN msg.to)
        BY <1>10, <2>1, TypedDecrypt DEF Scan
    <2>3. QED BY <1>1, <1>10, <2>1, <2>2, VerdictTyped DEF Scan, AgentDone, Finish
<1>11. CASE ScanOver
    BY <1>1, <1>3, <1>11 DEF ScanOver, NextKey
<1>12. CASE Local
    <2>1. Named \in Seq(Certs) /\ SecretKeys \in Seq(Certs)
        BY <1>1, NamedFacts, SecretKeysFacts
    <2>2. QED BY <1>1, <1>12, <2>1 DEF Local
<1>13. CASE Unlock
    <2>1. Head(left) \in Certs /\ ToSet(Keys[Head(left)]) \subseteq Key
        BY <1>4, <1>13 DEF Unlock, Key
    <2>2. loaded' \subseteq Key
        BY <1>1, <1>13, <2>1 DEF Unlock
    <2>3. QED BY <1>1, <1>4, <1>13, <2>1, <2>2 DEF Unlock, AfterUnlock
<1>14. CASE UnlockRefused
    BY <1>1, <1>4, <1>14 DEF UnlockRefused, AfterUnlock
<1>15. CASE OpenMessage
    BY <1>1, <1>15, VerdictTyped DEF OpenMessage, Finish
<1>16. CASE (\E k \in Key : PullCard(k)) \/ AgentDies
    <2>1. agent' \in AgentType
        BY <1>1, <1>16, AgentTyped DEF PullCard, AgentDies, CardOut, AgentGone
    <2>2. faults' \in 0..MaxFaults
        BY <1>1, <1>16, DecryptAssumption DEF PullCard, AgentDies
    <2>3. QED BY <1>1, <1>16, <2>1, <2>2 DEF PullCard, AgentDies
<1>17. CASE UNCHANGED vars
    BY <1>1, <1>17
<1>18. QED BY <1>5, <1>6, <1>7, <1>8, <1>9, <1>10, <1>11, <1>12, <1>13, <1>14, <1>15, <1>16, <1>17
        DEF Next, Step, Finished

-----------------------------------------------------------------------------
(* No key is tried twice on a packet.                                       *)

\* Keys leave the queue once they were tried, and packets the scan.
Tries ==
    /\ IsInjective(calls) /\ IsInjective(queue) /\ IsInjective(scan)
    /\ \A e \in ToSet(calls) : msg.to[e[2]].hidden \/ msg.to[e[2]].key = e[1]
    /\ \A i \in ToSet(scan) : msg.to[i].hidden
    /\ pc \in {"start", "dial"} => calls = << >>
    /\ pc \in {"have", "find"} => \A e \in ToSet(calls) : e[1] \notin ToSet(queue)
    /\ pc = "scan" => \A e \in ToSet(calls) : /\ e[1] \notin ToSet(Tail(queue))
                                              /\ e[1] = Head(queue) => e[2] \notin ToSet(scan)

LEMMA TriesStep == Typed /\ Tries /\ [Next]_vars => Tries'
<1> SUFFICES ASSUME Typed, Tries, [Next]_vars PROVE Tries'
    OBVIOUS
<1>1. /\ msg \in Message /\ queue \in Seq(Key) /\ scan \in Seq(DOMAIN msg.to)
      /\ calls \in Seq(Key \X DOMAIN msg.to)
      /\ pc \in {"have", "find", "scan"} => queue # << >>
    BY DEF Typed, TypeOK
<1>2. pc \in {"have", "find", "scan"} =>
         /\ ToSet(queue) = {Head(queue)} \union ToSet(Tail(queue))
         /\ IsInjective(Tail(queue)) /\ Head(queue) \notin ToSet(Tail(queue))
         /\ Head(queue) \in Key
    BY <1>1, HeadTailFacts DEF Tries
<1> USE DEF vars, world, home, results, ghost, locals, Ended
<1>3. CASE Symmetric \/ Signed \/ Plain
    BY <1>3 DEF Symmetric, Signed, Plain, Finish, Tries
<1>4. CASE Encrypted
    BY <1>1, <1>4, QueueFacts DEF Encrypted, Tries
<1>5. CASE Dial
    BY <1>5, Empty DEF Dial, Tries
<1>6. CASE HaveKey
    BY <1>2, <1>6 DEF HaveKey, NextKey, Tries
<1>7. CASE TryExact
    <2>1. CASE Exact(Head(queue)) # {}
        <3>1. PICK i \in Exact(Head(queue)) : PKDecrypt(i)
            BY <1>7, <2>1 DEF TryExact
        <3>2. i \in DOMAIN msg.to /\ ~msg.to[i].hidden /\ msg.to[i].key = Head(queue)
            BY DEF Exact
        <3> DEFINE e == <<Head(queue), i>>
        <3>3. calls' = Append(calls, e) /\ e \in Key \X DOMAIN msg.to
            BY <1>2, <1>7, <3>1, <3>2 DEF PKDecrypt, TryExact
        <3>4. e[1] = Head(queue) /\ e[2] = i
            OBVIOUS
        <3>5. e \notin ToSet(calls)
            BY <1>2, <1>7, <3>4 DEF Tries, TryExact
        <3> HIDE DEF e
        <3>6. ToSet(calls') = ToSet(calls) \union {e} /\ IsInjective(calls')
            BY <1>1, <3>3, <3>5, AppendFacts DEF Tries
        <3>7. pc' \in Ended /\ UNCHANGED <<msg, queue, scan>>
            BY <1>7, <2>1 DEF TryExact, AgentDone, Finish
        <3>8. QED BY <3>2, <3>4, <3>6, <3>7 DEF Tries
    <2>2. CASE Exact(Head(queue)) = {}
        <3>1. IsInjective(Wildcards) /\ \A i \in ToSet(Wildcards) : msg.to[i].hidden
            BY <1>1, WildcardsFacts
        <3>2. pc = "find" /\ pc' = "scan" /\ scan' = Wildcards /\ UNCHANGED <<msg, queue, calls>>
            BY <1>7, <2>2 DEF TryExact
        <3>3. QED BY <1>2, <3>1, <3>2 DEF Tries
    <2>3. QED BY <2>1, <2>2
<1>8. CASE Scan
    <2> DEFINE i == Head(scan)
               e == <<Head(queue), i>>
    <2>1. pc = "scan" /\ scan # << >> /\ UNCHANGED <<msg, queue>>
          /\ ToSet(scan) = {i} \union ToSet(Tail(scan)) /\ i \in DOMAIN msg.to
          /\ IsInjective(Tail(scan)) /\ i \notin ToSet(Tail(scan))
        BY <1>1, <1>8, HeadTailFacts DEF Scan, Tries
    <2>2. calls' = Append(calls, e) /\ e \in Key \X DOMAIN msg.to
        BY <1>2, <1>8, <2>1 DEF Scan, PKDecrypt
    <2>3. e[1] = Head(queue) /\ e[2] = i
        OBVIOUS
    <2>4. \/ scan' = scan /\ pc' \in Ended
          \/ scan' = Tail(scan) /\ pc' = "scan"
        BY <1>8, <2>1 DEF Scan, AgentDone, Finish
    <2> HIDE DEF e, i
    <2>5. i \in ToSet(scan)
        BY <2>1
    <2>6. e \notin ToSet(calls) /\ msg.to[i].hidden
        BY <2>1, <2>3, <2>5 DEF Tries
    <2>7. ToSet(calls') = ToSet(calls) \union {e} /\ IsInjective(calls')
        BY <1>1, <2>2, <2>6, AppendFacts DEF Tries
    <2>8. CASE scan' = scan /\ pc' \in Ended
        BY <2>1, <2>3, <2>6, <2>7, <2>8 DEF Tries
    <2>9. CASE scan' = Tail(scan) /\ pc' = "scan"
        <3>1. \A x \in ToSet(calls') : x[1] \notin ToSet(Tail(queue))
            BY <1>2, <2>1, <2>3, <2>7 DEF Tries
        <3>2. \A x \in ToSet(calls') : x[1] = Head(queue) => x[2] \notin ToSet(scan')
            BY <2>1, <2>3, <2>7, <2>9 DEF Tries
        <3>3. QED BY <2>1, <2>3, <2>6, <2>7, <2>9, <3>1, <3>2 DEF Tries
    <2>10. QED BY <2>4, <2>8, <2>9
<1>9. CASE ScanOver
    <2>1. /\ pc = "scan" /\ pc' \in {"local", "have"} /\ queue' = Tail(queue)
          /\ UNCHANGED <<msg, scan, calls>>
        BY <1>9 DEF ScanOver, NextKey
    <2>2. IsInjective(queue') /\ \A e \in ToSet(calls') : e[1] \notin ToSet(queue')
        BY <1>2, <2>1 DEF Tries
    <2>3. QED BY <2>1, <2>2 DEF Tries
<1>10. CASE Local \/ Unlock \/ UnlockRefused \/ OpenMessage
    BY <1>10 DEF Local, Unlock, UnlockRefused, AfterUnlock, OpenMessage, Finish, Tries
<1>11. CASE (\E k \in Key : PullCard(k)) \/ AgentDies
    BY <1>11 DEF PullCard, AgentDies, Tries
<1>12. CASE UNCHANGED vars
    BY <1>12 DEF Tries
<1>13. QED BY <1>3, <1>4, <1>5, <1>6, <1>7, <1>8, <1>9, <1>10, <1>11, <1>12
        DEF Next, Step, Finished

LEMMA TriesAtStart == AtStart => Tries
BY Empty DEF AtStart, Tries

LEMMA TriesEnough == Typed /\ Tries => TriedOnce
<1> SUFFICES ASSUME Typed, Tries PROVE TriedOnce
    OBVIOUS
<1>1. \A i \in DOMAIN calls : calls[i] \in ToSet(calls)
    BY SeqFacts DEF Typed
<1>2. QED BY <1>1 DEF Tries, TriedOnce, IsInjective
-----------------------------------------------------------------------------
(* The agent comes first.                                                   *)

\* The agent does not hold k, or no packet of the message is for it.
Missed(k) == k \notin agent.holds \/ \A i \in DOMAIN msg.to : msg.to[i].key # k

\* As long as nothing failed: the keys that left the queue are of no use, and
\* so are, for the key at hand, the packets that left the scan.
Through ==
    /\ pc \notin {"start"} \union Ended => msg.form = "message"
    /\ pc = "dial" => queue = AgentQueue
    /\ pc \in {"have", "find", "scan"} =>
         /\ ToSet(queue) \subseteq ToSet(AgentQueue)
         /\ \A k \in ToSet(AgentQueue) : k \in ToSet(queue) \/ Missed(k)
    /\ pc = "scan" => /\ Exact(Head(queue)) = {}
                      /\ \A i \in ToSet(Wildcards) :
                            i \in ToSet(scan) \/ msg.to[i].key # Head(queue)
    /\ pc \in {"local", "unlock", "open", "failed"} /\ msg.form = "message" /\ msg.legible =>
         ~agent.up \/ \A k \in ToSet(AgentQueue) : Missed(k)

Before == faults = 0 => Through

\* A key that no packet names or hides is missed.
LEMMA ScannedIsMissed ==
    ASSUME Typed, NEW k, AgentDecrypts(k), Exact(k) = {},
           \A i \in ToSet(Wildcards) : msg.to[i].key # k
    PROVE  Missed(k)
<1> SUFFICES ASSUME NEW i \in DOMAIN msg.to, msg.to[i].key = k PROVE FALSE
    BY DEF Missed
<1>1. msg.to[i].hidden
    BY DEF Exact
<1>2. IsECDH(msg.to[i].key)
    BY DEF AgentDecrypts, IsECDH
<1>3. i \in ToSet(Wildcards)
    BY <1>1, <1>2, WildcardsFacts DEF Typed
<1>4. QED BY <1>3

\* Asking the agent changes neither what it holds nor whether it is up.
LEMMA HoldsOn ==
    ASSUME Typed, agent' = agent \/ (\E k : AgentUses(k)), msg' = msg
    PROVE  agent'.up = agent.up /\ agent'.holds = agent.holds /\ \A k : Missed(k)' <=> Missed(k)
<1>1. agent \in AgentType
    BY DEF Typed, TypeOK, SecretsTyped, AgentType
<1>2. agent'.up = agent.up /\ agent'.holds = agent.holds
    BY <1>1 DEF AgentUses, AgentType
<1>3. QED BY <1>2 DEF Missed

LEMMA ThroughStep == Typed /\ Before /\ [Next]_vars => Before'
<1> SUFFICES ASSUME Typed, Before, [Next]_vars, faults' = 0 PROVE Through'
    BY DEF Before
<1>1. /\ msg \in Message /\ queue \in Seq(Key) /\ scan \in Seq(DOMAIN msg.to)
      /\ faults \in Nat
      /\ pc \in {"have", "find", "scan"} => queue # << >>
    BY DecryptAssumption DEF Typed, TypeOK
<1>2. pc \in {"have", "find", "scan"} =>
         /\ ToSet(queue) = {Head(queue)} \union ToSet(Tail(queue))
         /\ Tail(queue) \in Seq(Key)
    BY <1>1, HeadTailFacts
<1>3. \A k \in ToSet(AgentQueue) : k \in Key /\ AgentDecrypts(k)
    BY <1>1, QueueFacts
<1>4. world' = world
    BY DEF Next, Step, Finished, Symmetric, Signed, Plain, Encrypted, Dial, HaveKey, TryExact, Scan,
           ScanOver, Local, Unlock, UnlockRefused, OpenMessage, PullCard, AgentDies, vars
<1>5. msg' = msg /\ AgentQueue' = AgentQueue /\ Wildcards' = Wildcards
    BY <1>4, Unchanging
<1> USE DEF vars, results, ghost, locals, Ended
<1>6. faults = 0
    <2>1. faults' = faults \/ faults' = faults + 1
        BY DEF Next, Step, Finished, Symmetric, Signed, Plain, Encrypted, Dial, HaveKey, TryExact,
               Scan, PKDecrypt, ScanOver, Local, Unlock, UnlockRefused, OpenMessage, PullCard, AgentDies
    <2>2. QED BY <1>1, <2>1
<1>7. Through
    BY <1>6 DEF Before
<1>8. CASE Symmetric \/ Signed \/ Plain
    BY <1>5, <1>8 DEF Symmetric, Signed, Plain, Finish, Through
<1>9. CASE Encrypted
    <2>1. ToSet(<< >>) = {}
        BY Empty
    <2>2. QED BY <1>5, <1>9, <2>1 DEF Encrypted, Through
<1>10. CASE Dial
    <2>1. pc = "dial" /\ agent' = agent /\ queue' = queue
          /\ pc' = IF agent.up THEN "have" ELSE "local"
        BY <1>10 DEF Dial
    <2>2. QED BY <1>5, <1>7, <2>1 DEF Through
<1>11. CASE HaveKey
    <2>1. agent' = agent /\ \A k : Missed(k)' <=> Missed(k)
        BY <1>5, <1>11, HoldsOn DEF HaveKey
    <2>2. CASE Head(queue) \in agent.holds
        BY <1>5, <1>7, <1>11, <2>1, <2>2 DEF HaveKey, Through
    <2>3. CASE Head(queue) \notin agent.holds
        <3>1. Missed(Head(queue))
            BY <2>3 DEF Missed
        <3>2. pc = "have" /\ queue' = Tail(queue) /\ pc' = IF Tail(queue) = << >> THEN "local" ELSE "have"
            BY <1>11, <2>3 DEF HaveKey, NextKey
        <3>3. \A k \in ToSet(AgentQueue) : k \in ToSet(Tail(queue)) \/ Missed(k)
            BY <1>2, <1>7, <3>1, <3>2 DEF Through
        <3>4. ToSet(Tail(queue)) \subseteq ToSet(AgentQueue)
            BY <1>2, <1>7, <3>2 DEF Through
        <3>5. QED BY <1>5, <1>7, <2>1, <3>2, <3>3, <3>4, Empty DEF Through
    <2>4. QED BY <2>2, <2>3
<1>12. CASE TryExact
    <2>1. CASE Exact(Head(queue)) # {}
        BY <1>5, <1>7, <1>12, <2>1 DEF TryExact, AgentDone, Finish, Through
    <2>2. CASE Exact(Head(queue)) = {}
        <3>1. pc = "find" /\ pc' = "scan" /\ scan' = Wildcards /\ agent' = agent /\ queue' = queue
            BY <1>12, <2>2 DEF TryExact
        <3>2. \A k : Missed(k)' <=> Missed(k)
            BY <1>5, <3>1, HoldsOn
        <3>3. Exact(Head(queue))' = {}
            BY <1>5, <2>2, <3>1 DEF Exact
        <3>4. QED BY <1>5, <1>7, <3>1, <3>2, <3>3 DEF Through
    <2>3. QED BY <2>1, <2>2
<1>13. CASE Scan
    <2>1. /\ pc = "scan" /\ queue' = queue
          /\ \/ pc' \in {"ok", "refused"}
             \/ pc' = "failed" /\ ~msg.legible
             \/ /\ pc' = "scan" /\ scan' = Tail(scan)
                /\ msg.to[Head(scan)].key # Head(queue)
        BY <1>13 DEF Scan, AgentDone, Finish
    <2>2. agent' = agent \/ \E k : AgentUses(k)
        BY <1>13 DEF Scan, PKDecrypt
    <2>3. \A k : Missed(k)' <=> Missed(k)
        BY <1>5, <2>2, HoldsOn
    <2>4. Exact(Head(queue))' = Exact(Head(queue))
        BY <1>5, <2>1 DEF Exact
    <2>5. ToSet(scan) = {Head(scan)} \union ToSet(Tail(scan))
        BY <1>1, <1>13, HeadTailFacts DEF Scan
    <2>6. CASE pc' \in {"ok", "refused"} \/ (pc' = "failed" /\ ~msg.legible)
        BY <1>5, <2>6 DEF Through
    <2>7. CASE pc' = "scan" /\ scan' = Tail(scan) /\ msg.to[Head(scan)].key # Head(queue)
        <3>1. \A i \in ToSet(Wildcards) : i \in ToSet(scan') \/ msg.to[i].key # Head(queue)
            BY <1>7, <2>1, <2>5, <2>7 DEF Through
        <3>2. QED BY <1>5, <1>7, <2>1, <2>3, <2>4, <2>7, <3>1 DEF Through
    <2>8. QED BY <2>1, <2>6, <2>7
<1>14. CASE ScanOver
    <2>1. /\ pc = "scan" /\ scan = << >> /\ agent' = agent /\ queue' = Tail(queue)
          /\ pc' = IF Tail(queue) = << >> THEN "local" ELSE "have"
        BY <1>14 DEF ScanOver, NextKey
    <2>2. \A k : Missed(k)' <=> Missed(k)
        BY <1>5, <2>1, HoldsOn
    <2>3. AgentDecrypts(Head(queue))
        BY <1>2, <1>3, <1>7, <2>1 DEF Through
    <2>4. Missed(Head(queue))
        BY <1>7, <2>1, <2>3, Empty, ScannedIsMissed DEF Through
    <2>5. \A k \in ToSet(AgentQueue) : k \in ToSet(Tail(queue)) \/ Missed(k)
        BY <1>2, <1>7, <2>1, <2>4 DEF Through
    <2>6. ToSet(Tail(queue)) \subseteq ToSet(AgentQueue)
        BY <1>2, <1>7, <2>1 DEF Through
    <2>7. QED BY <1>5, <1>7, <2>1, <2>2, <2>5, <2>6, Empty DEF Through
<1>15. CASE Local \/ Unlock \/ UnlockRefused \/ OpenMessage
    <2>1. /\ pc \in {"local", "unlock", "open"} /\ agent' = agent
          /\ pc' \in {"unlock", "open", "failed", "ok"}
        BY <1>15 DEF Local, Unlock, UnlockRefused, AfterUnlock, OpenMessage, Finish
    <2>2. \A k : Missed(k)' <=> Missed(k)
        BY <1>5, <2>1, HoldsOn
    <2>3. QED BY <1>5, <1>7, <2>1, <2>2 DEF Through
<1>16. CASE (\E k \in Key : PullCard(k)) \/ AgentDies
    BY <1>6, <1>16 DEF PullCard, AgentDies
<1>17. CASE UNCHANGED vars
    <2>1. agent' = agent /\ pc' = pc /\ queue' = queue /\ scan' = scan
        BY <1>17
    <2>2. \A k : Missed(k)' <=> Missed(k)
        BY <1>5, <2>1, HoldsOn
    <2>3. Exact(Head(queue))' = Exact(Head(queue))
        BY <1>5, <2>1 DEF Exact
    <2>4. QED BY <1>5, <1>7, <2>1, <2>2, <2>3 DEF Through
<1>18. QED BY <1>8, <1>9, <1>10, <1>11, <1>12, <1>13, <1>14, <1>15, <1>16, <1>17
        DEF Next, Step, Finished

\* Every supported key the message is for, named or hidden, of a certificate
\* with a secret key is one of those to try.
LEMMA AllQueued ==
    ASSUME Typed, NEW i \in DOMAIN msg.to, msg.to[i].key \in Key, AgentDecrypts(msg.to[i].key),
           CertOf(msg.to[i].key) \in ToSet(SecretKeys)
    PROVE  msg.to[i].key \in ToSet(AgentQueue)
<1> DEFINE k == msg.to[i].key
<1>1. msg \in Message
    BY DEF Typed
<1>2. CertOf(k) \in ToSet(AgentCandidates)
    <2>1. CASE msg.to[i].hidden
        BY <1>1, <2>1, CandidatesFacts DEF HasWildcard
    <2>2. CASE ~msg.to[i].hidden
        <3>1. HasFile(CertOf(k))
            BY SecretKeysFacts
        <3>2. CertOf(k) \in ToSet(Named)
            BY <1>1, <2>2, <3>1, NamedFacts
        <3>3. QED BY <1>1, <3>2, CandidatesFacts
    <2>3. QED BY <2>1, <2>2
<1>3. QED BY <1>1, <1>2, QueueFacts

LEMMA ThroughAtStart == AtStart => Before
BY DEF AtStart, Before, Through

LEMMA ThroughEnough == Typed /\ Before => AgentFirst
<1> SUFFICES ASSUME Typed, Before, msg.form = "message", msg.legible, faults = 0,
                    pc \in {"unlock", "open", "failed"},
                    NEW i \in DOMAIN msg.to, agent.up, msg.to[i].key \in agent.holds,
                    AgentDecrypts(msg.to[i].key), CertOf(msg.to[i].key) \in ToSet(SecretKeys)
             PROVE  FALSE
    BY DEF AgentFirst
<1>1. msg.to[i].key \in Key
    BY DEF Typed, TypeOK, SecretsTyped
<1>2. msg.to[i].key \in ToSet(AgentQueue)
    BY <1>1, AllQueued
<1>3. QED BY <1>2 DEF Before, Through, Missed
-----------------------------------------------------------------------------
(* The key files are all tried.                                             *)

\* The certificates to unlock.
Targets == IF Named # << >> THEN Named ELSE SecretKeys

\* A certificate to unlock is yet to be unlocked, or it was, or it would not
\* and did not have to; an unlocked one has given up every key it has.
Unlocking ==
    /\ \A k \in Key : CertOf(k) \in opened /\ Readable(k) => k \in loaded
    /\ pc \in {"unlock", "open"} =>
         /\ Named = << >> => HasWildcard
         /\ ToSet(left) \subseteq ToSet(Targets)
         /\ \A c \in ToSet(Targets) : \/ c \in ToSet(left) \/ c \in opened
                                      \/ Named = << >> /\ UnlockFails(c)
    /\ pc = "open" => left = << >>

\* The certificate of a key that can be read is a target, if the message names
\* the key, or if it hides it and names no other.
LEMMA ReadableFacts ==
    ASSUME Typed, NEW i \in DOMAIN msg.to, Readable(msg.to[i].key)
    PROVE  LET c == CertOf(msg.to[i].key)
           IN  /\ msg.to[i].key \in Key /\ c \in ToSet(SecretKeys) /\ ~UnlockFails(c)
               /\ ~msg.to[i].hidden => c \in ToSet(Named)
<1> DEFINE k == msg.to[i].key
           c == CertOf(k)
<1>1. k \in Key /\ (Protected(c) => c \in willing) /\ k \in Attachable(c, TRUE)
    BY DEF Readable
<1>2. k \in ToSet(Keys[c]) /\ HasGrip(k) /\ file[k] # "absent"
    BY <1>1 DEF Attachable
<1>3. HasFile(c) /\ c \in Certs
    BY <1>1, <1>2, CertOfFacts DEF HasFile
<1>4. c \in ToSet(SecretKeys)
    BY <1>3, SecretKeysFacts
<1>5. ~UnlockFails(c)
    BY <1>1 DEF UnlockFails
<1>6. ~msg.to[i].hidden => c \in ToSet(Named)
    BY <1>1, <1>3, NamedFacts DEF Typed
<1>7. QED BY <1>1, <1>4, <1>5, <1>6

LEMMA UnlockingStep == Typed /\ Unlocking /\ [Next]_vars => Unlocking'
<1> SUFFICES ASSUME Typed, Unlocking, [Next]_vars PROVE Unlocking'
    OBVIOUS
<1>1. msg \in Message /\ left \in Seq(Certs) /\ (pc = "unlock" => left # << >>)
    BY DEF Typed, TypeOK
<1>2. pc = "unlock" => /\ ToSet(left) = {Head(left)} \union ToSet(Tail(left))
                       /\ Head(left) \in Certs
    BY <1>1, HeadTailFacts
<1>3. world' = world
    BY DEF Next, Step, Finished, Symmetric, Signed, Plain, Encrypted, Dial, HaveKey, TryExact, Scan,
           ScanOver, Local, Unlock, UnlockRefused, OpenMessage, PullCard, AgentDies, vars
<1>4. /\ Named' = Named /\ (HasWildcard' <=> HasWildcard) /\ Targets' = Targets
      /\ \A k : Readable(k)' <=> Readable(k)
      /\ \A c : UnlockFails(c)' <=> UnlockFails(c)
    BY <1>3, Unchanging, UnchangingKeys DEF Targets
<1>5. CASE UNCHANGED locals /\ pc' \notin {"unlock", "open"}
    BY <1>4, <1>5 DEF Unlocking, locals
<1>6. CASE UNCHANGED <<locals, pc>>
    BY <1>4, <1>6 DEF Unlocking, locals
<1>7. CASE Symmetric \/ Signed \/ Plain \/ Encrypted \/ Dial \/ HaveKey \/ TryExact \/ Scan \/ ScanOver
    <2>1. UNCHANGED locals
        BY <1>7 DEF Symmetric, Signed, Plain, Encrypted, Dial, HaveKey, TryExact, Scan, ScanOver
    <2>2. pc' \notin {"unlock", "open"}
        BY <1>7 DEF Symmetric, Signed, Plain, Encrypted, Dial, HaveKey, NextKey, TryExact, Scan,
               AgentDone, Finish, ScanOver
    <2>3. QED BY <1>5, <2>1, <2>2
<1>8. CASE Local
    <2>1. /\ pc' = IF left' = << >> THEN "failed" ELSE "unlock"
          /\ left' = IF Named # << >> THEN Named ELSE IF HasWildcard THEN SecretKeys ELSE << >>
          /\ opened' = opened /\ loaded' = loaded
        BY <1>8 DEF Local
    <2>2. left' # << >> => left' = Targets /\ (Named = << >> => HasWildcard)
        BY <2>1 DEF Targets
    <2>3. QED BY <1>4, <2>1, <2>2 DEF Unlocking
<1>9. CASE Unlock
    <2> DEFINE c == Head(left)
    <2>1. PICK got : Unlocks(c, got) /\ loaded' = loaded \union got
        BY <1>9 DEF Unlock
    <2>2. /\ pc = "unlock" /\ opened' = opened \union {c} /\ left' = Tail(left)
          /\ pc' = IF Tail(left) # << >> THEN "unlock" ELSE "open"
        BY <1>9 DEF Unlock, AfterUnlock
    <2>3. ASSUME NEW k \in Key, CertOf(k) \in opened', Readable(k) PROVE k \in loaded'
        <3>1. CASE CertOf(k) \in opened
            BY <2>1, <2>3, <3>1 DEF Unlocking
        <3>2. CASE CertOf(k) = c
            BY <2>1, <2>3, <3>2, UnlocksAll
        <3>3. QED BY <2>2, <2>3, <3>1, <3>2
    <2>4. /\ Named = << >> => HasWildcard
          /\ ToSet(Tail(left)) \subseteq ToSet(Targets)
          /\ \A d \in ToSet(Targets) : \/ d \in ToSet(Tail(left)) \/ d \in opened'
                                       \/ Named = << >> /\ UnlockFails(d)
        BY <1>2, <2>2 DEF Unlocking
    <2>5. QED BY <1>4, <2>2, <2>3, <2>4 DEF Unlocking
<1>10. CASE UnlockRefused
    <2>1. CASE Named # << >>
        BY <1>4, <1>10, <2>1 DEF UnlockRefused, Unlocking
    <2>2. CASE Named = << >>
        <3>1. /\ pc = "unlock" /\ UnlockFails(Head(left)) /\ left' = Tail(left)
              /\ pc' = IF Tail(left) # << >> THEN "unlock" ELSE IF opened # {} THEN "open" ELSE "failed"
              /\ opened' = opened /\ loaded' = loaded
            BY <1>10, <2>2 DEF UnlockRefused, AfterUnlock
        <3>2. /\ HasWildcard /\ ToSet(Tail(left)) \subseteq ToSet(Targets)
              /\ \A d \in ToSet(Targets) : \/ d \in ToSet(Tail(left)) \/ d \in opened
                                           \/ Named = << >> /\ UnlockFails(d)
            BY <1>2, <2>2, <3>1 DEF Unlocking
        <3>3. QED BY <1>4, <2>2, <3>1, <3>2 DEF Unlocking
    <2>3. QED BY <2>1, <2>2
<1>11. CASE OpenMessage
    BY <1>5, <1>11 DEF OpenMessage, Finish
<1>12. CASE (\E k \in Key : PullCard(k)) \/ AgentDies
    BY <1>6, <1>12 DEF PullCard, AgentDies
<1>13. CASE UNCHANGED vars
    BY <1>6, <1>13 DEF vars
<1>14. QED BY <1>7, <1>8, <1>9, <1>10, <1>11, <1>12, <1>13 DEF Next, Step, Finished

\* A step that gives up gives up for good reason.
LEMMA GivesUpRightly ==
    Typed /\ Unlocking /\ LocalComplete /\ [Next]_vars => LocalComplete'
<1> SUFFICES ASSUME Typed, Unlocking, LocalComplete, [Next]_vars PROVE LocalComplete'
    OBVIOUS
<1>1. world' = world
    BY DEF Next, Step, Finished, Symmetric, Signed, Plain, Encrypted, Dial, HaveKey, TryExact, Scan,
           ScanOver, Local, Unlock, UnlockRefused, OpenMessage, PullCard, AgentDies, vars
<1>2. /\ msg' = msg /\ Named' = Named
      /\ \A k : Readable(k)' <=> Readable(k)
      /\ \A c : UnlockFails(c)' <=> UnlockFails(c)
    BY <1>1, Unchanging, UnchangingKeys
<1> SUFFICES ASSUME msg.form = "message", msg.legible, pc' = "failed",
                    NEW i \in DOMAIN msg.to, Readable(msg.to[i].key)
             PROVE  IF msg.to[i].hidden THEN Named # << >>
                    ELSE \E c \in ToSet(Named) : UnlockFails(c)
    BY <1>2 DEF LocalComplete
<1> DEFINE k == msg.to[i].key
<1>3. /\ k \in Key /\ CertOf(k) \in ToSet(SecretKeys) /\ ~UnlockFails(CertOf(k))
      /\ ~msg.to[i].hidden => CertOf(k) \in ToSet(Named)
    BY ReadableFacts
<1>4. /\ msg \in Message /\ left \in Seq(Certs) /\ (pc = "unlock" => left # << >>)
      /\ msg.to[i].hidden \in BOOLEAN
    BY MessageFacts DEF Typed, TypeOK
<1>5. (Named = << >> => ToSet(Named) = {}) /\ (SecretKeys = << >> => ToSet(SecretKeys) = {})
      /\ (left = << >> => ToSet(left) = {})
    BY Empty
<1>6. pc = "unlock" => /\ ToSet(left) = {Head(left)} \union ToSet(Tail(left))
                       /\ (Tail(left) = << >> => ToSet(Tail(left)) = {})
    BY <1>4, HeadTailFacts, Empty
<1>7. CASE pc = "failed" /\ pc' = pc
    BY <1>2, <1>7 DEF LocalComplete
<1>8. CASE Symmetric \/ Signed \/ Plain \/ Encrypted \/ Dial \/ HaveKey \/ TryExact \/ Scan \/ ScanOver
    BY <1>2, <1>8 DEF Symmetric, Signed, Plain, Encrypted, Dial, HaveKey, NextKey, TryExact, Scan,
           AgentDone, Finish, ScanOver
<1>9. CASE Local
    <2>1. Named = << >> /\ (HasWildcard => SecretKeys = << >>)
        BY <1>9 DEF Local
    <2>2. msg.to[i].hidden => HasWildcard
        BY DEF HasWildcard
    <2>3. QED BY <1>3, <1>5, <2>1, <2>2
<1>10. CASE Unlock
    BY <1>10 DEF Unlock, AfterUnlock
<1>11. CASE UnlockRefused
    <2>1. pc = "unlock" /\ UnlockFails(Head(left))
        BY <1>11 DEF UnlockRefused
    <2>2. CASE Named # << >>
        <3>1. Head(left) \in ToSet(Named)
            BY <1>6, <2>1, <2>2 DEF Unlocking, Targets
        <3>2. QED BY <2>1, <2>2, <3>1
    <2>3. CASE Named = << >>
        <3>1. Tail(left) = << >> /\ opened = {}
            BY <1>11, <2>3 DEF UnlockRefused, AfterUnlock
        <3>2. \A c \in ToSet(SecretKeys) : c = Head(left) \/ UnlockFails(c)
            BY <1>6, <2>1, <2>3, <3>1 DEF Unlocking, Targets
        <3>3. QED BY <1>3, <2>1, <3>2
    <2>4. QED BY <2>2, <2>3
<1>12. CASE OpenMessage
    <2>1. pc = "open" /\ k \notin loaded
        BY <1>12 DEF OpenMessage, Finish
    <2>2. CertOf(k) \notin opened /\ left = << >>
        BY <1>3, <2>1 DEF Unlocking
    <2>3. CertOf(k) \notin ToSet(Targets)
        BY <1>3, <1>5, <2>1, <2>2 DEF Unlocking
    <2>4. Named # << >> /\ CertOf(k) \notin ToSet(Named)
        BY <1>3, <2>3 DEF Targets
    <2>5. QED BY <1>3, <1>4, <2>4
<1>13. CASE (\E key \in Key : PullCard(key)) \/ AgentDies
    BY <1>13 DEF PullCard, AgentDies, Ended
<1>14. CASE UNCHANGED vars
    BY <1>7, <1>14 DEF vars
<1>15. QED BY <1>8, <1>9, <1>10, <1>11, <1>12, <1>13, <1>14 DEF Next, Step, Finished

LEMMA UnlockingAtStart == AtStart => Unlocking /\ LocalComplete
BY DEF AtStart, Unlocking, LocalComplete

-----------------------------------------------------------------------------
(* An agent's refusal is the end.                                           *)

\* Until the key files' turn comes no certificate was unlocked.
Refusing ==
    /\ RefusalReported
    /\ pc \in {"start", "dial", "have", "find", "scan"} => opened = {} /\ ~written

LEMMA RefusingAtStart == AtStart => Refusing
BY DEF AtStart, Refusing, RefusalReported

LEMMA RefusingStep == Typed /\ Refusing /\ [Next]_vars => Refusing'
<1> SUFFICES ASSUME Typed, Refusing, [Next]_vars PROVE Refusing'
    OBVIOUS
<1>1. agentError \in BOOLEAN
    BY DEF Typed, TypeOK
<1> USE DEF vars, results, ghost, locals, Ended, Refusing, RefusalReported
<1>2. CASE Symmetric \/ Signed \/ Plain \/ Encrypted
    BY <1>2 DEF Symmetric, Signed, Plain, Finish, Encrypted
<1>3. CASE Dial \/ HaveKey \/ ScanOver
    BY <1>3 DEF Dial, HaveKey, NextKey, ScanOver
<1>4. CASE TryExact
    <2>1. pc = "find" /\ opened' = opened
        BY <1>4 DEF TryExact
    <2>2. CASE agentError' = TRUE /\ pc' = "refused" /\ UNCHANGED results
        BY <2>1, <2>2
    <2>3. CASE agentError' = agentError /\ pc' \in {"ok", "failed"}
        BY <2>1, <2>3
    <2>4. CASE agentError' = agentError /\ pc' = "scan" /\ UNCHANGED results
        BY <2>1, <2>4
    <2>5. QED BY <1>1, <1>4, <2>1, <2>2, <2>3, <2>4 DEF TryExact, PKDecrypt, AgentDone, Finish
<1>5. CASE Scan
    <2>1. pc = "scan" /\ opened' = opened
        BY <1>5 DEF Scan
    <2>2. CASE agentError' = TRUE /\ pc' = "refused" /\ UNCHANGED results
        BY <2>1, <2>2
    <2>3. CASE agentError' = agentError /\ pc' \in {"ok", "failed"}
        BY <2>1, <2>3
    <2>4. CASE agentError' = agentError /\ pc' = "scan" /\ UNCHANGED results
        BY <2>1, <2>4
    <2>5. QED BY <1>1, <1>5, <2>1, <2>2, <2>3, <2>4 DEF Scan, PKDecrypt, AgentDone, Finish
<1>6. CASE Local \/ Unlock \/ UnlockRefused \/ OpenMessage
    BY <1>6 DEF Local, Unlock, UnlockRefused, AfterUnlock, OpenMessage, Finish
<1>7. CASE (\E k \in Key : PullCard(k)) \/ AgentDies
    BY <1>7 DEF PullCard, AgentDies
<1>8. CASE UNCHANGED vars
    BY <1>8
<1>9. QED BY <1>2, <1>3, <1>4, <1>5, <1>6, <1>7, <1>8 DEF Next, Step, Finished

-----------------------------------------------------------------------------
(* The inductive invariant, and what follows from it.                       *)

DecryptInv == Typed /\ Tries /\ Before /\ Unlocking /\ LocalComplete /\ Refusing

LEMMA DecryptInvAtStart == AtStart => DecryptInv
BY TypedAtStart, TriesAtStart, ThroughAtStart, UnlockingAtStart, RefusingAtStart DEF DecryptInv

LEMMA DecryptInvStep == DecryptInv /\ [Next]_vars => DecryptInv'
BY TypedStep, TriesStep, ThroughStep, UnlockingStep, GivesUpRightly, RefusingStep DEF DecryptInv

LEMMA DecryptInvEnough ==
    DecryptInv => TypeOK /\ TriedOnce /\ AgentFirst /\ LocalComplete /\ RefusalReported
BY TriesEnough, ThroughEnough DEF DecryptInv, Typed, Refusing

LEMMA Invariance == Spec => []DecryptInv
BY InitAtStart, DecryptInvAtStart, DecryptInvStep, PTL DEF Spec

\* Every variable has its type, and a loop over the agent's keys or the
\* certificates has one at hand.
THEOREM TypeCorrect == Spec => []TypeOK
BY Invariance, DecryptInvEnough, PTL

\* The agent is never asked to try a key twice on the same packet, nor on a
\* packet that names another key, whatever the message, the keys and the faults.
THEOREM NoSecondTouch == Spec => []TriedOnce
BY Invariance, DecryptInvEnough, PTL

\* As long as no card is pulled out and the agent stays, key files are unlocked,
\* or a legible message given up without the agent's error, only if the agent
\* holds no supported key the message is for: whatever the keys, the packets and
\* their order.
THEOREM AgentIsFirst == Spec => []AgentFirst
BY Invariance, DecryptInvEnough, PTL

\* With a key file at hand for one of its packets a legible message is not given
\* up, but for an agent's error, except when some named recipient's key does not unlock, or when the packet
\* is hidden and another one is not.
THEOREM KeyFilesSuffice == Spec => []LocalComplete
BY Invariance, DecryptInvEnough, PTL

\* The agent's refusal of an operation is how the command ends, and nothing else
\* ends that way: whenever it comes, no certificate was unlocked and there is no
\* output.
THEOREM RefusalEnds == Spec => []RefusalReported
BY Invariance, DecryptInvEnough, PTL

-----------------------------------------------------------------------------
(* --verify, and --decrypt after it.                                        *)

\* Is the first argument, or standard input, taken for a detached signature?
TakenDetached == input.args = 2 \/ (input.args = 1 /\ msg.form = "detached")

Fits  == msg.intact /\ content = "data"
Known == ToSet(Signers) \subseteq Certs
Apart == msg.form # "message"

\* What --verify said of a signature.
Told ==
    /\ said.verdict = "good" =>
          /\ checked \in DOMAIN Signers /\ Signers[checked] \in Certs /\ Fits
          /\ said.id = Signers[1]
          /\ Apart => checked = FirstKnown
    /\ AsMeant /\ Apart => said.verdict = IF Fits /\ FirstKnown # 0 THEN "good" ELSE "bad"
    /\ AsMeant /\ ~Apart /\ Known => said.verdict = IF Fits THEN "good" ELSE "bad"
    /\ AsMeant => content = IF msg.form = "detached" THEN Given(input) ELSE "data"

Verifying ==
    /\ vpc \in {"idle", "verify", "content", "detached", "contained", "told"}
    /\ input \in Inputs \union {NoInput}
    /\ vpc # "idle" => AtStart /\ input \in Inputs /\ msg = input.msg
    /\ vpc \in {"verify", "content", "contained"} => content = "data"
    /\ vpc \in {"content", "detached"} => TakenDetached
    /\ vpc = "detached" => Given(input) # "missing" /\ content = Given(input)
    /\ vpc = "contained" => ~TakenDetached
    /\ vpc = "told" => Told

\* --decrypt of what --verify was run on: the same message, with its data
\* where --decrypt looks for it; and of a signature given the way its kind asks
\* for, what --verify said of the data it was given, and --decrypt of its own.
Unspoilt(in) == in.msg.intact /\ (in.msg.form = "detached" => in.args > 0 /\ Derived(in) = "data")

Agreeing ==
    vpc = "idle" /\ input # NoInput =>
        /\ msg = [input.msg EXCEPT !.intact = Unspoilt(input)]
        /\ AsMeant =>
              /\ pc \in {"start", "ok", "failed"}
              /\ pc \in Ended => IF Apart THEN report = Checked ELSE report \in {"none", "unverified"}
              /\ Apart /\ input.also = Nobody =>
                    said.verdict = IF /\ msg.signer \in Certs /\ input.msg.intact
                                      /\ msg.form = "detached" => Given(input) = "data"
                                   THEN "good" ELSE "bad"

ReadInv == DecryptInv /\ Verifying /\ Agreeing

-----------------------------------------------------------------------------
\* The signers of an input, one or two.
LEMMA SignersFacts ==
    /\ DOMAIN Signers = IF input.also = Nobody THEN {1} ELSE {1, 2}
    /\ Signers[1] = msg.signer
    /\ msg.signer \in ToSet(Signers)
    /\ \A i \in DOMAIN Signers : Signers[i] \in ToSet(Signers)
    /\ input.also = Nobody => ToSet(Signers) = {msg.signer}
<1>1. CASE input.also = Nobody
    <2>1. Signers = <<msg.signer>>
        BY <1>1 DEF Signers
    <2>2. DOMAIN Signers = {1} /\ Signers[1] = msg.signer
        BY <2>1
    <2>3. QED BY <1>1, <2>2 DEF ToSet
<1>2. CASE input.also # Nobody
    <2>1. Signers = <<msg.signer, input.also>>
        BY <1>2 DEF Signers
    <2>2. DOMAIN Signers = {1, 2} /\ Signers[1] = msg.signer
        BY <2>1
    <2>3. QED BY <1>2, <2>2 DEF ToSet
<1>3. QED BY <1>1, <1>2

\* The library checks a signature of a key it is given, if there is one.
LEMMA FirstKnownFacts ==
    /\ FirstKnown # 0 => FirstKnown \in DOMAIN Signers /\ Signers[FirstKnown] \in Certs
    /\ FirstKnown # 0 <=> ToSet(Signers) \intersect Certs # {}
    /\ Signers[1] \in Certs => FirstKnown = 1
<1> DEFINE known == {i \in DOMAIN Signers : Signers[i] \in Certs}
<1>1. \A i \in known : i \in {1, 2}
    BY SignersFacts
<1>2. known # {} => \E i \in known : \A j \in known : i <= j
    BY <1>1
<1>3. known # {} => FirstKnown \in known
    BY <1>2 DEF FirstKnown
<1>4. known = {} => FirstKnown = 0
    BY DEF FirstKnown
<1>5. known # {} <=> ToSet(Signers) \intersect Certs # {}
    BY DEF ToSet
<1>6. Signers[1] \in Certs => FirstKnown = 1
    <2> SUFFICES ASSUME Signers[1] \in Certs PROVE FirstKnown = 1
        OBVIOUS
    <2>1. 1 \in known
        BY SignersFacts
    <2>2. FirstKnown \in known /\ \A j \in known : FirstKnown <= j
        BY <1>2, <2>1 DEF FirstKnown
    <2>3. QED BY <1>1, <2>1, <2>2
<1>7. known # {} => FirstKnown # 0
    BY <1>1, <1>3
<1>8. QED BY <1>3, <1>4, <1>5, <1>6, <1>7

LEMMA ReadInvInit == ReadInit => ReadInv
<1>1. ASSUME Init, Quiet PROVE ReadInv
    BY <1>1, InitAtStart, DecryptInvAtStart DEF Quiet, ReadInv, Verifying, Agreeing
<1>2. ASSUME VerifyInit PROVE ReadInv
    <2>1. /\ input \in Inputs /\ input.msg \in Message /\ msg = input.msg
          /\ vpc = "verify" /\ content = "data"
        BY <1>2, VerifyAssumption DEF VerifyInit
    <2>2. file \in Homes /\ agent \in Agents /\ willing = {}
        BY <1>2, VerifyAssumption DEF VerifyInit
    <2>3. AtStart
        BY <1>2, <2>1, <2>2, SecretsAssumption DEF VerifyInit, AtStart, SecretsTyped
    <2>4. QED BY <2>1, <2>3, DecryptInvAtStart DEF ReadInv, Verifying, Agreeing
<1>3. QED BY <1>1, <1>2 DEF ReadInit

\* A verdict is sound when it is given.
LEMMA ToldRightly == ReadInv /\ VerifyStep => Verifying'
<1> SUFFICES ASSUME ReadInv, VerifyStep PROVE Verifying'
    OBVIOUS
<1> USE DEF Say
<1>1. Verifying
    BY DEF ReadInv
<1>2. CASE ThenDecrypt
    BY <1>1, <1>2 DEF ThenDecrypt, Verifying
<1>3. CASE vars' = vars
    <2>1. /\ msg' = msg /\ AtStart' = AtStart
        BY <1>3, Zenon DEF AtStart, SecretsTyped, vars, world, home, locals, results, ghost
    <2>2. input' = input
        BY <1>1, <1>3 DEF VerifyStep, Arguments, ReadContent, CheckDetached, CheckClear, CheckMessage, ThenDecrypt
    <2>3. /\ Signers' = Signers /\ (Known' <=> Known) /\ (AsMeant' <=> AsMeant)
          /\ Given(input)' = Given(input) /\ (TakenDetached' <=> TakenDetached)
          /\ FirstKnown' = FirstKnown /\ (Apart' <=> Apart)
        <3>1. Signers' = Signers /\ Given(input)' = Given(input)
            BY <2>1, <2>2, Zenon DEF Signers, Given, Derived
        <3>2. FirstKnown' = FirstKnown
            BY <2>1, <2>2 DEF FirstKnown, Signers
        <3>3. (Known' <=> Known) /\ (TakenDetached' <=> TakenDetached) /\ (Apart' <=> Apart)
            BY <2>1, <2>2, <3>1, Zenon DEF Known, TakenDetached, Apart
        <3>4. AsMeant' <=> AsMeant
            BY <2>1, <2>2, <3>1 DEF AsMeant
        <3>5. QED BY <3>1, <3>2, <3>3, <3>4
    <2>4. vpc # "idle" /\ input \in Inputs /\ msg \in Message /\ AtStart /\ msg = input.msg
        BY <1>1, <1>3 DEF VerifyStep, Arguments, ReadContent, CheckDetached, CheckClear, CheckMessage,
                          ThenDecrypt, Verifying, AtStart
    <2>5. /\ input.args \in 0..2
          /\ msg.form \in {"symmetric", "detached", "clearsigned", "message"} /\ msg.intact \in BOOLEAN
        BY <2>4, VerifyAssumption DEF Message, Form
    <2>6. CASE Arguments
        BY <1>1, <2>1, <2>2, <2>3, <2>4, <2>6 DEF Arguments, Verifying, TakenDetached
    <2>7. CASE ReadContent
        <3>1. CASE Given(input) = "missing"
            <4>1. ~AsMeant
                <5>1. vpc = "content" /\ TakenDetached
                    BY <1>1, <2>7 DEF ReadContent, Verifying
                <5>2. QED BY <2>5, <3>1, <5>1 DEF AsMeant, TakenDetached
            <4>2. said' = [verdict |-> "refused", id |-> Nobody] /\ vpc' = "told"
                BY <2>7, <3>1 DEF ReadContent
            <4>3. Told'
                BY <2>3, <4>1, <4>2 DEF Told
            <4>4. QED BY <1>1, <2>1, <2>2, <2>4, <4>2, <4>3 DEF Verifying
        <3>2. CASE Given(input) # "missing"
            BY <1>1, <2>1, <2>2, <2>3, <2>4, <2>5, <2>7, <3>2 DEF ReadContent, Verifying
        <3>3. QED BY <3>1, <3>2
    <2>8. CASE CheckDetached
        <3>1. /\ vpc = "detached" /\ content' = content /\ vpc' = "told"
              /\ TakenDetached /\ content = Given(input)
            BY <1>1, <2>8 DEF CheckDetached, Verifying
        <3>2. Fits' <=> Fits
            BY <2>1, <3>1 DEF Fits
        <3>3. Told'
            <4>1. CASE msg.form = "detached"
                <5>1. /\ checked' = FirstKnown /\ said'.id = Signers[1]
                      /\ said'.verdict = IF FirstKnown # 0 /\ Fits THEN "good" ELSE "bad"
                    BY <2>8, <4>1 DEF CheckDetached, Fits
                <5>2. QED BY <2>1, <2>2, <2>3, <3>1, <3>2, <4>1, <5>1, FirstKnownFacts DEF Told, Apart
            <4>2. CASE msg.form # "detached"
                <5>1. said'.verdict = "bad"
                    BY <2>8, <4>2 DEF CheckDetached
                <5>2. ~AsMeant
                    BY <2>5, <3>1, <4>2 DEF AsMeant, TakenDetached
                <5>3. QED BY <2>3, <5>1, <5>2 DEF Told
            <4>3. QED BY <4>1, <4>2
        <3>4. QED BY <1>1, <2>1, <2>2, <2>4, <3>1, <3>3 DEF Verifying
    <2>9. CASE CheckClear
        <3>1. /\ vpc = "contained" /\ content' = content /\ content = "data" /\ vpc' = "told"
              /\ msg.form = "clearsigned"
            BY <1>1, <2>9 DEF CheckClear, Verifying
        <3>2. /\ checked' = FirstKnown /\ said'.id = Signers[1]
              /\ said'.verdict = IF FirstKnown # 0 /\ Fits THEN "good" ELSE "bad"
            BY <2>9, <3>1 DEF CheckClear, Fits
        <3>3. Fits' <=> Fits
            BY <2>1, <3>1 DEF Fits
        <3>4. Told'
            BY <2>1, <2>2, <2>3, <3>1, <3>2, <3>3, FirstKnownFacts DEF Told, Apart
        <3>5. QED BY <1>1, <2>1, <2>2, <2>4, <3>1, <3>4 DEF Verifying
    <2>10. CASE CheckMessage
        <3>1. /\ vpc = "contained" /\ content' = content /\ content = "data" /\ vpc' = "told"
              /\ msg.form # "clearsigned" /\ ~TakenDetached
            BY <1>1, <2>10 DEF CheckMessage, Verifying
        <3>2. Fits' <=> Fits
            BY <2>1, <3>1 DEF Fits
        <3>3. Told'
            <4>1. CASE msg.form # "message" \/ msg.to # << >> \/ ~msg.legible
                <5>1. said'.verdict = "refused"
                    BY <2>10, <4>1 DEF CheckMessage
                <5>2. ~AsMeant
                    BY <2>5, <3>1, <4>1 DEF AsMeant, TakenDetached
                <5>3. QED BY <2>3, <5>1, <5>2 DEF Told
            <4>2. CASE msg.form = "message" /\ msg.to = << >> /\ msg.legible /\ msg.signer = Nobody
                <5>1. ~Known
                    BY <4>2, MailAssumption, SignersFacts DEF Known
                <5>2. said'.verdict = "unknown"
                    BY <2>10, <4>2 DEF CheckMessage
                <5>3. QED BY <2>1, <2>2, <2>3, <3>1, <4>2, <5>1, <5>2 DEF Told, Apart
            <4>3. CASE msg.form = "message" /\ msg.to = << >> /\ msg.legible /\ msg.signer # Nobody
                <5>1. PICK i \in DOMAIN Signers :
                          /\ checked' = i
                          /\ IF Signers[i] \notin VerifyKeys
                             THEN Say("unknown", Nobody) \/ Say("bad", Signers[1])
                             ELSE Say(IF msg.intact THEN "good" ELSE "bad", Signers[1])
                    BY <2>10, <4>3 DEF CheckMessage
                <5>2. CASE Signers[i] \notin VerifyKeys
                    <6>1. ~Known
                        BY <5>2, SignersFacts DEF Known, VerifyKeys
                    <6>2. said'.verdict \in {"unknown", "bad"}
                        BY <5>1, <5>2
                    <6>3. QED BY <2>1, <2>2, <2>3, <3>1, <4>3, <6>1, <6>2 DEF Told, Apart
                <5>3. CASE Signers[i] \in VerifyKeys
                    <6>1. Signers[i] \in Certs
                        BY <5>3 DEF VerifyKeys
                    <6>2. said'.id = Signers[1] /\ said'.verdict = IF Fits THEN "good" ELSE "bad"
                        BY <3>1, <5>1, <5>3 DEF Fits
                    <6>3. QED BY <2>1, <2>2, <2>3, <3>1, <3>2, <4>3, <5>1, <6>1, <6>2 DEF Told, Apart
                <5>4. QED BY <5>2, <5>3
            <4>4. QED BY <4>1, <4>2, <4>3
        <3>4. QED BY <1>1, <2>1, <2>2, <2>4, <3>1, <3>3 DEF Verifying
    <2>11. QED BY <1>3, <2>4, <2>6, <2>7, <2>8, <2>9, <2>10, <1>2 DEF VerifyStep
<1>4. QED BY <1>2, <1>3 DEF VerifyStep, Arguments, ReadContent, CheckDetached, CheckClear, CheckMessage

\* --decrypt takes over where --verify has left off.
LEMMA HandOver == ReadInv /\ ThenDecrypt => ReadInv'
<1> SUFFICES ASSUME ReadInv, ThenDecrypt PROVE ReadInv'
    OBVIOUS
<1> DEFINE u == msg.intact /\ (msg.form = "detached" => input.args > 0 /\ Derived(input) = "data")
<1>1. /\ vpc = "told" /\ AtStart /\ input \in Inputs /\ Told /\ msg \in Message /\ msg = input.msg
    BY DEF ReadInv, Verifying, ThenDecrypt, AtStart
<1>2. /\ vpc' = "idle" /\ msg' = [msg EXCEPT !.intact = u]
      /\ UNCHANGED <<home, agent, pc, queue, scan, locals, results, ghost, input, content, said, checked>>
    BY DEF ThenDecrypt
<1>3. u \in BOOLEAN /\ u = Unspoilt(input)
    BY <1>1 DEF Message, Unspoilt
<1> HIDE DEF u
<1>4. /\ msg' \in Message /\ msg'.form = msg.form /\ msg'.to = msg.to /\ msg'.signer = msg.signer
      /\ msg'.legible = msg.legible /\ msg'.intact = u
    BY <1>1, <1>2, <1>3 DEF Message
<1>5. AtStart'
    BY <1>1, <1>2, <1>4 DEF AtStart, SecretsTyped, home, locals, results, ghost
<1>6. DecryptInv'
    BY <1>5, DecryptInvAtStart, PTL
<1>7. Verifying'
    BY <1>1, <1>2 DEF Verifying
<1>8. (AsMeant' <=> AsMeant) /\ (Apart' <=> Apart)
    BY <1>2, <1>4 DEF AsMeant, Apart, Given, Derived
<1>9. msg' = [input.msg EXCEPT !.intact = Unspoilt(input)]
    BY <1>1, <1>2, <1>3
<1>10. ASSUME AsMeant, Apart, input.also = Nobody
       PROVE  said.verdict = IF /\ msg.signer \in Certs /\ input.msg.intact
                                /\ msg.form = "detached" => Given(input) = "data"
                             THEN "good" ELSE "bad"
    <2>1. FirstKnown # 0 <=> msg.signer \in Certs
        BY <1>10, SignersFacts, FirstKnownFacts
    <2>2. content = IF msg.form = "detached" THEN Given(input) ELSE "data"
        BY <1>1, <1>10 DEF Told
    <2>3. Fits <=> input.msg.intact /\ (msg.form = "detached" => Given(input) = "data")
        BY <1>1, <2>2 DEF Fits
    <2>4. QED BY <1>1, <1>10, <2>1, <2>3 DEF Told
<1>11. pc' = "start"
    BY <1>1, <1>2 DEF AtStart
<1>12. Given(input)' = Given(input) /\ Unspoilt(input)' = Unspoilt(input) /\ input' = input /\ said' = said
    BY <1>2, Zenon DEF Given, Derived, Unspoilt
<1>13. Agreeing'
    BY <1>4, <1>8, <1>9, <1>10, <1>11, <1>12 DEF Agreeing, Ended
<1>14. QED BY <1>6, <1>7, <1>13 DEF ReadInv

\* Steps of --verify other than the last tell --decrypt nothing.
LEMMA Undisturbed == ReadInv /\ VerifyStep => ThenDecrypt \/ (DecryptInv' /\ vpc' # "idle")
<1> SUFFICES ASSUME ReadInv, VerifyStep, ~ThenDecrypt PROVE DecryptInv' /\ vpc' # "idle"
    OBVIOUS
<1>1. vars' = vars /\ vpc' # "idle"
    BY DEF VerifyStep, Arguments, ReadContent, CheckDetached, CheckClear, CheckMessage, Say
<1>2. DecryptInv'
    BY <1>1, DecryptInvStep DEF ReadInv
<1>3. QED BY <1>1, <1>2

\* --decrypt of what is as it should be given is over in a step.
LEMMA AgreesOn == ReadInv /\ vpc = "idle" /\ Next /\ UNCHANGED verifyVars => Agreeing'
<1> SUFFICES ASSUME ReadInv, vpc = "idle", Next, UNCHANGED verifyVars, input # NoInput
             PROVE  Agreeing'
    BY DEF Agreeing, verifyVars
<1>1. world' = world
    BY DEF Next, Step, Finished, Symmetric, Signed, Plain, Encrypted, Dial, HaveKey, TryExact, Scan,
           ScanOver, Local, Unlock, UnlockRefused, OpenMessage, PullCard, AgentDies, vars
<1>2. msg' = msg /\ input' = input /\ said' = said /\ vpc' = vpc
    BY <1>1 DEF world, verifyVars
<1>3. /\ (AsMeant' <=> AsMeant) /\ Checked' = Checked /\ (Apart' <=> Apart)
      /\ Given(input)' = Given(input) /\ Unspoilt(input)' = Unspoilt(input)
    BY <1>2, Zenon DEF AsMeant, Checked, Apart, Given, Derived, Unspoilt
<1>4. Agreeing
    BY DEF ReadInv
<1>5. ASSUME AsMeant
      PROVE  /\ pc' \in {"start", "ok", "failed"}
             /\ pc' \in Ended => IF Apart THEN report' = Checked ELSE report' \in {"none", "unverified"}
    <2>1. /\ pc \in {"start", "ok", "failed"}
          /\ pc \in Ended => IF Apart THEN report = Checked ELSE report \in {"none", "unverified"}
        BY <1>4, <1>5 DEF Agreeing
    <2>2. msg.form # "symmetric" /\ (msg.form = "message" => msg.to = << >> /\ msg.legible)
        BY <1>5 DEF AsMeant
    <2>3. CASE Signed
        BY <2>3 DEF Signed, Apart
    <2>4. CASE Plain
        BY <2>2, <2>4 DEF Plain, Finish, Verdict, Apart
    <2>5. CASE Finished
        BY <2>1, <2>5 DEF Finished, vars, results
    <2>6. CASE (\E k \in Key : PullCard(k)) \/ AgentDies
        BY <2>1, <2>6 DEF PullCard, AgentDies, results
    <2>7. Signed \/ Plain \/ Finished \/ (\E k \in Key : PullCard(k)) \/ AgentDies
        BY <2>1, <2>2 DEF Next, Step, Symmetric, Encrypted, Dial, HaveKey, TryExact, Scan,
                         ScanOver, Local, Unlock, UnlockRefused, OpenMessage
    <2>8. QED BY <2>3, <2>4, <2>5, <2>6, <2>7
<1>6. QED BY <1>2, <1>3, <1>4, <1>5 DEF Agreeing

LEMMA ReadInvStep == ReadInv /\ [ReadNext]_allVars => ReadInv'
<1> SUFFICES ASSUME ReadInv, [ReadNext]_allVars PROVE ReadInv'
    OBVIOUS
<1>1. CASE VerifyStep
    <2>1. CASE ThenDecrypt
        BY <2>1, HandOver
    <2>2. CASE DecryptInv' /\ vpc' # "idle"
        BY <1>1, <2>2, ToldRightly DEF ReadInv, Agreeing
    <2>3. QED BY <1>1, <2>1, <2>2, Undisturbed
<1>2. CASE vpc = "idle" /\ Next /\ UNCHANGED verifyVars
    <2>1. DecryptInv'
        BY <1>2, DecryptInvStep DEF ReadInv
    <2>2. Verifying'
        BY <1>2 DEF ReadInv, Verifying, verifyVars
    <2>3. QED BY <1>2, <2>1, <2>2, AgreesOn DEF ReadInv
<1>3. CASE UNCHANGED allVars
    <2>1. vars' = vars /\ UNCHANGED verifyVars
        BY <1>3 DEF allVars
    <2>2. DecryptInv'
        BY <2>1, DecryptInvStep DEF ReadInv
    <2>3. UNCHANGED <<msg, file, willing, agent, pc, queue, scan, left, opened, loaded, report, written,
                      calls, agentError, faults, input, vpc, content, said, checked>>
        BY <2>1 DEF vars, verifyVars, world, home, locals, results, ghost
    <2>4. Verifying' /\ Agreeing'
        BY <2>3 DEF ReadInv, Verifying, Agreeing, AtStart, SecretsTyped, TakenDetached, Told, Fits, Known,
                    Apart, FirstKnown, Signers, AsMeant, Given, Derived, Unspoilt, Checked
    <2>5. QED BY <2>2, <2>4 DEF ReadInv
<1>4. QED BY <1>1, <1>2, <1>3 DEF ReadNext

LEMMA ReadInvariance == ReadSpec => []ReadInv
BY ReadInvInit, ReadInvStep, PTL DEF ReadSpec

\* What --verify says rests on a signature by a key of the keybox over the data
\* it was given; of one apart from its text that is what "good" says and "bad"
\* denies, of one inside a message by known signers, too; and the key named is
\* the first signature's, and the one checked if it is known: for every input,
\* keybox, and order of two signatures.
THEOREM VerifyIsSound == ReadSpec => []VerdictSound
<1>1. ReadInv => VerdictSound
    <2> SUFFICES ASSUME ReadInv, vpc = "told" PROVE VerdictSound
        BY DEF VerdictSound
    <2>1. Told
        BY DEF ReadInv, Verifying
    <2>2. \A i \in DOMAIN Signers : i # 0
        BY SignersFacts
    <2>3. ASSUME said.verdict = "good", Apart, said.id \in Certs PROVE Signers[checked] = said.id
        BY <2>1, <2>3, FirstKnownFacts DEF Told
    <2>4. ASSUME AsMeant, Apart
          PROVE  said.verdict = IF Fits /\ ToSet(Signers) \intersect Certs # {} THEN "good" ELSE "bad"
        BY <2>1, <2>4, FirstKnownFacts DEF Told
    <2>5. QED BY <2>1, <2>2, <2>3, <2>4 DEF Told, Fits, Known, Apart, VerdictSound
<1>2. QED BY ReadInvariance, <1>1, PTL

\* One of --verify and --decrypt calls good what the other calls bad only if the
\* file named second, which --decrypt does not look at, and the one it takes for
\* the data are not both the data signed; and then it does.
THEOREM CommandsAgree == ReadSpec => []VerdictsAgree
<1>1. ReadInv => VerdictsAgree
    <2> SUFFICES ASSUME ReadInv, pc \in Ended, input # NoInput, input.also = Nobody, AsMeant
                 PROVE  {said.verdict, report} = {"good", "bad"} <=>
                           /\ msg.form = "detached" /\ msg.signer \in Certs /\ input.msg.intact
                           /\ input.args = 2 /\ (input.named = "data") # (Derived(input) = "data")
        BY DEF VerdictsAgree
    <2>1. vpc = "idle" /\ input \in Inputs
        BY DEF ReadInv, Verifying, AtStart, Ended
    <2>2. /\ msg = [input.msg EXCEPT !.intact = Unspoilt(input)]
          /\ IF Apart THEN report = Checked ELSE report \in {"none", "unverified"}
          /\ Apart => said.verdict = IF /\ msg.signer \in Certs /\ input.msg.intact
                                        /\ msg.form = "detached" => Given(input) = "data"
                                     THEN "good" ELSE "bad"
        BY <2>1 DEF ReadInv, Agreeing
    <2>3. input.msg \in Message /\ input.args \in 0..2
        BY <2>1, VerifyAssumption
    <2>4. msg.form = input.msg.form /\ (msg.intact <=> Unspoilt(input))
        BY <2>2, <2>3 DEF Message
    <2>5. CASE ~Apart
        BY <2>2, <2>5 DEF Apart
    <2>6. CASE msg.form # "detached" /\ Apart
        BY <2>2, <2>4, <2>6 DEF Checked, Unspoilt
    <2>7. CASE msg.form = "detached"
        <3>1. input.args \in {1, 2}
            BY <2>3, <2>7 DEF AsMeant
        <3>2. msg.intact <=> input.msg.intact /\ Derived(input) = "data"
            BY <2>4, <2>7, <3>1 DEF Unspoilt
        <3>3. report = IF msg.signer \in Certs /\ input.msg.intact /\ Derived(input) = "data"
                       THEN "good" ELSE "bad"
            BY <2>2, <2>7, <3>2 DEF Checked, Apart
        <3>4. said.verdict = IF msg.signer \in Certs /\ input.msg.intact /\ Given(input) = "data"
                             THEN "good" ELSE "bad"
            BY <2>2, <2>7 DEF Apart
        <3>5. CASE input.args = 1
            BY <3>3, <3>4, <3>5 DEF Given
        <3>6. CASE input.args = 2
            BY <2>7, <3>3, <3>4, <3>6 DEF Given
        <3>7. QED BY <3>1, <3>5, <3>6
    <2>8. QED BY <2>5, <2>6, <2>7
<1>2. QED BY ReadInvariance, <1>1, PTL

\* What holds of --decrypt alone holds of it after --verify.
THEOREM DecryptAfterVerify ==
    ReadSpec => [](TypeOK /\ TriedOnce /\ AgentFirst /\ LocalComplete /\ RefusalReported)
<1>1. ReadInv => TypeOK /\ TriedOnce /\ AgentFirst /\ LocalComplete /\ RefusalReported
    BY DecryptInvEnough DEF ReadInv
<1>2. QED BY ReadInvariance, <1>1, PTL
=============================================================================
