----------------------------- MODULE SealProofs -----------------------------
(***************************************************************************)
(* Proofs about --encrypt and the signing commands: what is written is for *)
(* the recipients asked for and signed as asked, gpg-agent comes before    *)
(* the key files, and a command that could sign does.  And what holds of   *)
(* Seal holds of it when a reader follows (SignedText), who finds what was *)
(* signed good, and nothing else.                                          *)
(***************************************************************************)
EXTENDS SignedText, MailLemmas

-----------------------------------------------------------------------------
(* The signing keys of a certificate.                                       *)

LEMMA BestFacts ==
    ASSUME NEW c \in Certs, Best[c] # NoKey
    PROVE  Best[c] \in ToSet(Keys[c]) /\ Best[c] \in Key /\ c = CertOf(Best[c])
<1>1. Best[c] \in ToSet(Keys[c])
    BY SealAssumption
<1>2. Best[c] \in Key
    BY <1>1 DEF Key
<1>3. QED BY <1>1, <1>2, CertOfFacts

LEMMA CandidatesFacts ==
    ASSUME NEW c \in Certs
    PROVE  /\ Candidates(c) \in Seq(Key)
           /\ Best[c] # NoKey => Best[c] \in ToSet(Candidates(c))
<1> DEFINE s == Keys[c]
           b == IF Best[c] = NoKey THEN << >> ELSE << Best[c] >>
           t == Keep(Subkeys(c), Signing \ {Best[c]})
<1>1. s \in Seq(Key) /\ s # << >>
    BY MailAssumption
<1> HIDE DEF s
<1>2. Tail(s) \in Seq(Key)
    BY <1>1, HeadTailFacts
<1>3. t \in Seq(Key)
    BY <1>2, KeepFacts DEF Subkeys, s
<1>4. b \in Seq(Key) /\ (Best[c] # NoKey => Best[c] \in ToSet(b))
    <2>1. CASE Best[c] = NoKey
        BY <2>1
    <2>2. CASE Best[c] # NoKey
        <3>1. b = << Best[c] >> /\ Best[c] \in Key
            BY <2>2, BestFacts
        <3> HIDE DEF b
        <3>2. QED BY <3>1 DEF ToSet
    <2>3. QED BY <2>1, <2>2
<1> HIDE DEF b, t
<1>5. b \o t \in Seq(Key) /\ ToSet(b \o t) = ToSet(b) \union ToSet(t)
    BY <1>3, <1>4, ConcatFacts
<1>6. Candidates(c) = b \o t
    BY DEF Candidates, b, t
<1>7. QED BY <1>4, <1>5, <1>6

LEMMA AgentQueueFacts ==
    ASSUME NEW c \in Certs
    PROVE  /\ AgentQueue(c) \in Seq(Key)
           /\ ToSet(AgentQueue(c)) = {k \in ToSet(Candidates(c)) : AgentSigns(k)}
<1> DEFINE T == {k \in Key : AgentSigns(k)}
           s == Candidates(c)
<1>1. s \in Seq(Key) /\ ToSet(s) \subseteq Key
    BY CandidatesFacts, SeqFacts
<1>2. AgentQueue(c) = Keep(s, T)
    BY DEF AgentQueue
<1>3. \A k : k \in T <=> k \in Key /\ AgentSigns(k)
    OBVIOUS
<1> HIDE DEF T, s
<1>4. Keep(s, T) \in Seq(Key) /\ ToSet(Keep(s, T)) = ToSet(s) \intersect T
    BY <1>1, KeepFacts
<1>5. QED BY <1>1, <1>2, <1>3, <1>4 DEF s

\* The certificates that can sign for the user.
LEMMA PickedFacts ==
    /\ Picked \subseteq Certs
    /\ cmd.user # NoUser => Picked \subseteq Matches[cmd.user]
BY SecretKeysFacts DEF Picked

-----------------------------------------------------------------------------
(* Types.                                                                   *)

Typed == /\ TypeOK
         /\ cmd \in Commands
         /\ out # << >> => \E by : out = << Made(by) >>
         /\ pc = "resolve" => cmd.encrypt
         /\ pc \in {"pick", "dial", "have", "agent", "unlock"} => cmd.sign
         /\ pc \in {"dial", "have", "agent", "unlock"} \/ (pc \in {"seal", "ok"} /\ cmd.sign) =>
               signer \in Picked

LEMMA CommandFacts ==
    ASSUME cmd \in Commands
    PROVE  /\ cmd.encrypt \in BOOLEAN /\ cmd.sign \in BOOLEAN /\ (cmd.encrypt \/ cmd.sign)
           /\ Len(cmd.specs) \in Nat /\ DOMAIN cmd.specs = 1..Len(cmd.specs)
           /\ \A n \in 1..Len(cmd.specs) : /\ cmd.specs[n].query \in DOMAIN Matches
                                           /\ cmd.specs[n].hidden \in BOOLEAN
                                           /\ Matches[cmd.specs[n].query] \subseteq Certs
           /\ cmd.specs = << >> <=> Len(cmd.specs) = 0
<1>1. /\ cmd.encrypt \in BOOLEAN /\ cmd.sign \in BOOLEAN /\ (cmd.encrypt \/ cmd.sign)
      /\ cmd.specs \in Seq([query : DOMAIN Matches, hidden : BOOLEAN])
    BY SealAssumption
<1>2. /\ Len(cmd.specs) \in Nat /\ DOMAIN cmd.specs = 1..Len(cmd.specs)
      /\ \A n \in 1..Len(cmd.specs) : cmd.specs[n] \in [query : DOMAIN Matches, hidden : BOOLEAN]
    BY <1>1, LenProperties
<1>3. cmd.specs = << >> <=> Len(cmd.specs) = 0
    BY <1>1, EmptySeq
<1>4. \A r \in [query : DOMAIN Matches, hidden : BOOLEAN] :
         r.query \in DOMAIN Matches /\ r.hidden \in BOOLEAN
    OBVIOUS
<1>5. QED BY <1>1, <1>2, <1>3, <1>4, SealAssumption

\* A query that finds one certificate.
LEMMA FindsOne ==
    ASSUME NEW Q, Q \subseteq Certs, Cardinality(Q) = 1
    PROVE  \E c \in Certs : Q = {c}
<1>1. IsFiniteSet(Q)
    BY CertsFinite, FS_Subset
<1>2. PICK c : Q = {c}
    BY <1>1, FS_Singleton
<1>3. QED BY <1>2

LEMMA TypedInit == Init => Typed
<1> SUFFICES ASSUME Init PROVE Typed
    OBVIOUS
<1>1. SecretsTyped
    BY SecretsAssumption DEF Init, SecretsInit, SecretsTyped
<1>2. cmd \in Commands /\ Len(cmd.specs) \in Nat /\ 0 \in 0..MaxFaults
    BY CommandFacts, SealAssumption DEF Init
<1>3. next \in 1..(Len(cmd.specs) + 1) /\ hide \in [Certs -> BOOLEAN]
    BY <1>2 DEF Init
<1>4. order \in Seq(Certs) /\ queue \in Seq(Key)
    BY DEF Init
<1>5. pc \in {"failed", "resolve", "pick"} /\ out = << >> /\ signer = NoKey /\ loaded = {}
      /\ refused = FALSE /\ faults = 0
    BY DEF Init
<1>6. (pc = "pick" => cmd.sign) /\ (pc = "resolve" => cmd.encrypt)
    BY <1>2, CommandFacts DEF Init
<1>7. QED BY <1>1, <1>2, <1>3, <1>4, <1>5, <1>6 DEF Typed, TypeOK, Ended

LEMMA TypedStep == Typed /\ [Next]_vars => Typed'
<1> SUFFICES ASSUME Typed, [Next]_vars PROVE Typed'
    OBVIOUS
<1> DEFINE Stages == Ended \union {"resolve", "pick", "dial", "have", "agent", "unlock", "seal"}
<1>1. /\ file \in [Key -> File] /\ willing \subseteq Certs /\ agent \in AgentType
      /\ cmd \in Commands
      /\ pc \in Stages
      /\ next \in 1..(Len(cmd.specs) + 1) /\ order \in Seq(Certs) /\ hide \in [Certs -> BOOLEAN]
      /\ signer \in Certs \union {NoKey} /\ queue \in Seq(Key) /\ loaded \subseteq Key
      /\ refused \in BOOLEAN /\ faults \in 0..MaxFaults
      /\ (pc \in {"dial", "have", "agent"} => queue # << >>)
      /\ (out # << >>) = (pc = "ok")
      /\ (out # << >> => \E by : out = << Made(by) >>)
      /\ (pc = "resolve" => cmd.encrypt)
      /\ (pc \in {"pick", "dial", "have", "agent", "unlock"} => cmd.sign)
      /\ (pc \in {"dial", "have", "agent", "unlock"} \/ (pc \in {"seal", "ok"} /\ cmd.sign) =>
             signer \in Picked)
    BY DEF Typed, TypeOK, SecretsTyped, AgentType
<1>2. SUFFICES /\ file' \in [Key -> File] /\ willing' \subseteq Certs /\ agent' \in AgentType
               /\ cmd' \in Commands
               /\ pc' \in Stages
               /\ next' \in 1..(Len(cmd'.specs) + 1) /\ order' \in Seq(Certs)
               /\ hide' \in [Certs -> BOOLEAN]
               /\ signer' \in Certs \union {NoKey} /\ queue' \in Seq(Key) /\ loaded' \subseteq Key
               /\ refused' \in BOOLEAN /\ faults' \in 0..MaxFaults
               /\ (pc' \in {"dial", "have", "agent"} => queue' # << >>)
               /\ (out' # << >>) = (pc' = "ok")
               /\ (out' # << >> => \E by : out' = << Made(by)' >>)
               /\ (pc' = "resolve" => cmd'.encrypt)
               /\ (pc' \in {"pick", "dial", "have", "agent", "unlock"} => cmd'.sign)
               /\ (pc' \in {"dial", "have", "agent", "unlock"} \/ (pc' \in {"seal", "ok"} /\ cmd'.sign) =>
                      signer' \in Picked)
    <2>1. Picked' = Picked
        BY Zenon DEF Next, Step, Finished, Fault, Resolve, Resolved, Pick, Dial, HaveKey, AgentSeal, Unlock,
               Seal, LibraryRefuses, Picked, SecretKeys, HasFile, vars, home
    <2>2. QED BY <2>1 DEF Typed, TypeOK, SecretsTyped, AgentType
<1>3. pc \in {"dial", "have", "agent"} => Tail(queue) \in Seq(Key) /\ Head(queue) \in Key
    BY <1>1, HeadTailFacts
<1>4. /\ Len(cmd.specs) \in Nat
      /\ \A n \in 1..Len(cmd.specs) : /\ cmd.specs[n].hidden \in BOOLEAN
                                      /\ Matches[cmd.specs[n].query] \subseteq Certs
    BY <1>1, CommandFacts
<1>5. UNCHANGED <<cmd, order, hide>> => \A by : Made(by)' = Made(by)
    BY Zenon DEF Made, Packets
<1> HIDE DEF Made
<1> USE DEF vars, home, recipients, signing, Ended
<1>6. CASE Resolve
    <2>1. CASE Cardinality(Matches[cmd.specs[next].query]) # 1
        BY <1>1, <1>6, <2>1 DEF Resolve
    <2>2. CASE Cardinality(Matches[cmd.specs[next].query]) = 1
        <3>1. next \in 1..Len(cmd.specs)
            BY <1>1, <1>4, <1>6 DEF Resolve
        <3>2. PICK c \in Matches[cmd.specs[next].query] :
                 /\ order' = Dedupe(Append(order, c))
                 /\ hide' = [hide EXCEPT ![c] = cmd.specs[next].hidden]
            BY <1>6, <2>2 DEF Resolve
        <3>3. c \in Certs /\ hide' \in [Certs -> BOOLEAN]
            BY <1>1, <1>4, <3>1, <3>2
        <3>4. order' \in Seq(Certs)
            BY <1>1, <3>2, <3>3, AppendFacts, DedupeFacts
        <3>5. next' \in 1..(Len(cmd.specs) + 1)
            BY <1>4, <1>6, <2>2, <3>1 DEF Resolve
        <3>6. QED BY <1>1, <1>6, <2>2, <3>3, <3>4, <3>5 DEF Resolve
    <2>3. QED BY <2>1, <2>2
<1>7. CASE Resolved
    BY <1>1, <1>7 DEF Resolved
<1>8. CASE Pick
    <2>1. CASE Cardinality(Picked) # 1
        BY <1>1, <1>8, <2>1 DEF Pick
    <2>2. CASE Cardinality(Picked) = 1
        <3>1. PICK c \in Picked : /\ signer' = c /\ queue' = AgentQueue(c)
                                  /\ pc' = IF AgentQueue(c) = << >> THEN "unlock" ELSE "dial"
            BY <1>8, <2>2 DEF Pick
        <3>2. c \in Certs /\ AgentQueue(c) \in Seq(Key)
            BY PickedFacts, AgentQueueFacts
        <3>3. QED BY <1>1, <1>8, <2>2, <3>1, <3>2 DEF Pick
    <2>3. QED BY <2>1, <2>2
<1>9. CASE Dial
    BY <1>1, <1>9 DEF Dial
<1>10. CASE HaveKey
    BY <1>1, <1>3, <1>10 DEF HaveKey
<1>11. CASE AgentSeal
    <2>1. agent' \in AgentType
        BY <1>1, <1>3, <1>11, AgentTyped DEF AgentSeal, AgentUses
    <2>2. UNCHANGED <<cmd, order, hide>>
        BY <1>11 DEF AgentSeal
    <2>3. \/ out' = out /\ pc' = "failed"
          \/ out' = << Made(Head(queue)) >> /\ pc' = "ok"
        BY <1>11 DEF AgentSeal
    <2>4. out' # << >> => \E by : out' = << Made(by)' >>
        BY <1>1, <1>5, <1>11, <2>2, <2>3 DEF AgentSeal
    <2>5. (out' # << >>) = (pc' = "ok")
        <3>1. pc # "ok" /\ (out = << >>) /\ \A x : << x >> # << >>
            BY <1>1, <1>11 DEF AgentSeal
        <3>2. QED BY <2>3, <3>1
    <2>6. QED BY <1>1, <1>11, <2>1, <2>4, <2>5 DEF AgentSeal
<1>12. CASE Unlock
    <2>1. signer \in Certs => loaded' \subseteq Key
        <3>1. signer \in Certs => ToSet(Keys[signer]) \subseteq Key
            BY DEF Key
        <3>2. QED BY <1>1, <1>12, <3>1 DEF Unlock
    <2>2. signer \in Certs
        BY <1>1, <1>12, PickedFacts DEF Unlock
    <2>3. QED BY <1>1, <1>12, <2>1, <2>2 DEF Unlock
<1>13. CASE Seal
    <2>1. UNCHANGED <<cmd, order, hide>>
        BY <1>13 DEF Seal
    <2>2. \/ out' = out /\ pc' = "failed"
          \/ \E by : out' = << Made(by) >> /\ pc' = "ok"
        BY <1>13 DEF Seal
    <2>3. out' # << >> => \E by : out' = << Made(by)' >>
        BY <1>1, <1>5, <1>13, <2>1, <2>2 DEF Seal
    <2>4. (out' # << >>) = (pc' = "ok")
        <3>1. pc # "ok" /\ (out = << >>) /\ \A x : << x >> # << >>
            BY <1>1, <1>13 DEF Seal
        <3>2. QED BY <2>2, <3>1
    <2>5. QED BY <1>1, <1>13, <2>3, <2>4 DEF Seal
<1>14. CASE LibraryRefuses
    BY <1>1, <1>14 DEF LibraryRefuses
<1>15. CASE Fault
    <2>1. agent' \in AgentType
        BY <1>1, <1>15, AgentTyped DEF Fault, CardOut, AgentGone
    <2>2. faults' \in 0..MaxFaults
        BY <1>1, <1>15, SealAssumption DEF Fault
    <2>3. QED BY <1>1, <1>15, <2>1, <2>2 DEF Fault
<1>16. CASE UNCHANGED vars
    BY <1>1, <1>5, <1>16
<1>17. QED BY <1>6, <1>7, <1>8, <1>9, <1>10, <1>11, <1>12, <1>13, <1>14, <1>15, <1>16
        DEF Next, Step, Finished

-----------------------------------------------------------------------------
(* The recipients.                                                          *)

\* The certificate specification n is of.
Of(n, c) == Matches[cmd.specs[n].query] = {c}

\* The recipients so far are those of the specifications so far, each once, and
\* the last of its specifications decides whether it is hidden.
Resolving ==
    /\ IsInjective(order)
    /\ \A c \in Certs : c \in ToSet(order) <=> \E n \in 1..(next - 1) : Of(n, c)
    /\ \A c \in ToSet(order) : \E n \in 1..(next - 1) :
          /\ Of(n, c) /\ hide[c] = cmd.specs[n].hidden
          /\ \A m \in 1..(next - 1) : Of(m, c) => m <= n
    /\ pc \notin {"resolve", "failed"} /\ cmd.encrypt => next = Len(cmd.specs) + 1

LEMMA ResolvingInit == Init => Resolving
<1> SUFFICES ASSUME Init PROVE Resolving
    OBVIOUS
<1>1. IsInjective(order) /\ ToSet(order) = {} /\ next = 1
    BY Empty DEF Init
<1>2. pc \in {"resolve", "failed"} \/ ~cmd.encrypt
    BY DEF Init
<1>3. QED BY <1>1, <1>2 DEF Resolving

LEMMA ResolvingStep == Typed /\ Resolving /\ [Next]_vars => Resolving'
<1> SUFFICES ASSUME Typed, Resolving, [Next]_vars PROVE Resolving'
    OBVIOUS
<1>1. /\ cmd \in Commands /\ Len(cmd.specs) \in Nat /\ next \in 1..(Len(cmd.specs) + 1)
      /\ order \in Seq(Certs) /\ hide \in [Certs -> BOOLEAN]
      /\ \A n \in 1..Len(cmd.specs) : Matches[cmd.specs[n].query] \subseteq Certs
    BY CommandFacts DEF Typed, TypeOK
<1>2. cmd' = cmd
    BY DEF Next, Step, Finished, Fault, Resolve, Resolved, Pick, Dial, HaveKey, AgentSeal, Unlock,
           Seal, LibraryRefuses, vars
<1>3. \A n, c : Of(n, c)' <=> Of(n, c)
    BY <1>2 DEF Of
<1>4. CASE Resolve /\ Cardinality(Matches[cmd.specs[next].query]) = 1
    <2>1. next \in 1..Len(cmd.specs) /\ next' = next + 1 /\ pc' = "resolve"
        BY <1>1, <1>4 DEF Resolve
    <2>2. PICK c \in Matches[cmd.specs[next].query] :
             /\ order' = Dedupe(Append(order, c))
             /\ hide' = [hide EXCEPT ![c] = cmd.specs[next].hidden]
        BY <1>4 DEF Resolve
    <2>3. c \in Certs /\ Of(next, c)
        <3>1. \E d \in Certs : Matches[cmd.specs[next].query] = {d}
            BY <1>1, <1>4, <2>1, FindsOne
        <3>2. QED BY <2>2, <3>1 DEF Of
    <2>4. \A d : Of(next, d) <=> d = c
        BY <2>3 DEF Of
    <2>5. IsInjective(order') /\ ToSet(order') = ToSet(order) \union {c}
        <3> DEFINE a == Append(order, c)
        <3>1. a \in Seq(Certs) /\ ToSet(a) = ToSet(order) \union {c}
            BY <1>1, <2>3, AppendFacts
        <3> HIDE DEF a
        <3>2. IsInjective(Dedupe(a)) /\ ToSet(Dedupe(a)) = ToSet(a)
            BY <3>1, DedupeFacts
        <3>3. QED BY <2>2, <3>1, <3>2 DEF a
    <2>6. /\ \A d : d # c => hide'[d] = hide[d] \/ d \notin Certs
          /\ hide'[c] = cmd.specs[next].hidden
        BY <1>1, <2>2, <2>3
    <2>7. \A n : n \in 1..(next' - 1) <=> n \in 1..(next - 1) \/ n = next
        BY <1>1, <2>1
    <2>8. \A n \in 1..(next - 1) : n <= next
        BY <1>1
    <2>9. \A d \in Certs : d \in ToSet(order') <=> \E n \in 1..(next' - 1) : Of(n, d)
        BY <2>4, <2>5, <2>7 DEF Resolving
    <2>10. ASSUME NEW d \in ToSet(order')
           PROVE  \E n \in 1..(next' - 1) : /\ Of(n, d) /\ hide'[d] = cmd.specs[n].hidden
                                            /\ \A m \in 1..(next' - 1) : Of(m, d) => m <= n
        <3>1. CASE d = c
            <4>1. /\ Of(next, d) /\ hide'[d] = cmd.specs[next].hidden
                  /\ \A m \in 1..(next' - 1) : Of(m, d) => m <= next
                BY <1>1, <2>3, <2>6, <2>7, <2>8, <3>1
            <4>2. QED BY <2>7, <4>1
        <3>2. CASE d # c
            <4>1. d \in ToSet(order) /\ d \in Certs
                BY <1>1, <2>5, <3>2, SeqFacts
            <4>2. PICK n \in 1..(next - 1) : /\ Of(n, d) /\ hide[d] = cmd.specs[n].hidden
                                             /\ \A m \in 1..(next - 1) : Of(m, d) => m <= n
                BY <4>1 DEF Resolving
            <4>3. hide'[d] = hide[d] /\ ~Of(next, d)
                BY <2>4, <2>6, <3>2, <4>1
            <4>4. \A m \in 1..(next' - 1) : Of(m, d) => m <= n
                BY <2>7, <4>2, <4>3
            <4>5. QED BY <2>7, <4>2, <4>3, <4>4
        <3>3. QED BY <3>1, <3>2
    <2>11. QED BY <1>2, <1>3, <2>1, <2>5, <2>9, <2>10 DEF Resolving
<1>5. CASE UNCHANGED recipients /\ (pc' \notin {"resolve", "failed"} /\ cmd.encrypt =>
                                       pc \notin {"resolve", "failed"} \/ next = Len(cmd.specs) + 1)
    BY <1>2, <1>3, <1>5 DEF Resolving, recipients
<1>6. CASE Resolve /\ Cardinality(Matches[cmd.specs[next].query]) # 1
    BY <1>5, <1>6 DEF Resolve
<1>7. CASE Resolved
    <2>1. next = Len(cmd.specs) + 1 /\ UNCHANGED recipients
        BY <1>1, <1>7 DEF Resolved
    <2>2. QED BY <1>5, <2>1
<1>8. CASE Pick \/ Dial \/ HaveKey \/ AgentSeal \/ Unlock \/ Seal \/ LibraryRefuses
    BY <1>5, <1>8 DEF Pick, Dial, HaveKey, AgentSeal, Unlock, Seal, LibraryRefuses
<1>9. CASE Fault
    BY <1>5, <1>9 DEF Fault
<1>10. CASE UNCHANGED vars
    BY <1>5, <1>10 DEF vars
<1>11. QED BY <1>4, <1>6, <1>7, <1>8, <1>9, <1>10 DEF Next, Step, Finished

\* One packet for each recipient.
LEMMA PacketsFacts ==
    ASSUME Typed, Resolving
    PROVE  /\ Len(Packets) = Cardinality(ToSet(order)) /\ DOMAIN Packets = 1..Len(Packets)
           /\ ToSet(Packets) = {[key |-> EncKey[c], hidden |-> hide[c]] : c \in ToSet(order)}
<1> DEFINE V == {c \in Certs : ~hide[c]}
           H == {c \in Certs : hide[c]}
           v == Keep(order, V)
           h == Keep(order, H)
           s == v \o h
           Of1(c) == [key |-> EncKey[c], hidden |-> hide[c]]
           p == [i \in DOMAIN s |-> Of1(s[i])]
<1>1. order \in Seq(Certs) /\ IsInjective(order) /\ hide \in [Certs -> BOOLEAN]
    BY DEF Typed, TypeOK, Resolving
<1>2. V \intersect H = {} /\ V \union H = Certs
    BY <1>1
<1> HIDE DEF V, H
<1>3. /\ v \in Seq(Certs) /\ IsInjective(v) /\ ToSet(v) = ToSet(order) \intersect V
      /\ h \in Seq(Certs) /\ IsInjective(h) /\ ToSet(h) = ToSet(order) \intersect H
    BY <1>1, KeepFacts
<1>4. ToSet(order) \subseteq Certs
    BY <1>1, SeqFacts
<1> HIDE DEF v, h
<1>5. s \in Seq(Certs) /\ IsInjective(s) /\ ToSet(s) = ToSet(order)
    <2>1. ToSet(v) \intersect ToSet(h) = {}
        BY <1>2, <1>3
    <2>2. s \in Seq(Certs) /\ IsInjective(s) /\ ToSet(s) = ToSet(v) \union ToSet(h)
        BY <1>3, <2>1, ConcatFacts
    <2> HIDE DEF s
    <2>3. \A x : x \in ToSet(s) <=> x \in ToSet(order)
        BY <1>2, <1>3, <1>4, <2>2
    <2>4. QED BY <2>2, <2>3
<1> HIDE DEF s
<1>6. Cardinality(ToSet(order)) = Len(s)
    BY <1>5, CountFacts
<1>7. Len(s) \in Nat /\ DOMAIN s = 1..Len(s) /\ \A c : c \in ToSet(s) <=> \E i \in 1..Len(s) : c = s[i]
    BY <1>5, SeqFacts
<1> DEFINE R == {Of1(c) : c \in ToSet(order)}
<1>8. p \in [1..Len(s) -> R] /\ \A i \in 1..Len(s) : p[i] = Of1(s[i])
    <2>1. \A i \in 1..Len(s) : s[i] \in ToSet(order)
        BY <1>5, <1>7
    <2> HIDE DEF Of1
    <2>2. \A i \in 1..Len(s) : Of1(s[i]) \in R
        BY <2>1
    <2> HIDE DEF R
    <2>3. QED BY <1>7, <2>2
<1> HIDE DEF p, R
<1>9. p \in Seq(R) /\ DOMAIN p = 1..Len(s)
    BY <1>7, <1>8, SeqDef
<1>10. Len(p) = Len(s)
    BY <1>7, <1>9, LenProperties
<1>11. \A x : x \in ToSet(p) <=> \E i \in 1..Len(s) : x = p[i]
    BY <1>9 DEF ToSet
<1> HIDE DEF Of1
<1>12. \A x : x \in ToSet(p) <=> \E c \in ToSet(order) : x = Of1(c)
    BY <1>5, <1>7, <1>8, <1>11
<1>13. ToSet(p) = {Of1(c) : c \in ToSet(order)}
    BY <1>12
<1>14. Packets = p
    BY Zenon DEF Packets, p, s, v, h, V, H, Of1
<1>15. QED BY <1>6, <1>9, <1>10, <1>13, <1>14 DEF Of1

LEMMA ResolvingEnough == Typed /\ Resolving => LastSpecWins
<1> SUFFICES ASSUME Typed, Resolving, NEW i \in DOMAIN out, cmd.encrypt
             PROVE  LET Names(c) == {n \in DOMAIN cmd.specs : Matches[cmd.specs[n].query] = {c}}
                        final(c) == CHOOSE n \in Names(c) : \A m \in Names(c) : m <= n
                        named    == {c \in Certs : Names(c) # {}}
                    IN  /\ Len(out[i].to) = Cardinality(named)
                        /\ ToSet(out[i].to) =
                              {[key |-> EncKey[c], hidden |-> cmd.specs[final(c)].hidden] : c \in named}
    BY DEF LastSpecWins
<1> DEFINE Names(c) == {n \in DOMAIN cmd.specs : Matches[cmd.specs[n].query] = {c}}
           final(c) == CHOOSE n \in Names(c) : \A m \in Names(c) : m <= n
           named    == {c \in Certs : Names(c) # {}}
<1>1. out # << >> /\ pc = "ok"
    <2>1. CASE out = << >>
        BY <2>1
    <2>2. QED BY <2>1 DEF Typed, TypeOK
<1>2. PICK by : out = << Made(by) >>
    BY <1>1 DEF Typed
<1>3. out[i] = Made(by)
    BY <1>2
<1>4. out[i].to = Packets
    BY <1>3 DEF Made
<1>5. DOMAIN cmd.specs = 1..(next - 1)
    BY <1>1, CommandFacts DEF Typed, TypeOK, Resolving
<1>6. \A c : Names(c) = {n \in 1..(next - 1) : Of(n, c)}
    BY <1>5 DEF Of
<1> HIDE DEF Names
<1>7. order \in Seq(Certs) /\ ToSet(order) \subseteq Certs
    BY SeqFacts DEF Typed, TypeOK
<1>8. named = ToSet(order)
    <2>1. \A c \in Certs : Names(c) # {} <=> c \in ToSet(order)
        BY <1>6 DEF Resolving
    <2>2. QED BY <1>7, <2>1
<1>9. ASSUME NEW c \in ToSet(order) PROVE cmd.specs[final(c)].hidden = hide[c]
    <2>1. PICK n \in 1..(next - 1) : /\ Of(n, c) /\ hide[c] = cmd.specs[n].hidden
                                     /\ \A m \in 1..(next - 1) : Of(m, c) => m <= n
        BY DEF Resolving
    <2>2. n \in Names(c) /\ \A m \in Names(c) : m <= n
        BY <1>6, <2>1
    <2>3. final(c) \in Names(c) /\ \A m \in Names(c) : m <= final(c)
        BY <2>2
    <2> HIDE DEF final
    <2>4. final(c) \in 1..(next - 1) /\ n <= final(c) /\ final(c) <= n
        BY <1>6, <2>2, <2>3
    <2>5. next \in Nat
        BY CommandFacts DEF Typed, TypeOK
    <2>6. final(c) = n
        BY <2>4, <2>5
    <2>7. QED BY <2>1, <2>6
<1> HIDE DEF final
<1>10. \A x : x \in {[key |-> EncKey[c], hidden |-> hide[c]] : c \in ToSet(order)} <=>
              x \in {[key |-> EncKey[c], hidden |-> cmd.specs[final(c)].hidden] : c \in ToSet(order)}
    BY <1>9
<1>11. ToSet(Packets) = {[key |-> EncKey[c], hidden |-> cmd.specs[final(c)].hidden] : c \in ToSet(order)}
    BY <1>10, PacketsFacts
<1> HIDE DEF named
<1>12. QED BY <1>4, <1>8, <1>11, PacketsFacts DEF Names, final, named

-----------------------------------------------------------------------------
(* The signature.                                                           *)

\* The keys to look for in the agent are the signer's, and without faults those
\* that were dropped are not there; what was unlocked is all that can be.
Choosing ==
    /\ pc = "dial" => queue = AgentQueue(signer)
    /\ pc \in {"have", "agent"} => ToSet(queue) \subseteq ToSet(AgentQueue(signer))
    /\ pc = "have" /\ faults = 0 =>
          \A k \in ToSet(AgentQueue(signer)) : k \in ToSet(queue) \/ k \notin agent.holds
    /\ pc \in {"unlock", "seal"} /\ cmd.sign /\ faults = 0 =>
          ~agent.up \/ \A k \in ToSet(AgentQueue(signer)) : k \notin agent.holds
    /\ pc = "seal" /\ cmd.sign => \A k \in ToSet(Keys[signer]) : Readable(k) => k \in loaded

\* What a step does not change.
LEMMA Unchanging ==
    ASSUME [Next]_vars
    PROVE  /\ cmd' = cmd /\ file' = file /\ willing' = willing /\ Picked' = Picked
           /\ \A k : Readable(k)' <=> Readable(k)
<1>1. cmd' = cmd /\ file' = file /\ willing' = willing
    BY DEF Next, Step, Finished, Fault, Resolve, Resolved, Pick, Dial, HaveKey, AgentSeal, Unlock,
           Seal, LibraryRefuses, vars, home
<1>2. Picked' = Picked
    BY <1>1, Zenon DEF Picked, SecretKeys, HasFile
<1>3. \A c : Protected(c)' <=> Protected(c)
    BY <1>1, Zenon DEF Protected
<1>4. \A c : Attachable(c, TRUE)' = Attachable(c, TRUE)
    BY <1>1, Zenon DEF Attachable
<1>5. \A k : Readable(k)' <=> Readable(k)
    BY <1>1, <1>3, <1>4, Zenon DEF Readable
<1>6. QED BY <1>1, <1>2, <1>5

\* Signing with the agent changes neither what it holds nor whether it is up.
LEMMA HoldsOn ==
    ASSUME Typed, NEW k, AgentUses(k)
    PROVE  agent'.up = agent.up /\ agent'.holds = agent.holds
<1>1. agent \in AgentType
    BY DEF Typed, TypeOK, SecretsTyped, AgentType
<1>2. QED BY <1>1 DEF AgentUses, AgentType

LEMMA SigningStep == Typed /\ Choosing /\ [Next]_vars => Choosing'
<1> SUFFICES ASSUME Typed, Choosing, [Next]_vars PROVE Choosing'
    OBVIOUS
<1>1. /\ queue \in Seq(Key) /\ (pc \in {"dial", "have", "agent"} => queue # << >>)
      /\ (pc \in {"dial", "have", "agent", "unlock"} => signer \in Picked)
      /\ (pc \in {"pick", "dial", "have", "agent", "unlock"} => cmd.sign)
      /\ faults \in Nat
    BY SealAssumption DEF Typed, TypeOK
<1>2. pc = "have" => ToSet(queue) = {Head(queue)} \union ToSet(Tail(queue))
    BY <1>1, HeadTailFacts
<1>3. cmd' = cmd /\ \A k : Readable(k)' <=> Readable(k)
    BY Unchanging
<1>4. signer' = signer => AgentQueue(signer)' = AgentQueue(signer)
    BY Zenon DEF AgentQueue, Candidates
<1> USE DEF vars, home, recipients, signing, Ended
<1>5. CASE Resolve
    BY <1>5 DEF Resolve, Choosing
<1>6. CASE Resolved
    BY <1>3, <1>6 DEF Resolved, Choosing
<1>7. CASE Pick
    <2>1. CASE Cardinality(Picked) # 1
        BY <1>7, <2>1 DEF Pick, Choosing
    <2>2. CASE Cardinality(Picked) = 1
        <3>1. PICK c \in Picked : /\ signer' = c /\ queue' = AgentQueue(c)
                                  /\ pc' = IF AgentQueue(c) = << >> THEN "unlock" ELSE "dial"
            BY <1>7, <2>2 DEF Pick
        <3>2. AgentQueue(signer)' = AgentQueue(c)
            BY <3>1, Zenon DEF AgentQueue, Candidates
        <3>3. AgentQueue(c) = << >> => ToSet(AgentQueue(c)) = {}
            BY Empty
        <3>4. QED BY <3>1, <3>2, <3>3 DEF Choosing
    <2>3. QED BY <2>1, <2>2
<1>8. CASE Dial
    <2>1. pc = "dial" /\ pc' = (IF agent.up THEN "have" ELSE "unlock") /\ UNCHANGED <<agent, signer, queue>>
        BY <1>8 DEF Dial
    <2>2. QED BY <1>4, <2>1 DEF Choosing
<1>9. CASE HaveKey
    <2>1. pc = "have" /\ UNCHANGED <<agent, signer, faults>>
        BY <1>9 DEF HaveKey
    <2>2. CASE Head(queue) \in agent.holds
        <3>1. pc' = "agent" /\ queue' = queue
            BY <1>9, <2>2 DEF HaveKey
        <3>2. QED BY <1>4, <2>1, <3>1 DEF Choosing
    <2>3. CASE Head(queue) \notin agent.holds
        <3>1. queue' = Tail(queue) /\ pc' = IF Tail(queue) = << >> THEN "unlock" ELSE "have"
            BY <1>9, <2>3 DEF HaveKey
        <3>2. ToSet(Tail(queue)) \subseteq ToSet(AgentQueue(signer))
            BY <1>2, <2>1 DEF Choosing
        <3>3. faults = 0 => \A k \in ToSet(AgentQueue(signer)) :
                                k \in ToSet(Tail(queue)) \/ k \notin agent.holds
            BY <1>2, <2>1, <2>3 DEF Choosing
        <3>4. QED BY <1>4, <2>1, <3>1, <3>2, <3>3, Empty DEF Choosing
    <2>4. QED BY <2>2, <2>3
<1>10. CASE AgentSeal
    BY <1>10 DEF AgentSeal, Choosing
<1>11. CASE Unlock
    <2>1. pc = "unlock" /\ UNCHANGED <<agent, signer, faults>> /\ signer \in Certs
        BY <1>1, <1>11, PickedFacts DEF Unlock
    <2>2. CASE pc' = "failed"
        BY <2>2 DEF Choosing
    <2>3. CASE pc' # "failed"
        <3>1. PICK got : Unlocks(signer, got) /\ loaded' = got /\ pc' = "seal"
            BY <1>11, <2>3 DEF Unlock
        <3>2. ASSUME NEW k \in ToSet(Keys[signer]), Readable(k) PROVE k \in loaded'
            <4>1. k \in Key /\ signer = CertOf(k)
                BY <2>1, CertOfFacts DEF Key
            <4>2. QED BY <3>1, <3>2, <4>1, UnlocksAll
        <3>3. QED BY <1>1, <1>3, <1>4, <2>1, <3>1, <3>2 DEF Choosing
    <2>4. QED BY <2>2, <2>3
<1>12. CASE Seal \/ LibraryRefuses
    BY <1>12 DEF Seal, LibraryRefuses, Choosing
<1>13. CASE Fault
    <2>1. faults' # 0 /\ UNCHANGED <<pc, signer, queue, loaded>>
        BY <1>1, <1>13 DEF Fault
    <2>2. QED BY <1>3, <1>4, <2>1 DEF Choosing
<1>14. CASE UNCHANGED vars
    BY <1>3, <1>4, <1>14 DEF Choosing
<1>15. QED BY <1>5, <1>6, <1>7, <1>8, <1>9, <1>10, <1>11, <1>12, <1>13, <1>14
        DEF Next, Step, Finished

LEMMA SigningEnough == Typed /\ Choosing => AgentPreferred
<1> SUFFICES ASSUME Typed, Choosing, cmd.sign, faults = 0, pc \in {"unlock", "seal"}, agent.up,
                    NEW k \in ToSet(Candidates(signer)), AgentSigns(k), k \in agent.holds
             PROVE  FALSE
    BY DEF AgentPreferred
<1>1. signer \in Certs
    BY PickedFacts DEF Typed
<1>2. k \in ToSet(AgentQueue(signer))
    BY <1>1, AgentQueueFacts
<1>3. QED BY <1>2 DEF Choosing

LEMMA SignedStep == Typed /\ Choosing /\ SignedAsAsked /\ [Next]_vars => SignedAsAsked'
<1> SUFFICES ASSUME Typed, Choosing, SignedAsAsked, [Next]_vars PROVE SignedAsAsked'
    OBVIOUS
<1>1. cmd' = cmd
    BY Unchanging
<1>2. signer' = signer => Candidates(signer)' = Candidates(signer)
    BY Zenon DEF Candidates
<1>3. CASE UNCHANGED <<out, signer>>
    BY <1>1, <1>2, <1>3 DEF SignedAsAsked
<1>4. CASE out' = << >>
    <2>1. DOMAIN out' = {}
        BY <1>4
    <2>2. QED BY <2>1 DEF SignedAsAsked
<1>5. pc # "ok" => out = << >>
    BY DEF Typed, TypeOK
<1>6. CASE AgentSeal /\ out' # out
    <2>1. /\ pc = "agent" /\ out' = << Made(Head(queue)) >> /\ UNCHANGED signer
        BY <1>6 DEF AgentSeal, signing
    <2>2. DOMAIN out' = {1} /\ out'[1].by = Head(queue)
        BY <2>1 DEF Made
    <2>3. cmd.sign /\ signer \in Picked /\ signer \in Certs
        BY <2>1, PickedFacts DEF Typed
    <2>4. Head(queue) \in ToSet(queue)
        BY <2>1, HeadTailFacts DEF Typed, TypeOK
    <2>5. Head(queue) \in ToSet(Candidates(signer))
        BY <2>1, <2>3, <2>4, AgentQueueFacts DEF Choosing
    <2>6. QED BY <1>1, <1>2, <2>1, <2>2, <2>3, <2>5, PickedFacts DEF SignedAsAsked
<1>7. CASE Seal /\ out' # out
    <2>1. /\ pc = "seal" /\ UNCHANGED signer /\ (cmd.sign => Best[signer] \in loaded)
          /\ out' = << Made(IF cmd.sign THEN Best[signer] ELSE NoKey) >>
        BY <1>7 DEF Seal, signing
    <2>2. DOMAIN out' = {1} /\ out'[1].by = IF cmd.sign THEN Best[signer] ELSE NoKey
        BY <2>1 DEF Made
    <2>3. CASE cmd.sign
        <3>1. signer \in Picked /\ signer \in Certs
            BY <2>1, <2>3, PickedFacts DEF Typed
        <3>2. Best[signer] # NoKey
            BY <2>1, <2>3, SealAssumption DEF Typed, TypeOK
        <3>3. Best[signer] \in ToSet(Candidates(signer))
            BY <3>1, <3>2, CandidatesFacts
        <3>4. QED BY <1>1, <1>2, <2>1, <2>2, <2>3, <3>1, <3>3, PickedFacts DEF SignedAsAsked
    <2>4. CASE ~cmd.sign
        BY <1>1, <2>2, <2>4 DEF SignedAsAsked
    <2>5. QED BY <2>3, <2>4
<1>8. CASE out' = out /\ pc # "ok"
    BY <1>4, <1>5, <1>8
<1>9. QED BY <1>3, <1>6, <1>7, <1>8
        DEF Next, Step, Finished, Fault, Resolve, Resolved, Pick, Dial, HaveKey, AgentSeal, Unlock,
            Seal, LibraryRefuses, vars, signing, Ended

\* A step that gives up gives up for good reason.
LEMMA GivesUpRightly == Typed /\ Choosing /\ SignsIfItCan /\ [Next]_vars => SignsIfItCan'
<1> DEFINE Excuse == \/ cmd.encrypt /\ (cmd.specs = << >> \/ next <= Len(cmd.specs) \/ ~Encryptable)
                     \/ \E c \in Picked :
                           \/ Best[c] = NoKey \/ ~Readable(Best[c])
                           \/ cmd.form # "embedded" /\ ~Readable(Head(Keys[c]))
<1> SUFFICES ASSUME Typed, Choosing, SignsIfItCan, [Next]_vars PROVE SignsIfItCan'
    OBVIOUS
<1>1. cmd' = cmd /\ Picked' = Picked /\ \A k : Readable(k)' <=> Readable(k)
    BY Unchanging
<1>2. SignsIfItCan <=> (pc = "failed" /\ cmd.sign /\ ~refused /\ Cardinality(Picked) = 1 => Excuse)
    BY DEF SignsIfItCan
<1>3. UNCHANGED recipients => (Excuse' <=> Excuse)
    <2>1. UNCHANGED recipients => (Encryptable' <=> Encryptable)
        BY Zenon DEF Encryptable, recipients
    <2>2. QED BY <1>1, <2>1 DEF recipients
<1>4. UNCHANGED recipients =>
         (SignsIfItCan' <=> (pc' = "failed" /\ cmd.sign /\ ~refused' /\ Cardinality(Picked) = 1 => Excuse))
    <2>1. SignsIfItCan' <=> (pc' = "failed" /\ cmd'.sign /\ ~refused' /\ Cardinality(Picked') = 1 => Excuse')
        BY DEF SignsIfItCan
    <2> HIDE DEF Excuse
    <2>2. QED BY <1>1, <1>3, <2>1
<1>5. /\ (pc \in {"dial", "have", "agent", "unlock"} \/ (pc = "seal" /\ cmd.sign)
             => signer \in Picked /\ signer \in Certs)
      /\ cmd.sign \in BOOLEAN /\ cmd.encrypt \in BOOLEAN
    BY PickedFacts, CommandFacts DEF Typed
\* The keys of the signer that can be had from its files are loaded by then.
<1>6. ASSUME pc = "seal", cmd.sign, NEW k \in ToSet(Keys[signer]), k \notin loaded PROVE ~Readable(k)
    BY <1>6 DEF Choosing
<1>7. CASE UNCHANGED <<recipients, pc, refused>>
    BY <1>2, <1>4, <1>7
<1>8. CASE UNCHANGED recipients /\ (pc' # "failed" \/ refused' \/ ~cmd.sign \/ Cardinality(Picked) # 1)
    BY <1>4, <1>8
<1>9. CASE Resolve
    <2>1. CASE Cardinality(Matches[cmd.specs[next].query]) # 1
        <3>1. UNCHANGED recipients /\ next <= Len(cmd.specs) /\ cmd.encrypt \in BOOLEAN /\ pc = "resolve"
            BY <1>5, <1>9, <2>1 DEF Resolve
        <3>2. cmd.encrypt
            BY <3>1 DEF Typed
        <3>3. QED BY <1>4, <3>1, <3>2
    <2>2. CASE Cardinality(Matches[cmd.specs[next].query]) = 1
        <3>1. pc' # "failed"
            BY <1>9, <2>2 DEF Resolve
        <3>2. QED BY <3>1 DEF SignsIfItCan
    <2>3. QED BY <2>1, <2>2
<1>10. CASE Resolved \/ Dial \/ HaveKey
    BY <1>8, <1>10 DEF Resolved, Dial, HaveKey
<1>11. CASE Pick
    <2>1. Cardinality(Picked) = 1 => pc' # "failed"
        BY <1>11 DEF Pick
    <2>2. QED BY <1>8, <1>11, <2>1 DEF Pick
<1>12. CASE AgentSeal
    <2>1. UNCHANGED recipients /\ (pc' = "failed" => refused' \/ (cmd.encrypt /\ ~Encryptable))
        BY <1>12 DEF AgentSeal
    <2>2. QED BY <1>4, <2>1
<1>13. CASE Unlock
    <2>1. UNCHANGED recipients /\ (pc' = "failed" => UnlockFails(signer)) /\ pc = "unlock"
        BY <1>13 DEF Unlock
    <2>2. ASSUME UnlockFails(signer), Best[signer] # NoKey PROVE ~Readable(Best[signer])
        BY <1>5, <2>1, <2>2, BestFacts DEF UnlockFails, Readable
    <2>3. pc' = "failed" => Excuse
        BY <1>5, <2>1, <2>2
    <2>4. QED BY <1>4, <2>1, <2>3
<1>14. CASE Seal
    <2>1. UNCHANGED recipients /\ pc = "seal"
          /\ (pc' = "failed" => (cmd.encrypt /\ ~Encryptable) \/ (cmd.sign /\ Best[signer] \notin loaded))
        BY <1>14 DEF Seal
    <2>2. ASSUME cmd.sign, Best[signer] \notin loaded, Best[signer] # NoKey PROVE ~Readable(Best[signer])
        BY <1>5, <1>6, <2>1, <2>2, BestFacts
    <2>3. pc' = "failed" /\ cmd.sign => Excuse
        BY <1>5, <2>1, <2>2
    <2>4. QED BY <1>4, <2>1, <2>3
<1>15. CASE LibraryRefuses
    <2>1. UNCHANGED recipients /\ pc = "seal" /\ cmd.sign /\ cmd.form # "embedded"
          /\ Head(Keys[signer]) \notin loaded
        BY <1>15 DEF LibraryRefuses
    <2>2. Head(Keys[signer]) \in ToSet(Keys[signer])
        BY <1>5, <2>1, MailAssumption, HeadTailFacts
    <2>3. Excuse
        BY <1>5, <1>6, <2>1, <2>2
    <2>4. QED BY <1>4, <2>1, <2>3
<1>16. CASE Fault
    BY <1>7, <1>16 DEF Fault
<1>17. CASE UNCHANGED vars
    BY <1>7, <1>17 DEF vars
<1>18. QED BY <1>9, <1>10, <1>11, <1>12, <1>13, <1>14, <1>15, <1>16, <1>17 DEF Next, Step, Finished

-----------------------------------------------------------------------------
(* The inductive invariant, and what follows from it.                       *)

SealInv == Typed /\ Resolving /\ Choosing /\ SignedAsAsked /\ SignsIfItCan

LEMMA SealInvInit == Init => SealInv
<1> SUFFICES ASSUME Init PROVE SealInv
    OBVIOUS
<1>1. Choosing /\ SignedAsAsked
    BY DEF Init, Choosing, SignedAsAsked
<1>2. SignsIfItCan
    BY DEF Init, SignsIfItCan
<1>3. QED BY <1>1, <1>2, TypedInit, ResolvingInit DEF SealInv

LEMMA SealInvStep == SealInv /\ [Next]_vars => SealInv'
BY TypedStep, ResolvingStep, SigningStep, SignedStep, GivesUpRightly DEF SealInv

LEMMA Invariance == Spec => []SealInv
BY SealInvInit, SealInvStep, PTL DEF Spec

\* Every variable has its type; something is written if and only if the command
\* succeeds.
THEOREM TypeCorrect == Spec => []TypeOK
<1>1. SealInv => TypeOK
    BY DEF SealInv, Typed
<1>2. QED BY Invariance, <1>1, PTL

\* What is written has one packet for each certificate some -r or -R names, and
\* for no other; the last option that names it decides whether it is hidden:
\* whatever the options, their number and order.
THEOREM LastOptionWins == Spec => []LastSpecWins
<1>1. SealInv => LastSpecWins
    BY ResolvingEnough DEF SealInv
<1>2. QED BY Invariance, <1>1, PTL

\* What is written is signed if and only if the command says so, by a signing
\* key of a certificate the user named.
THEOREM SignsAsAsked == Spec => []SignedAsAsked
<1>1. SealInv => SignedAsAsked
    BY DEF SealInv
<1>2. QED BY Invariance, <1>1, PTL

\* Without faults, key files are opened only if the agent is not there or holds
\* none of the signing keys it could use.
THEOREM AgentIsPreferred == Spec => []AgentPreferred
<1>1. SealInv => AgentPreferred
    BY SigningEnough DEF SealInv
<1>2. QED BY Invariance, <1>1, PTL

\* A command with proper recipients and one signer is given up only for the
\* reasons SignsIfItCan lists, whatever goes wrong with the agent and its cards.
THEOREM SignsIfPossible == Spec => []SignsIfItCan
<1>1. SealInv => SignsIfItCan
    BY DEF SealInv
<1>2. QED BY Invariance, <1>1, PTL

\* Whoever reads what was written, and whatever becomes of it on its way, the
\* command behaves as Seal says: the specification with a reader implements the
\* one without.
THEOREM ReaderIsHarmless == TextSpec => Spec
<1>1. TextInit => Init
    BY DEF TextInit
<1>2. [TextNext]_allVars => [Next]_vars
    BY DEF TextNext, TextStep, AgentSignData, AgentClearSign, SignData, ClearSign, Signs, Carry,
           ReadData, VerifyClearSigned, allVars
<1>3. QED BY <1>1, <1>2, PTL DEF TextSpec, Spec

-----------------------------------------------------------------------------
(* The numbers of a signature, as they are written and read.                *)

LEMMA MaxIs ==
    ASSUME NEW n \in Nat, NEW s \in SUBSET (1..n), n \in s
    PROVE  Max(s) = n
<1>1. \A y \in s : y \in Nat /\ n >= y
    OBVIOUS
<1>2. \A x \in s : (\A y \in s : x >= y) => x = n
    BY <1>1
<1>3. Max(s) \in s /\ \A y \in s : Max(s) >= y
    BY <1>1 DEF Max
<1>4. QED BY <1>2, <1>3

\* Number's fold chooses a function by its recursive equation; there is one.
IsFold(f, bytes, n) ==
    f = [s \in SUBSET (1..n) |-> IF s = {} THEN 0 ELSE 256 * f[s \ {Max(s)}] + bytes[Max(s)]]

LEMMA FoldExists ==
    ASSUME NEW bytes, NEW N \in Nat
    PROVE  \E f : IsFold(f, bytes, N)
<1> DEFINE Nx(h, s) == IF s = {} THEN 0 ELSE 256 * h[s \ {Max(s)}] + bytes[Max(s)]
           Is(f, n) == f = [s \in SUBSET (1..n) |-> Nx(f, s)]
           S == {n \in Nat : \E f : Is(f, n)}
<1>1. 0 \in S
    <2> DEFINE z == [s \in SUBSET (1..0) |-> 0]
    <2>1. \A s \in SUBSET (1..0) : Nx(z, s) = 0
        OBVIOUS
    <2> HIDE DEF Nx
    <2>2. Is(z, 0)
        BY <2>1
    <2>3. QED BY <2>2
<1>2. \A n \in Nat : n \in S => n + 1 \in S
    <2> SUFFICES ASSUME NEW n \in Nat, NEW f, Is(f, n) PROVE \E g : Is(g, n + 1)
        <3> HIDE DEF Is
        <3>1. QED OBVIOUS
    <2>1. \A s \in SUBSET (1..n) : f[s] = Nx(f, s)
        <3> HIDE DEF Nx
        <3>1. QED OBVIOUS
    <2> DEFINE g == [s \in SUBSET (1..(n + 1)) |->
                        IF n + 1 \in s THEN 256 * f[s \ {n + 1}] + bytes[n + 1] ELSE f[s]]
    <2>2. \A s \in SUBSET (1..n) : s \in SUBSET (1..(n + 1)) /\ n + 1 \notin s
        OBVIOUS
    <2>3. \A s \in SUBSET (1..n) : g[s] = f[s]
        <3> HIDE <2>1
        <3>1. QED BY <2>2
    <2>4. \A s \in SUBSET (1..(n + 1)) : n + 1 \in s =>
             /\ s \ {n + 1} \in SUBSET (1..n) /\ s # {} /\ Max(s) = n + 1
             /\ g[s] = 256 * f[s \ {n + 1}] + bytes[n + 1]
        <3>1. \A s \in SUBSET (1..(n + 1)) : n + 1 \in s => Max(s) = n + 1
            BY MaxIs
        <3> HIDE <2>1
        <3>2. QED BY <3>1
    <2>5. \A s \in SUBSET (1..(n + 1)) : n + 1 \notin s => s \in SUBSET (1..n)
        OBVIOUS
    <2>6. g = [s \in SUBSET (1..(n + 1)) |-> g[s]]
        OBVIOUS
    <2> HIDE DEF g
    <2>7. ASSUME NEW s \in SUBSET (1..n) PROVE g[s] = Nx(g, s)
        <3>1. s \ {Max(s)} \in SUBSET (1..n)
            OBVIOUS
        <3>2. g[s \ {Max(s)}] = f[s \ {Max(s)}] /\ g[s] = f[s] /\ f[s] = Nx(f, s)
            BY <2>1, <2>3, <3>1
        <3>3. QED BY <3>2
    <2>8. ASSUME NEW s \in SUBSET (1..(n + 1)), n + 1 \in s PROVE g[s] = Nx(g, s)
        <3>1. g[s \ {n + 1}] = f[s \ {n + 1}]
            BY <2>3, <2>4, <2>8
        <3>2. /\ s # {} /\ Max(s) = n + 1 /\ g[s] = 256 * f[s \ {n + 1}] + bytes[n + 1]
            BY <2>4, <2>8, ZenonT(40)
        <3>3. QED BY <3>1, <3>2
    <2>9. \A s \in SUBSET (1..(n + 1)) : g[s] = Nx(g, s)
        BY <2>5, <2>7, <2>8
    <2>10. g = [s \in SUBSET (1..(n + 1)) |-> Nx(g, s)]
        <3> HIDE DEF Nx
        <3>1. [s \in SUBSET (1..(n + 1)) |-> g[s]] = [s \in SUBSET (1..(n + 1)) |-> Nx(g, s)]
            BY <2>9
        <3>2. QED BY <2>6, <3>1
    <2>11. QED BY <2>10, ZenonT(40)
<1> HIDE DEF S
<1>3. N \in S
    BY <1>1, <1>2, NatSetInduction
<1>4. QED BY <1>3 DEF S, IsFold

\* v[k] is the number the first k bytes make.
Values(v, bytes) ==
    v[0] = 0 /\ \A k \in 1..Len(bytes) : v[k] = 256 * v[k - 1] + bytes[k]

LEMMA NumberFacts ==
    ASSUME NEW bytes \in Seq(0..255)
    PROVE  \E v : Values(v, bytes) /\ Number(bytes) = v[Len(bytes)]
<1> DEFINE N == Len(bytes)
           F == CHOOSE f : f = [s \in SUBSET (1..N) |->
                               IF s = {} THEN 0 ELSE 256 * f[s \ {Max(s)}] + bytes[Max(s)]]
           G == CHOOSE f : IsFold(f, bytes, N)
<1>1. N \in Nat /\ DOMAIN bytes = 1..N
    BY LenProperties
<1>2. Number(bytes) = F[1..N]
    BY <1>1, Zenon DEF Number, FoldLeft, MapThenFoldSet
<1>3. IsFold(F, bytes, N)
    <2>1. \E f : IsFold(f, bytes, N)
        BY <1>1, FoldExists
    <2>2. IsFold(G, bytes, N)
        BY <2>1
    <2>3. G = F
        BY Zenon DEF IsFold
    <2> HIDE DEF F, G
    <2>4. QED BY <2>2, <2>3
<1> HIDE DEF F
<1>4. \A s \in SUBSET (1..N) : F[s] = IF s = {} THEN 0 ELSE 256 * F[s \ {Max(s)}] + bytes[Max(s)]
    BY <1>3 DEF IsFold
<1> HIDE DEF N
<1> DEFINE v == [k \in 0..N |-> F[1..k]]
<1>5. v[0] = 0 /\ v[N] = F[1..N]
    <2>1. 1..0 = {} /\ {} \in SUBSET (1..N)
        OBVIOUS
    <2>2. F[1..0] = 0
        BY <1>4, <2>1
    <2>3. QED BY <1>1, <2>2
<1>6. ASSUME NEW k \in 1..N PROVE v[k] = 256 * v[k - 1] + bytes[k]
    <2>1. 1..k \in SUBSET (1..N) /\ k \in Nat /\ k \in 1..k
        <3>1. k \in Nat /\ k \in 1..k /\ \A i \in 1..k : i \in 1..N
            BY <1>1
        <3>2. QED BY <3>1
    <2>0. (1..k) \ {k} = 1..(k - 1)
        <3>1. \A i : i \in 1..(k - 1) <=> i \in 1..k /\ i # k
            BY <1>1
        <3>2. QED BY <3>1
    <2>2. Max(1..k) = k
        BY <2>1, MaxIs
    <2>3. F[1..k] = 256 * F[1..(k - 1)] + bytes[k]
        BY <1>4, <2>0, <2>1, <2>2, ZenonT(40)
    <2>4. v[k] = F[1..k] /\ v[k - 1] = F[1..(k - 1)]
        BY <1>1
    <2>5. QED BY <2>3, <2>4
<1> HIDE DEF v
<1>7. Values(v, bytes) /\ Number(bytes) = v[Len(bytes)]
    BY <1>2, <1>5, <1>6 DEF Values, N
<1>8. QED BY <1>7

\* Zeros in front of a number do not change it.
LEMMA ZerosInFront ==
    ASSUME NEW bytes \in Seq(0..255), NEW from \in 1..(Len(bytes) + 1),
           \A i \in 1..(from - 1) : bytes[i] = 0,
           NEW rest \in Seq(0..255), Len(rest) = Len(bytes) - from + 1,
           \A j \in 1..Len(rest) : rest[j] = bytes[from - 1 + j]
    PROVE  Number(rest) = Number(bytes)
<1>1. Len(bytes) \in Nat /\ Len(rest) \in Nat
    BY LenProperties
<1>2. PICK v : Values(v, bytes) /\ Number(bytes) = v[Len(bytes)]
    BY NumberFacts
<1>3. PICK w : Values(w, rest) /\ Number(rest) = w[Len(rest)]
    BY NumberFacts
<1> DEFINE Z == {n \in Nat : n <= from - 1 => v[n] = 0}
           E == {n \in Nat : n <= Len(rest) => v[from - 1 + n] = w[n]}
<1>4. 0 \in Z
    BY <1>2 DEF Values
<1>5. \A n \in Nat : n \in Z => n + 1 \in Z
    <2> SUFFICES ASSUME NEW n \in Nat, n \in Z, n + 1 <= from - 1 PROVE v[n + 1] = 0
        OBVIOUS
    <2>1. n + 1 \in 1..Len(bytes) /\ n + 1 \in 1..(from - 1) /\ (n + 1) - 1 = n /\ n <= from - 1
        BY <1>1
    <2>2. v[n + 1] = 256 * v[n] + bytes[n + 1] /\ v[n] = 0 /\ bytes[n + 1] = 0
        BY <1>2, <2>1 DEF Values
    <2>3. QED BY <2>2
<1> HIDE DEF Z
<1>6. v[from - 1] = 0
    <2>1. Nat \subseteq Z
        BY <1>4, <1>5, NatSetInduction
    <2>2. from - 1 \in Nat
        BY <1>1
    <2>3. QED BY <2>1, <2>2 DEF Z
<1>7. 0 \in E
    <2>1. (from - 1) + 0 = from - 1
        BY <1>1
    <2>2. QED BY <1>3, <1>6, <2>1 DEF Values
<1>8. \A n \in Nat : n \in E => n + 1 \in E
    <2> SUFFICES ASSUME NEW n \in Nat, n \in E, n + 1 <= Len(rest)
                 PROVE  v[from - 1 + (n + 1)] = w[n + 1]
        OBVIOUS
    <2>1. /\ from - 1 + (n + 1) \in 1..Len(bytes) /\ (from - 1 + (n + 1)) - 1 = from - 1 + n
          /\ n + 1 \in 1..Len(rest) /\ (n + 1) - 1 = n /\ n <= Len(rest)
        BY <1>1
    <2>2. v[from - 1 + (n + 1)] = 256 * v[from - 1 + n] + bytes[from - 1 + (n + 1)]
        BY <1>2, <2>1 DEF Values
    <2>3. w[n + 1] = 256 * w[n] + rest[n + 1]
        BY <1>3, <2>1 DEF Values
    <2>4. rest[n + 1] = bytes[from - 1 + (n + 1)] /\ v[from - 1 + n] = w[n]
        BY <2>1
    <2>5. QED BY <2>2, <2>3, <2>4
<1> HIDE DEF E
<1>9. v[from - 1 + Len(rest)] = w[Len(rest)]
    <2>1. Nat \subseteq E
        BY <1>7, <1>8, NatSetInduction
    <2>2. Len(rest) \in E
        BY <1>1, <2>1
    <2>3. QED BY <1>1, <2>2 DEF E
<1>10. from - 1 + Len(rest) = Len(bytes)
    BY <1>1
<1>11. QED BY <1>2, <1>3, <1>9, <1>10
\* A byte has one to eight bits.
LEMMA BitLength == \A b \in 1..255 : \E k \in 1..8 : b \in 2^(k - 1)..(2^k - 1)
<1>1. /\ 2^0 = 1 /\ 2^1 = 2 /\ 2^2 = 4 /\ 2^3 = 8 /\ 2^4 = 16
      /\ 2^5 = 32 /\ 2^6 = 64 /\ 2^7 = 128 /\ 2^8 = 256
    OBVIOUS
<1>2. QED BY <1>1

\* A number as it is written: m, the length of what follows, in bits.
Written(w, m, rest, bytes) ==
    /\ w = << m >> \o rest /\ m \in Nat /\ rest \in Seq(0..255)
    /\ (m + 7) \div 8 = Len(rest) /\ Number(rest) = Number(bytes)

LEMMA MPIFacts ==
    ASSUME NEW bytes \in Seq(0..255)
    PROVE  \E m, rest : Written(MPI(bytes), m, rest, bytes)
<1> DEFINE N == Len(bytes)
           I == {i \in 1..N : bytes[i] # 0}
           from == SelectInSeq(bytes, LAMBDA b : b # 0)
           bits == CHOOSE k \in 1..8 : bytes[from] \in 2^(k - 1)..(2^k - 1)
<1>1. N \in Nat /\ \A i \in 1..N : bytes[i] \in 0..255
    <2>1. N \in Nat /\ bytes \in [1..N -> 0..255]
        BY LenProperties
    <2> HIDE DEF N
    <2>2. QED BY <2>1
<1>2. from = IF I # {} THEN Min(I) ELSE 0
    BY Zenon DEF SelectInSeq
<1>3. MPI(bytes) = IF from = 0 THEN <<0>> ELSE <<8 * (N - from) + bits>> \o SubSeq(bytes, from, N)
    BY Zenon DEF MPI
<1>4. CASE I = {}
    <2>1. from = 0 /\ MPI(bytes) = <<0>>
        BY <1>2, <1>3, <1>4
    <2>2. \A i \in 1..N : bytes[i] = 0
        BY <1>1, <1>4
    <2>3. << >> \in Seq(0..255) /\ Len(<< >>) = 0
        OBVIOUS
    <2> DEFINE rest == << >>
    <2>4. rest \in Seq(0..255) /\ Len(rest) = 0
        BY <2>3
    <2>5. MPI(bytes) = <<0>> \o rest /\ (0 + 7) \div 8 = 0
        <3>1. <<0>> \in Seq(Nat)
            OBVIOUS
        <3>2. <<0>> \o << >> = <<0>>
            BY <3>1, ConcatEmptySeq
        <3>3. QED BY <2>1, <3>2
    <2> HIDE DEF rest
    <2>6. Number(rest) = Number(bytes)
        <3>0. PICK f : f = N + 1
            OBVIOUS
        <3>1. f \in 1..(N + 1) /\ Len(rest) = N - f + 1 /\ \A i \in 1..(f - 1) : bytes[i] = 0
            BY <1>1, <2>2, <2>4, <3>0
        <3>2. \A j \in 1..Len(rest) : rest[j] = bytes[f - 1 + j]
            BY <2>4
        <3>3. f \in 1..(Len(bytes) + 1) /\ Len(rest) = Len(bytes) - f + 1
            BY <3>1
        <3> HIDE DEF N
        <3>4. /\ f \in 1..(Len(bytes) + 1) /\ \A i \in 1..(f - 1) : bytes[i] = 0
              /\ rest \in Seq(0..255) /\ Len(rest) = Len(bytes) - f + 1
              /\ \A j \in 1..Len(rest) : rest[j] = bytes[f - 1 + j]
            BY <2>4, <3>1, <3>2, <3>3
        <3>5. QED BY <3>4, ZerosInFront, ZenonT(60)
    <2>7. Written(MPI(bytes), 0, rest, bytes)
        BY <2>4, <2>5, <2>6 DEF Written
    <2>8. QED BY <2>7
<1>5. CASE I # {}
    <2>1. from \in 1..N /\ bytes[from] # 0 /\ \A i \in 1..(from - 1) : bytes[i] = 0
        <3>1. I \subseteq Nat
            BY <1>1
        <3>2. \E x \in I : \A y \in I : x <= y
            <4> HIDE DEF I
            <4>1. PICK x \in I : \A y \in I : ~(<<y, x>> \in OpToRel(<, Nat))
                BY <1>5, <3>1, NatLessThanWellFounded, WFMin
            <4>2. \A y \in I : ~(y < x)
                BY <3>1, <4>1 DEF OpToRel
            <4>3. QED BY <3>1, <4>2
        <3>3. Min(I) \in I /\ \A y \in I : Min(I) <= y
            <4> HIDE DEF I
            <4>1. QED BY <3>2 DEF Min
        <3>4. from = Min(I)
            BY <1>2, <1>5
        <3> HIDE DEF from
        <3>5. from \in I /\ from \in 1..N
            BY <3>3, <3>4
        <3>7. ASSUME NEW i \in 1..(from - 1) PROVE i \notin I /\ i \in 1..N
            <4>1. i \in 1..N /\ ~(from <= i)
                BY <1>1, <3>5
            <4> HIDE DEF I
            <4>2. QED BY <3>3, <3>4, <4>1
        <3>6. QED BY <1>1, <3>5, <3>7
    <2>2. bits \in 1..8
        <3>1. bytes[from] \in 1..255
            BY <1>1, <2>1
        <3> HIDE DEF from
        <3>2. \E k \in 1..8 : bytes[from] \in 2^(k - 1)..(2^k - 1)
            BY <3>1, BitLength
        <3>3. QED BY <3>2
    <2> DEFINE m == 8 * (N - from) + bits
               rest == SubSeq(bytes, from, N)
    <2> HIDE DEF from, bits
    <2>3. rest \in Seq(0..255) /\ Len(rest) = N - from + 1
          /\ \A j \in 1..Len(rest) : rest[j] = bytes[from - 1 + j]
        <3>1. from \in Int /\ N \in Int /\ from <= N /\ \A i \in from..N : bytes[i] \in 0..255
            BY <1>1, <2>1
        <3>2. /\ rest \in Seq(0..255) /\ Len(rest) = N - from + 1
              /\ \A j \in 1..(N - from + 1) : rest[j] = bytes[from + j - 1]
            BY <3>1, SubSeqProperties
        <3>3. \A j \in 1..(N - from + 1) : from + j - 1 = from - 1 + j
            BY <1>1, <2>1
        <3>4. QED BY <3>2, <3>3
    <2>4. m \in Nat /\ (m + 7) \div 8 = N - from + 1
        <3>1. N \in Nat /\ from \in 1..N /\ bits \in 1..8
            BY <1>1, <2>1, <2>2
        <3> HIDE DEF N
        <3>2. m + 7 >= 8 * (N - from + 1) /\ m + 7 < 8 * (N - from + 1) + 8 /\ m \in Nat
            BY <3>1
        <3>3. QED BY <3>1, <3>2
    <2>5. Number(rest) = Number(bytes)
        <3>1. from \in 1..(N + 1)
            BY <1>1, <2>1
        <3> HIDE DEF rest
        <3>2. QED BY <2>1, <2>3, <3>1, ZerosInFront
    <2>6. MPI(bytes) = <<m>> \o rest
        BY <1>3, <2>1
    <2> HIDE DEF m, rest
    <2>7. Written(MPI(bytes), m, rest, bytes)
        BY <2>3, <2>4, <2>5, <2>6 DEF Written
    <2>8. QED BY <2>7
<1>6. QED BY <1>4, <1>5

\* The k elements from the first to the last of these places.
Subrange(w, first, last, k) ==
    /\ SubSeq(w, first, last) \in Seq(Nat) /\ Len(SubSeq(w, first, last)) = k
    /\ \A j \in 1..k : SubSeq(w, first, last)[j] = w[first + j - 1]

LEMMA SubrangeFacts ==
    ASSUME NEW w \in Seq(Nat), NEW first \in 1..(Len(w) + 1), NEW last \in 1..Len(w),
           NEW k \in Nat, last - first + 1 = k
    PROVE  Subrange(w, first, last, k)
<1>1. Len(w) \in Nat /\ \A i \in 1..Len(w) : w[i] \in Nat
    BY LenProperties
<1>2. first \in Int /\ last \in Int /\ \A i \in first..last : i \in 1..Len(w)
    BY <1>1
<1>3. \A i \in first..last : w[i] \in Nat
    BY <1>1, <1>2
<1> DEFINE t == SubSeq(w, first, last)
<1>4. /\ t \in Seq(Nat) /\ Len(t) = IF first <= last THEN last - first + 1 ELSE 0
      /\ \A i \in 1..(last - first + 1) : t[i] = w[first + i - 1]
    BY <1>2, <1>3, SubSeqProperties
<1> HIDE DEF t
<1>5. Len(t) = k
    BY <1>1, <1>2, <1>4
<1>6. t \in Seq(Nat) /\ Len(t) = k /\ \A j \in 1..k : t[j] = w[first + j - 1]
    BY <1>4, <1>5
<1>7. QED BY <1>6 DEF Subrange, t

\* Two numbers, one after the other.
ReadsBack(w, r, s) ==
    \E a, b : ReadMPIs(w) = <<a, b>> /\ Number(a) = Number(r) /\ Number(b) = Number(s)

LEMMA NumbersReadBack ==
    ASSUME NEW r \in Seq(0..255), NEW s \in Seq(0..255), NEW w, w = MPI(r) \o MPI(s)
    PROVE  ReadsBack(w, r, s)
<1>1. PICK m, a : Written(MPI(r), m, a, r)
    BY MPIFacts
<1>2. PICK n, b : Written(MPI(s), n, b, s)
    BY MPIFacts
<1> DEFINE K == Len(a)
           L == Len(b)
           u == <<m>> \o a
           v == <<n>> \o b
<1>3. /\ a \in Seq(Nat) /\ b \in Seq(Nat) /\ K \in Nat /\ L \in Nat
      /\ m \in Nat /\ n \in Nat /\ <<m>> \in Seq(Nat) /\ <<n>> \in Seq(Nat)
      /\ Len(<<m>>) = 1 /\ Len(<<n>>) = 1
    <2>1. a \in Seq(0..255) /\ b \in Seq(0..255) /\ m \in Nat /\ n \in Nat
        BY <1>1, <1>2 DEF Written
    <2>2. a \in Seq(Nat) /\ b \in Seq(Nat)
        <3>1. Seq(0..255) \subseteq Seq(Nat)
            BY 0..255 \subseteq Nat, SeqMonotonic
        <3>2. QED BY <2>1, <3>1
    <2>3. K \in Nat /\ L \in Nat
        BY <2>2, LenProperties
    <2>4. /\ <<m>> \in Seq(Nat) /\ <<n>> \in Seq(Nat) /\ Len(<<m>>) = 1 /\ Len(<<n>>) = 1
        BY <2>1
    <2>5. QED BY <2>1, <2>2, <2>3, <2>4
<1>4. /\ u \in Seq(Nat) /\ Len(u) = K + 1 /\ u[1] = m /\ \A j \in 1..K : u[j + 1] = a[j]
    BY <1>3, ConcatProperties
<1>5. /\ v \in Seq(Nat) /\ Len(v) = L + 1 /\ v[1] = n /\ \A j \in 1..L : v[j + 1] = b[j]
    BY <1>3, ConcatProperties
<1>6. w = u \o v
    BY <1>1, <1>2 DEF Written
<1> HIDE DEF u, v
<1>7. /\ w \in Seq(Nat) /\ Len(w) = K + L + 2
      /\ w[1] = m /\ w[K + 2] = n
      /\ \A j \in 1..K : w[j + 1] = a[j]
      /\ \A j \in 1..L : w[K + 2 + j] = b[j]
    <2>1. /\ w \in Seq(Nat) /\ Len(w) = Len(u) + Len(v)
          /\ \A i \in 1..(Len(u) + Len(v)) : w[i] = IF i <= Len(u) THEN u[i] ELSE v[i - Len(u)]
        <3>1. u \in Seq(Nat) /\ v \in Seq(Nat)
            BY <1>4, <1>5
        <3>2. QED BY <1>6, <3>1, ConcatProperties, SMTT(60)
    <2> HIDE DEF K, L
    <2>0. K \in Nat /\ L \in Nat /\ Len(u) = K + 1 /\ Len(v) = L + 1
        BY <1>3, <1>4, <1>5
    <2>7. \A i \in 1..(K + L + 2) : w[i] = IF i <= K + 1 THEN u[i] ELSE v[i - (K + 1)]
        BY <2>0, <2>1
    <2>2. Len(w) = K + L + 2
        BY <2>0, <2>1
    <2>3. w[1] = m /\ w[K + 2] = n
        <3>1. /\ 1 \in 1..(K + L + 2) /\ 1 <= K + 1
              /\ K + 2 \in 1..(K + L + 2) /\ ~(K + 2 <= K + 1) /\ (K + 2) - (K + 1) = 1
            BY <2>0
        <3>2. QED BY <1>4, <1>5, <2>7, <3>1
    <2>4. \A j \in 1..K : w[j + 1] = a[j]
        <3>1. \A j \in 1..K : j + 1 \in 1..(K + L + 2) /\ j + 1 <= K + 1
            BY <2>0
        <3>2. QED BY <1>4, <2>7, <3>1
    <2>5. \A j \in 1..L : w[K + 2 + j] = b[j]
        <3> SUFFICES ASSUME NEW j \in 1..L PROVE w[K + 2 + j] = b[j]
            OBVIOUS
        <3>1. /\ K + 2 + j \in 1..(K + L + 2) /\ ~(K + 2 + j <= K + 1)
              /\ (K + 2 + j) - (K + 1) = j + 1
            BY <2>0
        <3>2. QED BY <1>5, <2>7, <3>1
    <2>6. QED BY <2>1, <2>2, <2>3, <2>4, <2>5
<1>8. (m + 7) \div 8 = K /\ (n + 7) \div 8 = L /\ Number(a) = Number(r) /\ Number(b) = Number(s)
    BY <1>1, <1>2 DEF Written
<1>9. SubSeq(w, 2, K + 1) = a
    <2>1. Subrange(w, 2, K + 1, K)
        <3>1. 2 \in 1..(Len(w) + 1) /\ K + 1 \in 1..Len(w) /\ (K + 1) - 2 + 1 = K
            BY <1>3, <1>7
        <3>2. QED BY <1>3, <1>7, <3>1, SubrangeFacts
    <2> DEFINE t == SubSeq(w, 2, K + 1)
    <2>2. t \in Seq(Nat) /\ Len(t) = K /\ \A j \in 1..K : t[j] = w[2 + j - 1]
        BY <2>1 DEF Subrange
    <2> HIDE DEF t
    <2>3. \A j \in 1..K : 2 + j - 1 = j + 1
        OBVIOUS
    <2>4. \A j \in 1..K : t[j] = a[j]
        BY <1>7, <2>1, <2>2, <2>3
    <2>5. t = a
        BY <1>3, <2>2, <2>4, SeqEqual
    <2>6. QED BY <2>5 DEF t
<1>10. SubSeq(w, K + 3, K + 2 + L) = b
    <2>1. Subrange(w, K + 3, K + 2 + L, L)
        <3>1. K + 3 \in 1..(Len(w) + 1) /\ K + 2 + L \in 1..Len(w) /\ (K + 2 + L) - (K + 3) + 1 = L
            BY <1>3, <1>7
        <3>2. QED BY <1>3, <1>7, <3>1, SubrangeFacts
    <2> DEFINE t == SubSeq(w, K + 3, K + 2 + L)
    <2>2. t \in Seq(Nat) /\ Len(t) = L /\ \A j \in 1..L : t[j] = w[K + 3 + j - 1]
        BY <2>1 DEF Subrange
    <2> HIDE DEF t
    <2>3. \A j \in 1..L : K + 3 + j - 1 = K + 2 + j
        BY <1>3
    <2>4. \A j \in 1..L : t[j] = b[j]
        BY <1>7, <2>1, <2>2, <2>3
    <2>5. t = b
        BY <1>3, <2>2, <2>4, SeqEqual
    <2>6. QED BY <2>5 DEF t
<1> DEFINE Bytes(i) == (w[i] + 7) \div 8
           second   == 2 + Bytes(1)
<1>11. Bytes(1) = K /\ second = K + 2 /\ Bytes(second) = L
    <2>1. Bytes(1) = K
        BY <1>7, <1>8
    <2>2. second = K + 2
        <3> HIDE DEF Bytes, K
        <3>1. K \in Nat /\ Bytes(1) = K
            BY <1>3, <2>1
        <3>2. QED BY <3>1
    <2> HIDE DEF second
    <2>3. Bytes(second) = L
        BY <1>7, <1>8, <2>2
    <2>4. QED BY <2>1, <2>2, <2>3
<1>12. ReadMPIs(w) = IF second > Len(w) \/ second + Bytes(second) > Len(w) THEN << >>
                     ELSE << SubSeq(w, 2, second - 1), SubSeq(w, second + 1, second + Bytes(second)) >>
    BY Zenon DEF ReadMPIs
<1> HIDE DEF Bytes, second
<1>13. /\ ~(second > Len(w)) /\ ~(second + Bytes(second) > Len(w))
       /\ second - 1 = K + 1 /\ second + 1 = K + 3 /\ second + Bytes(second) = K + 2 + L
    <2> DEFINE B == Bytes(second)
    <2>1. K \in Nat /\ L \in Nat /\ Len(w) = K + L + 2 /\ second = K + 2 /\ B = L
        BY <1>3, <1>7, <1>11
    <2> HIDE DEF K, L, B
    <2>2. /\ ~(second > Len(w)) /\ ~(second + B > Len(w))
          /\ second - 1 = K + 1 /\ second + 1 = K + 3 /\ second + B = K + 2 + L
        BY <2>1
    <2>3. QED BY <2>2 DEF B
<1>14. ReadMPIs(w) = <<a, b>>
    BY <1>9, <1>10, <1>12, <1>13
<1>15. QED BY <1>8, <1>14 DEF ReadsBack

-----------------------------------------------------------------------------
(* Lines.                                                                   *)

\* One line of a text may differ from the other's in its end.
LineFacts(s, t) ==
    /\ s \in Seq(Line) /\ Len(s) = Len(t) /\ DOMAIN s = 1..Len(t)
    /\ \A i \in 1..Len(t) : s[i].word = t[i].word

LEMMA LineFields ==
    /\ \A x \in Line : /\ x.head \in {"", "- "} /\ x.word \in Words /\ x.blank \in BOOLEAN /\ x.cr \in BOOLEAN
                       /\ x = [head |-> x.head, word |-> x.word, blank |-> x.blank, cr |-> x.cr]
    /\ \A x, y \in Line : x.head = y.head /\ x.word = y.word /\ x.blank = y.blank /\ x.cr = y.cr => x = y
<1>1. ASSUME NEW x \in Line
      PROVE  /\ x.head \in {"", "- "} /\ x.word \in Words /\ x.blank \in BOOLEAN /\ x.cr \in BOOLEAN
             /\ x = [head |-> x.head, word |-> x.word, blank |-> x.blank, cr |-> x.cr]
    <2>1. x.head \in {"", "- "} /\ x.word \in Words /\ x.blank \in BOOLEAN /\ x.cr \in BOOLEAN
        BY DEF Line
    <2>2. x = [head |-> x.head, word |-> x.word, blank |-> x.blank, cr |-> x.cr]
        BY DEF Line
    <2>3. QED BY <2>1, <2>2
<1>2. ASSUME NEW x \in Line, NEW y \in Line,
             x.head = y.head, x.word = y.word, x.blank = y.blank, x.cr = y.cr
      PROVE  x = y
    <2>1. /\ x = [head |-> x.head, word |-> x.word, blank |-> x.blank, cr |-> x.cr]
          /\ y = [head |-> y.head, word |-> y.word, blank |-> y.blank, cr |-> y.cr]
        BY <1>1
    <2>2. QED BY <1>2, <2>1, Zenon
<1>3. QED BY <1>1, <1>2

LEMMA SameInterval ==
    ASSUME NEW m \in Nat, NEW n \in Nat, 1..m = 1..n
    PROVE  m = n
<1>1. m > n => m \in 1..m /\ m \notin 1..n
    OBVIOUS
<1>2. n > m => n \in 1..n /\ n \notin 1..m
    OBVIOUS
<1>3. QED BY <1>1, <1>2

\* s is t with its ends set.
EndedAs(s, t, e) ==
    /\ LineFacts(s, t)
    /\ \A i \in 1..Len(t) : /\ s[i].head = t[i].head /\ s[i].blank = t[i].blank
                            /\ e => s[i].cr = (i < Len(t))
                            /\ ~e => s[i].cr = FALSE

LEMMA EndingsFacts ==
    ASSUME NEW t \in Seq(Line), NEW e \in BOOLEAN, NEW s, s = Endings(t, e)
    PROVE  EndedAs(s, t, e)
<1>1. Len(t) \in Nat /\ DOMAIN t = 1..Len(t) /\ \A i \in 1..Len(t) : t[i] \in Line
    BY LenProperties
<1>2. DOMAIN s = 1..Len(t) /\ \A i \in 1..Len(t) : s[i] = [t[i] EXCEPT !.cr = e /\ i < Len(t)]
    BY <1>1 DEF Endings
<1>5. ASSUME NEW i \in 1..Len(t)
      PROVE  /\ s[i] \in Line /\ s[i].head = t[i].head /\ s[i].word = t[i].word
             /\ s[i].blank = t[i].blank /\ (e => s[i].cr = (i < Len(t)))
             /\ ~e => s[i].cr = FALSE
    <2>1. PICK b \in BOOLEAN : b = (e /\ i < Len(t))
        OBVIOUS
    <2>2. t[i] \in Line /\ s[i] = [t[i] EXCEPT !.cr = b]
        BY <1>1, <1>2, <2>1
    <2>3. /\ s[i] \in Line /\ s[i].head = t[i].head /\ s[i].word = t[i].word
          /\ s[i].blank = t[i].blank /\ s[i].cr = b
        BY <2>2 DEF Line
    <2>4. QED BY <2>1, <2>3
<1>6. s = [i \in 1..Len(t) |-> s[i]]
    BY <1>1, Zenon DEF Endings
<1>7. s \in [1..Len(t) -> Line]
    BY <1>5, <1>6
<1>8. s \in Seq(Line) /\ Len(s) = Len(t)
    <2>1. s \in Seq(Line)
        BY <1>1, <1>7, SeqDef
    <2>2. Len(s) \in Nat /\ DOMAIN s = 1..Len(s)
        BY <2>1, LenProperties
    <2>3. Len(s) = Len(t)
        BY <1>1, <1>2, <2>2, SameInterval
    <2>4. QED BY <2>1, <2>3
<1>9. QED BY <1>2, <1>5, <1>8 DEF LineFacts, EndedAs

LEMMA AppendLine ==
    ASSUME NEW t \in Seq(Line), NEW e \in Line, NEW w, w = Append(t, e)
    PROVE  w \in Seq(Line) /\ Len(w) = Len(t) + 1 /\ w[Len(t) + 1] = e /\ \A i \in 1..Len(t) : w[i] = t[i]
BY AppendProperties

\* A line put in the place of another one.
LEMMA LineReplaced ==
    ASSUME NEW b \in Seq(Line), NEW k \in 1..Len(b), NEW l \in Line, l.head = b[k].head,
           NEW s, s = [b EXCEPT ![k] = l]
    PROVE  s \in Seq(Line) /\ Len(s) = Len(b) /\ \A i \in 1..Len(b) : s[i].head = b[i].head
<1>1. Len(b) \in Nat /\ DOMAIN b = 1..Len(b) /\ b \in [1..Len(b) -> Line]
    BY LenProperties
<1>2. s \in [1..Len(b) -> Line] /\ \A i \in 1..Len(b) : s[i] = IF i = k THEN l ELSE b[i]
    BY <1>1
<1>3. s \in Seq(Line) /\ DOMAIN s = 1..Len(b)
    BY <1>1, <1>2, SeqDef
<1>4. Len(s) \in Nat /\ DOMAIN s = 1..Len(s)
    BY <1>3, LenProperties
<1>5. Len(s) = Len(b)
    BY <1>1, <1>3, <1>4, SameInterval
<1>6. QED BY <1>2, <1>3, <1>5

\* Carriage returns everywhere.
LEMMA CRLFFacts ==
    ASSUME NEW t \in Seq(Line), NEW s, s = Endings(t, TRUE)
    PROVE  /\ LineFacts(s, t)
           /\ \A i \in 1..Len(t) : /\ s[i].head = t[i].head /\ s[i].blank = t[i].blank
                                   /\ s[i].cr = (i < Len(t))
<1>1. PICK e \in BOOLEAN : e = TRUE
    OBVIOUS
<1>2. s = Endings(t, e)
    BY <1>1, Zenon
<1>3. EndedAs(s, t, e)
    BY <1>2, EndingsFacts, Zenon
<1>4. QED BY <1>1, <1>3 DEF EndedAs

\* And nowhere.
LEMMA LFFacts ==
    ASSUME NEW t \in Seq(Line), NEW s, s = Endings(t, FALSE)
    PROVE  /\ LineFacts(s, t)
           /\ \A i \in 1..Len(t) : /\ s[i].head = t[i].head /\ s[i].blank = t[i].blank
                                   /\ s[i].cr = FALSE
<1>1. PICK e \in BOOLEAN : e = FALSE
    OBVIOUS
<1>2. s = Endings(t, e)
    BY <1>1, Zenon
<1>3. EndedAs(s, t, e)
    BY <1>2, EndingsFacts, Zenon
<1>4. QED BY <1>1, <1>3 DEF EndedAs

LEMMA TrimmedFacts ==
    ASSUME NEW t \in Seq(Line), NEW s, s = Trimmed(t)
    PROVE  /\ LineFacts(s, t)
           /\ \A i \in 1..Len(t) : s[i].head = t[i].head /\ s[i].blank = FALSE
<1>1. Len(t) \in Nat /\ DOMAIN t = 1..Len(t) /\ \A i \in 1..Len(t) : t[i] \in Line
    BY LenProperties
<1>2. DOMAIN s = 1..Len(t) /\ \A i \in 1..Len(t) : s[i] = [t[i] EXCEPT !.blank = FALSE]
    BY <1>1 DEF Trimmed
<1>4. ASSUME NEW i \in 1..Len(t)
      PROVE  /\ s[i] \in Line /\ s[i].head = t[i].head /\ s[i].word = t[i].word
             /\ s[i].blank = FALSE
    <2>1. t[i] \in Line /\ s[i] = [t[i] EXCEPT !.blank = FALSE]
        BY <1>1, <1>2
    <2>2. QED BY <2>1 DEF Line
<1>5. s = [i \in 1..Len(t) |-> s[i]]
    BY <1>1, Zenon DEF Trimmed
<1>6. s \in [1..Len(t) -> Line]
    BY <1>4, <1>5
<1>7. s \in Seq(Line) /\ Len(s) = Len(t)
    <2>1. s \in Seq(Line)
        BY <1>1, <1>6, SeqDef
    <2>2. Len(s) \in Nat /\ DOMAIN s = 1..Len(s)
        BY <2>1, LenProperties
    <2>3. Len(s) = Len(t)
        BY <1>1, <1>2, <2>2, SameInterval
    <2>4. QED BY <2>1, <2>3
<1>8. QED BY <1>2, <1>4, <1>7 DEF LineFacts

LEMMA UnescapedFacts ==
    ASSUME NEW t \in Seq(Line), NEW s, s = Unescaped(t)
    PROVE  /\ LineFacts(s, t)
           /\ \A i \in 1..Len(t) : s[i].head = "" /\ s[i].blank = FALSE
<1>1. Len(t) \in Nat /\ DOMAIN t = 1..Len(t) /\ \A i \in 1..Len(t) : t[i] \in Line
    BY LenProperties
<1>2. DOMAIN s = 1..Len(t) /\ \A i \in 1..Len(t) : s[i] = [t[i] EXCEPT !.head = "", !.blank = FALSE]
    BY <1>1 DEF Unescaped
<1>4. ASSUME NEW i \in 1..Len(t)
      PROVE  /\ s[i] \in Line /\ s[i].head = "" /\ s[i].word = t[i].word
             /\ s[i].blank = FALSE
    <2>1. t[i] \in Line /\ s[i] = [t[i] EXCEPT !.head = "", !.blank = FALSE]
        BY <1>1, <1>2
    <2>2. QED BY <2>1 DEF Line
<1>5. s = [i \in 1..Len(t) |-> s[i]]
    BY <1>1, Zenon DEF Unescaped
<1>6. s \in [1..Len(t) -> Line]
    BY <1>4, <1>5
<1>7. s \in Seq(Line) /\ Len(s) = Len(t)
    <2>1. s \in Seq(Line)
        BY <1>1, <1>6, SeqDef
    <2>2. Len(s) \in Nat /\ DOMAIN s = 1..Len(s)
        BY <2>1, LenProperties
    <2>3. Len(s) = Len(t)
        BY <1>1, <1>2, <2>2, SameInterval
    <2>4. QED BY <2>1, <2>3
<1>8. QED BY <1>2, <1>4, <1>7 DEF LineFacts

\* Two texts say the same if they have the same heads and words.
LEMMA SaysFacts ==
    ASSUME NEW s \in Seq(Line), NEW t \in Seq(Line)
    PROVE  Says(s) = Says(t) <=> /\ Len(s) = Len(t)
                                 /\ \A i \in 1..Len(t) : s[i].head = t[i].head /\ s[i].word = t[i].word
<1>1. /\ Len(s) \in Nat /\ DOMAIN s = 1..Len(s) /\ Len(t) \in Nat /\ DOMAIN t = 1..Len(t)
    BY LenProperties
<1>2. /\ Says(s) = [i \in 1..Len(s) |-> <<s[i].head, s[i].word>>]
      /\ Says(t) = [i \in 1..Len(t) |-> <<t[i].head, t[i].word>>]
    BY <1>1, Zenon DEF Says
<1>3. 1..Len(s) = 1..Len(t) => Len(s) = Len(t)
    BY <1>1, SameInterval
<1>4. ASSUME Says(s) = Says(t) PROVE Len(s) = Len(t)
    <2>1. DOMAIN Says(s) = 1..Len(s) /\ DOMAIN Says(t) = 1..Len(t)
        BY <1>2
    <2>2. QED BY <1>3, <1>4, <2>1
<1>5. ASSUME Says(s) = Says(t), NEW i \in 1..Len(t)
      PROVE  s[i].head = t[i].head /\ s[i].word = t[i].word
    <2>1. Says(s)[i] = <<s[i].head, s[i].word>> /\ Says(t)[i] = <<t[i].head, t[i].word>>
        BY <1>2, <1>4, <1>5
    <2>2. <<s[i].head, s[i].word>> = <<t[i].head, t[i].word>>
        BY <1>5, <2>1
    <2>3. QED BY <2>2
<1>6. ASSUME Len(s) = Len(t), \A i \in 1..Len(t) : s[i].head = t[i].head /\ s[i].word = t[i].word
      PROVE  Says(s) = Says(t)
    BY <1>2, <1>6
<1>7. QED BY <1>4, <1>5, <1>6

\* What is carried keeps its lines and what they begin with.
Carried(b, text) ==
    b \in Seq(Line) /\ Len(b) = Len(text) /\ \A i \in 1..Len(text) : b[i].head = text[i].head

\* The text that a reader of cleartext hashes.
LEMMA ReadTextFacts ==
    ASSUME NEW b \in Seq(Line), NEW x, x = Endings(Unescaped(b), TRUE)
    PROVE  /\ LineFacts(x, b)
           /\ \A i \in 1..Len(b) : x[i].head = "" /\ x[i].blank = FALSE /\ x[i].cr = (i < Len(b))
<1>1. PICK u : u = Unescaped(b)
    OBVIOUS
<1>2. /\ LineFacts(u, b) /\ \A i \in 1..Len(b) : u[i].head = "" /\ u[i].blank = FALSE
    BY <1>1, UnescapedFacts
<1>3. u \in Seq(Line) /\ Len(u) = Len(b)
    BY <1>2 DEF LineFacts
<1>4. /\ LineFacts(x, u)
      /\ \A i \in 1..Len(u) : /\ x[i].head = u[i].head /\ x[i].blank = u[i].blank
                              /\ x[i].cr = (i < Len(u))
    BY <1>1, <1>3, CRLFFacts
<1>5. QED BY <1>2, <1>3, <1>4 DEF LineFacts

LEMMA HashedAgain ==
    ASSUME NEW t \in Seq(Line)
    PROVE  Endings(Endings(t, TRUE), TRUE) = Endings(t, TRUE)
<1>1. PICK x : x = Endings(t, TRUE)
    OBVIOUS
<1>2. /\ LineFacts(x, t)
      /\ \A i \in 1..Len(t) : /\ x[i].head = t[i].head /\ x[i].blank = t[i].blank
                              /\ x[i].cr = (i < Len(t))
    BY <1>1, CRLFFacts
<1>3. x \in Seq(Line) /\ Len(x) = Len(t)
    BY <1>2 DEF LineFacts
<1>4. PICK y : y = Endings(x, TRUE)
    OBVIOUS
<1>5. /\ LineFacts(y, x)
      /\ \A i \in 1..Len(x) : /\ y[i].head = x[i].head /\ y[i].blank = x[i].blank
                              /\ y[i].cr = (i < Len(x))
    BY <1>3, <1>4, CRLFFacts
<1>6. y \in Seq(Line) /\ Len(y) = Len(x) /\ Len(x) \in Nat
    BY <1>3, <1>5, LenProperties DEF LineFacts
<1>7. \A i \in 1..Len(x) : y[i] \in Line /\ x[i] \in Line
    BY <1>3, <1>6, LenProperties
<1>8. ASSUME NEW i \in 1..Len(x) PROVE y[i] = x[i]
    <2>1. y[i].head = x[i].head /\ y[i].word = x[i].word /\ y[i].blank = x[i].blank /\ y[i].cr = x[i].cr
        BY <1>2, <1>3, <1>5 DEF LineFacts
    <2>2. QED BY <1>7, <2>1, LineFields
<1>9. y = x
    BY <1>3, <1>6, <1>8, SeqEqual
<1>10. QED BY <1>1, <1>4, <1>9

\* A text hashed with its line ends.
SignedLines(text) == Endings(LineEnds(text), TRUE)

LEMMA SignedLinesFacts ==
    ASSUME NEW t \in Seq(Line), trims \in BOOLEAN, NEW d, d = SignedLines(t)
    PROVE  /\ LineFacts(d, t)
           /\ \A i \in 1..Len(t) : /\ d[i].head = t[i].head /\ d[i].cr = (i < Len(t))
                                   /\ d[i].blank = (~trims /\ t[i].blank)
<1>1. PICK u : u = LineEnds(t)
    OBVIOUS
<1>2. /\ LineFacts(u, t) /\ \A i \in 1..Len(t) : u[i].head = t[i].head /\ u[i].blank = (~trims /\ t[i].blank)
    <2>1. CASE trims
        BY <1>1, <2>1, TrimmedFacts DEF LineEnds
    <2>2. CASE ~trims
        <3>1. u = t /\ Len(t) \in Nat /\ DOMAIN t = 1..Len(t) /\ \A i \in 1..Len(t) : t[i] \in Line
            BY <1>1, <2>2, LenProperties DEF LineEnds
        <3>2. \A i \in 1..Len(t) : t[i].blank \in BOOLEAN
            BY <3>1, LineFields
        <3>3. QED BY <2>2, <3>1, <3>2 DEF LineFacts
    <2>3. QED BY <2>1, <2>2
<1>3. u \in Seq(Line) /\ Len(u) = Len(t)
    BY <1>2 DEF LineFacts
<1>4. /\ LineFacts(d, u)
      /\ \A i \in 1..Len(u) : /\ d[i].head = u[i].head /\ d[i].blank = u[i].blank
                              /\ d[i].cr = (i < Len(u))
    BY <1>1, <1>3, CRLFFacts DEF SignedLines
<1>5. QED BY <1>2, <1>3, <1>4 DEF LineFacts

\* A clearsigned text hashes as it did exactly if it should.
LEMMA ClearDigest ==
    ASSUME NEW t \in Seq(Line), NEW b, Carried(b, t), trims \in BOOLEAN
    PROVE  Endings(Endings(Unescaped(b), TRUE), TRUE) = SignedLines(t)
             <=> Plain(t) /\ Says(b) = Says(t) /\ (trims \/ NoBlanks(t))
<1>1. b \in Seq(Line) /\ Len(b) = Len(t) /\ Len(t) \in Nat /\ DOMAIN t = 1..Len(t)
      /\ \A i \in 1..Len(t) : b[i].head = t[i].head
    BY LenProperties DEF Carried
<1>2. PICK x : x = Endings(Unescaped(b), TRUE)
    OBVIOUS
<1>3. /\ LineFacts(x, b)
      /\ \A i \in 1..Len(b) : x[i].head = "" /\ x[i].blank = FALSE /\ x[i].cr = (i < Len(b))
    BY <1>1, <1>2, ReadTextFacts
<1>4. Endings(x, TRUE) = x
    <2>1. PICK u : u = Unescaped(b)
        OBVIOUS
    <2>2. u \in Seq(Line)
        BY <1>1, <2>1, UnescapedFacts DEF LineFacts
    <2>3. QED BY <1>2, <2>1, <2>2, HashedAgain
<1>5. PICK d : d = SignedLines(t)
    OBVIOUS
<1>6. /\ LineFacts(d, t)
      /\ \A i \in 1..Len(t) : /\ d[i].head = t[i].head /\ d[i].cr = (i < Len(t))
                              /\ d[i].blank = (~trims /\ t[i].blank)
    BY <1>5, SignedLinesFacts
<1>7. /\ x \in Seq(Line) /\ d \in Seq(Line) /\ Len(x) = Len(t) /\ Len(d) = Len(t)
      /\ \A i \in 1..Len(t) : x[i].word = b[i].word /\ d[i].word = t[i].word
    BY <1>1, <1>3, <1>6 DEF LineFacts
<1>8. /\ \A i \in 1..Len(t) : x[i] \in Line /\ d[i] \in Line /\ t[i] \in Line
    BY <1>7, LenProperties
<1>9. Says(b) = Says(t) <=> \A i \in 1..Len(t) : b[i].word = t[i].word
    BY <1>1, SaysFacts
<1>10. /\ Plain(t) <=> \A i \in 1..Len(t) : t[i].head = ""
       /\ NoBlanks(t) <=> \A i \in 1..Len(t) : ~t[i].blank
    BY <1>1 DEF Plain, NoBlanks
<1>11. ASSUME x = d PROVE Plain(t) /\ Says(b) = Says(t) /\ (trims \/ NoBlanks(t))
    <2>1. \A i \in 1..Len(t) : t[i].head = "" /\ b[i].word = t[i].word
        BY <1>1, <1>3, <1>6, <1>7, <1>11
    <2>2. \A i \in 1..Len(t) : ~(~trims /\ t[i].blank)
        BY <1>1, <1>3, <1>6, <1>11
    <2>3. QED BY <1>9, <1>10, <2>1, <2>2
<1>12. ASSUME Plain(t), Says(b) = Says(t), trims \/ NoBlanks(t) PROVE x = d
    <2>1. ASSUME NEW i \in 1..Len(t) PROVE x[i] = d[i]
        <3>1. x[i].head = "" /\ d[i].head = ""
            BY <1>1, <1>3, <1>6, <1>10, <1>12
        <3>2. x[i].word = d[i].word
            BY <1>7, <1>9, <1>12
        <3>3. x[i].blank = FALSE /\ d[i].blank = FALSE
            BY <1>1, <1>3, <1>6, <1>10, <1>12
        <3>4. x[i].cr = d[i].cr
            BY <1>1, <1>3, <1>6
        <3>5. x[i] \in Line /\ d[i] \in Line /\ x[i].head = d[i].head /\ x[i].blank = d[i].blank
            BY <1>8, <3>1, <3>3
        <3>6. QED BY <3>2, <3>4, <3>5, LineFields
    <2>2. QED BY <1>7, <2>1, SeqEqual
<1>13. QED BY <1>2, <1>4, <1>5, <1>11, <1>12

\* What is shown of it are the lines that were signed.
LEMMA ClearShown ==
    ASSUME NEW t \in Seq(Line), NEW b, Carried(b, t), Plain(t), Says(b) = Says(t),
           NEW show, show = DeCanonicalize(Endings(Unescaped(b), TRUE))
    PROVE  /\ \A i \in DOMAIN show : ~show[i].cr /\ ~show[i].blank
           /\ Says(show) = Says(IF Len(t) > 1 /\ Last(t).word = "" THEN t ELSE Append(t, EmptyLine))
<1>0. PICK n \in Nat : n = Len(t)
    BY LenProperties
<1>1. b \in Seq(Line) /\ Len(b) = n /\ n \in Nat /\ DOMAIN t = 1..n
      /\ \A i \in 1..n : t[i].head = "" /\ t[i].word = b[i].word
    <2>1. b \in Seq(Line) /\ Len(b) = n /\ n \in Nat /\ DOMAIN t = 1..n
        BY <1>0, LenProperties DEF Carried
    <2>2. \A i \in 1..n : b[i].head = t[i].head /\ b[i].word = t[i].word
        BY <1>0, <2>1, SaysFacts DEF Carried
    <2>3. \A i \in 1..n : t[i].head = ""
        BY <2>1 DEF Plain
    <2>4. QED BY <2>1, <2>2, <2>3
<1>2. PICK x : x = Endings(Unescaped(b), TRUE)
    OBVIOUS
<1>3. /\ LineFacts(x, b)
      /\ \A i \in 1..Len(b) : x[i].head = "" /\ x[i].blank = FALSE /\ x[i].cr = (i < Len(b))
    BY <1>1, <1>2, ReadTextFacts
<1>4. x \in Seq(Line) /\ Len(x) = n /\ \A i \in 1..n : x[i].word = b[i].word
    BY <1>1, <1>3 DEF LineFacts
<1>5. PICK lf : lf = Endings(x, FALSE)
    OBVIOUS
<1>6. /\ LineFacts(lf, x)
      /\ \A i \in 1..Len(x) : /\ lf[i].head = x[i].head /\ lf[i].blank = x[i].blank
                              /\ lf[i].cr = FALSE
    BY <1>4, <1>5, LFFacts
<1>7. /\ lf \in Seq(Line) /\ Len(lf) = n
      /\ \A i \in 1..n : /\ lf[i] \in Line /\ lf[i].head = "" /\ lf[i].word = t[i].word
                         /\ lf[i].blank = FALSE /\ lf[i].cr = FALSE
    <2>1. lf \in Seq(Line) /\ Len(lf) = n /\ \A i \in 1..n : lf[i].word = x[i].word
        BY <1>4, <1>6 DEF LineFacts
    <2>2. \A i \in 1..n : lf[i] \in Line
        BY <2>1, LenProperties
    <2>3. QED BY <1>1, <1>3, <1>4, <1>6, <2>1, <2>2
<1>8. show = IF Len(lf) > 1 /\ Last(lf) = EmptyLine THEN lf ELSE Append(lf, EmptyLine)
    BY <1>2, <1>5, Zenon DEF DeCanonicalize
<1>9. EmptyLine \in Line /\ EmptyLine.head = "" /\ EmptyLine.word = "" /\ EmptyLine.blank = FALSE
      /\ EmptyLine.cr = FALSE
    <2>1. EmptyLine.head = "" /\ EmptyLine.word = "" /\ EmptyLine.blank = FALSE /\ EmptyLine.cr = FALSE
        BY DEF EmptyLine
    <2>2. EmptyLine \in Line
        BY TextAssumption DEF EmptyLine, Line
    <2>3. QED BY <2>1, <2>2
<1>10. n > 1 => (Last(lf) = EmptyLine <=> Last(t).word = "")
    <2> SUFFICES ASSUME n > 1 PROVE Last(lf) = EmptyLine <=> Last(t).word = ""
        OBVIOUS
    <2>1. n \in 1..n /\ Last(lf) = lf[n] /\ Last(t) = t[n]
        <3>1. n \in 1..n
            OBVIOUS
        <3>2. QED BY <1>0, <1>7, <3>1 DEF Last
    <2>2. lf[n] \in Line /\ lf[n].head = "" /\ lf[n].blank = FALSE /\ lf[n].cr = FALSE
          /\ lf[n].word = t[n].word
        BY <1>7, <2>1
    <2>3. lf[n] = EmptyLine <=> t[n].word = ""
        BY <1>9, <2>2, LineFields
    <2>4. QED BY <2>1, <2>3
<1>11. CASE n > 1 /\ Last(t).word = ""
    <2>1. show = lf
        BY <1>7, <1>8, <1>10, <1>11
    <2>2. DOMAIN lf = 1..n
        BY <1>7, LenProperties
    <2>3. Says(lf) = Says(t)
        <3>1. Len(lf) = Len(t) /\ \A i \in 1..Len(t) : lf[i].head = t[i].head /\ lf[i].word = t[i].word
            BY <1>0, <1>1, <1>7
        <3>2. QED BY <1>7, <3>1, SaysFacts
    <2>4. QED BY <1>0, <1>7, <1>11, <2>1, <2>2, <2>3
<1>12. CASE ~(n > 1 /\ Last(t).word = "")
    <2>1. show = Append(lf, EmptyLine)
        BY <1>7, <1>8, <1>10, <1>12
    <2>2. PICK w : w = Append(t, EmptyLine)
        OBVIOUS
    <2>3. /\ w \in Seq(Line) /\ Len(w) = n + 1 /\ w[n + 1] = EmptyLine /\ \A i \in 1..n : w[i] = t[i]
        <3>1. PICK e \in Line : e = EmptyLine
            BY <1>9
        <3>2. w = Append(t, e)
            BY <2>2, <3>1
        <3>3. w \in Seq(Line) /\ Len(w) = Len(t) + 1 /\ w[Len(t) + 1] = e
              /\ \A i \in 1..Len(t) : w[i] = t[i]
            BY <3>2, AppendLine
        <3>4. QED BY <1>0, <3>1, <3>3
    <2>4. /\ show \in Seq(Line) /\ Len(show) = n + 1 /\ show[n + 1] = EmptyLine
          /\ \A i \in 1..n : show[i] = lf[i]
        <3>1. PICK e \in Line : e = EmptyLine
            BY <1>9
        <3>2. PICK g \in Seq(Line) : g = lf
            BY <1>7
        <3>3. PICK a : a = Append(g, e)
            OBVIOUS
        <3>4. show = a
            BY <2>1, <3>1, <3>2, <3>3
        <3>5. a \in Seq(Line) /\ Len(a) = Len(g) + 1 /\ a[Len(g) + 1] = e
              /\ \A i \in 1..Len(g) : a[i] = g[i]
            BY <3>3, AppendLine
        <3>6. QED BY <1>7, <3>1, <3>2, <3>4, <3>5
    <2>5. \A i \in 1..(n + 1) : i \in 1..n \/ i = n + 1
        OBVIOUS
    <2>6. DOMAIN show = 1..(n + 1)
        BY <2>4, LenProperties
    <2>7. \A i \in 1..(n + 1) : /\ show[i].head = w[i].head /\ show[i].word = w[i].word
                                /\ show[i].cr = FALSE /\ show[i].blank = FALSE
        BY <1>1, <1>7, <1>9, <2>3, <2>4, <2>5
    <2>8. Says(show) = Says(w)
        <3>1. Len(show) = Len(w) /\ \A i \in 1..Len(w) : show[i].head = w[i].head /\ show[i].word = w[i].word
            BY <2>3, <2>4, <2>7
        <3>2. QED BY <2>3, <2>4, <3>1, SaysFacts
    <2>9. QED BY <1>0, <1>12, <2>2, <2>6, <2>7, <2>8
<1>13. QED BY <1>11, <1>12

-----------------------------------------------------------------------------
(* What was signed is read as it was signed.                                *)

\* Once it is signed, the signature stays what it is, and the text keeps its
\* lines and what they begin with, if it is a clearsigned one.
AsSigned ==
    /\ input \in Inputs
    /\ numbers = MPI(input.value.r) \o MPI(input.value.s)
    /\ declared \in {Undeclared, sig.hash}
    /\ IF Clear THEN /\ sig.type = "text" /\ sig.digest = SignedLines(input.text)
                     /\ sig.hash = SHA512 /\ Carried(body, input.text)
       ELSE sig.type = "binary" /\ sig.digest = input.text

Read ==
    /\ input \in Inputs \union {Unread} /\ trims \in BOOLEAN
    /\ tpc \in {"sign", "mail", "read"}
    /\ tpc # "sign" => AsSigned
    /\ ReadAsSigned

LEMMA InputFacts ==
    ASSUME NEW x \in Inputs
    PROVE  x.text \in Seq(Line) /\ x.value.r \in Seq(0..255) /\ x.value.s \in Seq(0..255)
BY TextAssumption

\* What is read is found good if it hashes to what was signed, with a hash the
\* reader allows.
LEMMA CheckedFacts ==
    ASSUME AsSigned, NEW text
    PROVE  Checked(text) <=> sig.hash \in Strong /\ Hashed(sig.type, text) = sig.digest
<1>1. input.value.r \in Seq(0..255) /\ input.value.s \in Seq(0..255)
    BY InputFacts DEF AsSigned
<1>2. numbers = MPI(input.value.r) \o MPI(input.value.s)
    BY DEF AsSigned
<1>3. PICK r \in Seq(0..255) : r = input.value.r
    BY <1>1
<1>4. PICK s \in Seq(0..255) : s = input.value.s
    BY <1>1
<1>5. PICK w : w = MPI(r) \o MPI(s)
    OBVIOUS
<1>6. PICK x, y : ReadMPIs(w) = <<x, y>> /\ Number(x) = Number(r) /\ Number(y) = Number(s)
    <2>1. ReadsBack(w, r, s)
        BY <1>5, NumbersReadBack
    <2>2. QED BY <2>1 DEF ReadsBack
<1>7. numbers = w
    BY <1>2, <1>3, <1>4, <1>5
<1>8. ReadMPIs(numbers) = <<x, y>>
    BY <1>6, <1>7
<1>9. <<x, y>> # << >> /\ <<x, y>>[1] = x /\ <<x, y>>[2] = y
    OBVIOUS
<1>10. declared \in {Undeclared, sig.hash}
    BY DEF AsSigned
<1> DEFINE rs == ReadMPIs(numbers)
<1>11. Checked(text) <=> /\ declared \in {Undeclared, sig.hash} /\ sig.hash \in Strong
                         /\ Hashed(sig.type, text) = sig.digest
                         /\ rs # << >>
                         /\ <<Number(rs[1]), Number(rs[2])>> = <<Number(input.value.r), Number(input.value.s)>>
    BY Zenon DEF Checked
<1>12. rs # << >> /\ rs[1] = x /\ rs[2] = y
    BY <1>8, <1>9
<1> HIDE DEF rs
<1>13. Number(rs[1]) = Number(input.value.r) /\ Number(rs[2]) = Number(input.value.s)
    BY <1>3, <1>4, <1>6, <1>12
<1>14. QED BY <1>10, <1>11, <1>12, <1>13

LEMMA ReadInit == TextInit => Read
<1> SUFFICES ASSUME TextInit PROVE Read
    OBVIOUS
<1>1. input \in Inputs \union {Unread} /\ trims \in BOOLEAN /\ tpc = "sign"
    BY DEF TextInit
<1>2. ReadAsSigned
    BY <1>1 DEF ReadAsSigned
<1>3. QED BY <1>1, <1>2 DEF Read

\* Signing makes a signature of the text as it is written.
LEMMA SigningRight ==
    ASSUME Read, AgentSignData \/ AgentClearSign \/ SignData \/ ClearSign
    PROVE  AsSigned' /\ tpc' = "mail" /\ UNCHANGED <<input, trims>>
<1>1. tpc' = "mail" /\ UNCHANGED <<input, trims, cmd>> /\ input # Unread
    BY DEF AgentSignData, AgentClearSign, SignData, ClearSign, Signs, vars
<1>2. /\ input' = input /\ trims' = trims /\ trims \in BOOLEAN /\ input \in Inputs
      /\ (Clear' <=> Clear) /\ input.text \in Seq(Line)
    BY <1>1, InputFacts DEF Read, Clear
<1>3. numbers' = MPI(input.value.r) \o MPI(input.value.s)
    BY DEF AgentSignData, AgentClearSign, SignData, ClearSign, Signs
<1>4. SignedLines(input.text)' = SignedLines(input.text)
    BY <1>1, Zenon DEF SignedLines, LineEnds
<1>5. PICK t \in Seq(Line) : t = input.text
    BY <1>2
<1>6. PICK d : d = SignedLines(t)
    OBVIOUS
<1>7. /\ LineFacts(d, t)
      /\ \A i \in 1..Len(t) : d[i].head = t[i].head
    BY <1>2, <1>6, SignedLinesFacts
<1>8. CASE AgentSignData
    <2>1. ~Clear /\ sig' = [type |-> "binary", hash |-> PickHash(input.prefs), digest |-> input.text]
          /\ declared' \in {Undeclared, PickHash(input.prefs)}
        BY <1>8 DEF AgentSignData, Signs, Hashed
    <2>2. QED BY <1>1, <1>2, <1>3, <2>1 DEF AsSigned
<1>9. CASE SignData
    <2>1. PICK hash \in {SHA256, SHA512} :
             /\ ~Clear /\ sig' = [type |-> "binary", hash |-> hash, digest |-> input.text]
             /\ declared' \in {Undeclared, hash}
        BY <1>9 DEF SignData, Signs, Hashed
    <2>2. QED BY <1>1, <1>2, <1>3, <2>1 DEF AsSigned
<1>10. CASE AgentClearSign
    <2>1. Clear /\ sig' = [type |-> "text", hash |-> SHA512, digest |-> SignedLines(input.text)]
          /\ declared' = SHA512 /\ body' = input.text
        BY <1>10 DEF AgentClearSign, Signs, Hashed, SignedLines
    <2>2. Carried(t, t)
        BY DEF Carried
    <2>3. Carried(body, input.text)'
        BY <1>2, <1>5, <2>1, <2>2
    <2>4. QED BY <1>1, <1>2, <1>3, <1>4, <2>1, <2>3 DEF AsSigned
<1>11. CASE ClearSign
    <2>1. Clear /\ sig' = [type |-> "text", hash |-> SHA512, digest |-> Endings(d, TRUE)]
          /\ declared' = SHA512 /\ body' = d
        BY <1>5, <1>6, <1>11 DEF ClearSign, Signs, Hashed, SignedLines
    <2>2. Endings(d, TRUE) = d
        <3>1. PICK u : u = LineEnds(t)
            OBVIOUS
        <3>2. u \in Seq(Line)
            <4>1. CASE trims
                BY <3>1, <4>1, TrimmedFacts DEF LineEnds, LineFacts
            <4>2. CASE ~trims
                BY <3>1, <4>2 DEF LineEnds
            <4>3. QED BY <4>1, <4>2
        <3>3. QED BY <1>6, <3>1, <3>2, HashedAgain DEF SignedLines
    <2>3. Carried(d, t)
        BY <1>7 DEF Carried, LineFacts
    <2>4. Carried(body, input.text)'
        BY <1>2, <1>5, <2>1, <2>3
    <2>5. sig'.digest = SignedLines(input.text)
        BY <1>5, <1>6, <2>1, <2>2
    <2>6. QED BY <1>1, <1>2, <1>3, <1>4, <2>1, <2>4, <2>5 DEF AsSigned
<1>12. QED BY <1>1, <1>8, <1>9, <1>10, <1>11

\* On its way a text keeps its lines.
LEMMA CarriedOn ==
    ASSUME Read, Carry
    PROVE  AsSigned' /\ tpc' = "mail" /\ UNCHANGED <<input, trims>>
<1>1. /\ tpc = "mail" /\ UNCHANGED <<cmd, input, tpc, sig, numbers, declared, trims>> /\ AsSigned
    BY DEF Carry, Read, vars
<1>2. (Clear' <=> Clear) /\ SignedLines(input.text)' = SignedLines(input.text)
    BY <1>1, Zenon DEF Clear, SignedLines, LineEnds
<1>3. ASSUME Clear PROVE Carried(body, input.text)'
    <2>1. PICK b \in Seq(Line) : b = body
        BY <1>1, <1>3 DEF AsSigned, Carried
    <2>2. /\ Len(b) = Len(input.text) /\ Len(b) \in Nat /\ DOMAIN b = 1..Len(b)
          /\ \A i \in 1..Len(b) : b[i] \in Line /\ b[i].head = input.text[i].head
        BY <1>1, <1>3, <2>1, LenProperties DEF AsSigned, Carried
    <2>3. /\ body' \in Seq(Line) /\ Len(body') = Len(b)
          /\ \A i \in 1..Len(b) : body'[i].head = b[i].head
        <3>1. ASSUME NEW cr \in BOOLEAN, body' = Endings(body, cr)
              PROVE  /\ body' \in Seq(Line) /\ Len(body') = Len(b)
                     /\ \A i \in 1..Len(b) : body'[i].head = b[i].head
            <4>1. PICK s : s = Endings(b, cr)
                OBVIOUS
            <4>2. EndedAs(s, b, cr)
                BY <4>1, EndingsFacts
            <4>3. body' = s
                BY <2>1, <3>1, <4>1
            <4>4. QED BY <4>2, <4>3 DEF EndedAs, LineFacts
        <3>2. ASSUME NEW k \in DOMAIN body, body' = [body EXCEPT ![k].blank = ~@]
              PROVE  /\ body' \in Seq(Line) /\ Len(body') = Len(b)
                     /\ \A i \in 1..Len(b) : body'[i].head = b[i].head
            <4>1. PICK l : l = [b[k] EXCEPT !.blank = ~@]
                OBVIOUS
            <4>2. l \in Line /\ l.head = b[k].head
                BY <2>1, <2>2, <3>2, <4>1 DEF Line
            <4>3. body' = [b EXCEPT ![k] = l]
                BY <2>1, <3>2, <4>1
            <4>4. QED BY <2>1, <2>2, <4>2, <4>3, LineReplaced
        <3>3. ASSUME NEW k \in DOMAIN body, NEW w \in Words, body' = [body EXCEPT ![k].word = w]
              PROVE  /\ body' \in Seq(Line) /\ Len(body') = Len(b)
                     /\ \A i \in 1..Len(b) : body'[i].head = b[i].head
            <4>0. PICK m \in Line : m = b[k]
                BY <2>1, <2>2, <3>3
            <4>1. PICK l : l = [m EXCEPT !.word = w]
                OBVIOUS
            <4>2. l \in Line /\ l.head = b[k].head
                BY <4>0, <4>1 DEF Line
            <4>3. body' = [b EXCEPT ![k] = l]
                BY <2>1, <3>3, <4>0, <4>1
            <4>4. QED BY <2>1, <2>2, <4>2, <4>3, LineReplaced
        <3>4. QED BY <3>1, <3>2, <3>3 DEF Carry
    <2>4. QED BY <1>1, <2>2, <2>3 DEF Carried
<1>4. QED BY <1>1, <1>2, <1>3 DEF AsSigned

\* Whoever reads it judges it rightly.
LEMMA JudgedRightly ==
    ASSUME Read, ReadData \/ VerifyClearSigned
    PROVE  Read'
<1>1. /\ tpc = "mail" /\ tpc' = "read" /\ AsSigned
      /\ UNCHANGED <<cmd, input, sig, numbers, declared, body, trims>>
    BY DEF ReadData, VerifyClearSigned, Read, vars
<1>2. (Clear' <=> Clear) /\ SignedLines(input.text)' = SignedLines(input.text)
    BY <1>1, Zenon DEF Clear, SignedLines, LineEnds
<1>3. AsSigned'
    BY <1>1, <1>2 DEF AsSigned
<1>4. PICK t \in Seq(Line) : t = input.text
    BY <1>1, InputFacts DEF AsSigned
<1>5. ASSUME ReadData PROVE ReadAsSigned'
    <2>1. ~Clear /\ good' = Checked(body)
        BY <1>5 DEF ReadData
    <2>2. Checked(body) <=> body = input.text /\ sig.hash \in Strong
        <3>1. sig.type = "binary" /\ sig.digest = input.text
            BY <1>1, <2>1 DEF AsSigned
        <3>2. Hashed("binary", body) = body
            BY DEF Hashed
        <3>3. PICK b : b = body
            OBVIOUS
        <3>4. Checked(b) <=> sig.hash \in Strong /\ Hashed(sig.type, b) = sig.digest
            BY <1>1, CheckedFacts
        <3>5. QED BY <3>1, <3>2, <3>3, <3>4
    <2>3. PICK g \in BOOLEAN : g = Checked(body)
        BY DEF Checked
    <2>4. good' = (body = input.text /\ sig.hash \in Strong)
        BY <2>1, <2>2, <2>3
    <2>5. body' = body /\ input' = input /\ sig' = sig /\ ~Clear'
        BY <1>1, <1>2, <2>1
    <2>6. QED BY <2>4, <2>5, Zenon DEF ReadAsSigned
<1>6. ASSUME VerifyClearSigned PROVE ReadAsSigned'
    <2>1. PICK b : b = body
        OBVIOUS
    <2>2. Clear /\ Carried(b, t) /\ sig.type = "text" /\ sig.digest = SignedLines(t) /\ trims \in BOOLEAN
        BY <1>1, <1>4, <1>6, <2>1 DEF AsSigned, VerifyClearSigned, Read
    <2>3. PICK x : x = Endings(Unescaped(b), TRUE)
        OBVIOUS
    <2>4. good' = Checked(x) /\ shown' = DeCanonicalize(x)
        BY <1>6, <2>1, <2>3 DEF VerifyClearSigned
    <2>5. Checked(x) <=> Endings(x, TRUE) = SignedLines(t)
        <3>1. sig.hash \in Strong
            BY <1>1, <2>2 DEF AsSigned, SHA512, Strong
        <3>2. QED BY <1>1, <2>2, <3>1, CheckedFacts DEF Hashed
    <2>6. Endings(x, TRUE) = SignedLines(t) <=> Plain(t) /\ Says(b) = Says(t) /\ (trims \/ NoBlanks(t))
        BY <2>2, <2>3, ClearDigest
    <2>7. good' = (Plain(t) /\ Says(b) = Says(t) /\ (trims \/ NoBlanks(t)))
        <3> DEFINE P == Plain(t) /\ Says(b) = Says(t) /\ (trims \/ NoBlanks(t))
        <3>1. Checked(x) \in BOOLEAN
            BY Zenon DEF Checked
        <3>2. Checked(x) <=> P
            BY <2>5, <2>6
        <3> HIDE DEF P
        <3>3. P \in BOOLEAN
            BY DEF P
        <3>4. good' = P
            BY <2>4, <3>1, <3>2, <3>3
        <3>5. QED BY <3>4 DEF P
    <2>8. PICK show : show = DeCanonicalize(x)
        OBVIOUS
    <2>9. good' => /\ \A i \in DOMAIN show : ~show[i].cr /\ ~show[i].blank
                   /\ Says(show) = Says(IF Len(t) > 1 /\ Last(t).word = "" THEN t ELSE Append(t, EmptyLine))
        BY <2>2, <2>3, <2>7, <2>8, ClearShown
    <2>10. shown' = show /\ body' = b /\ input'.text = t /\ trims' = trims /\ Clear'
        BY <1>1, <1>2, <1>4, <2>1, <2>2, <2>4, <2>8
    <2>11. QED BY <2>7, <2>9, <2>10, Zenon DEF ReadAsSigned
<1>7. QED BY <1>1, <1>3, <1>5, <1>6 DEF Read

LEMMA ReadStep == Read /\ [TextNext]_allVars => Read'
<1> SUFFICES ASSUME Read, [TextNext]_allVars PROVE Read'
    OBVIOUS
<1>1. CASE AgentSignData \/ AgentClearSign \/ SignData \/ ClearSign \/ Carry
    <2>1. AsSigned' /\ tpc' = "mail" /\ UNCHANGED <<input, trims>>
        BY <1>1, SigningRight, CarriedOn
    <2>2. ReadAsSigned'
        BY <2>1 DEF ReadAsSigned
    <2>3. QED BY <2>1, <2>2 DEF Read
<1>2. CASE ReadData \/ VerifyClearSigned
    BY <1>2, JudgedRightly
<1>3. CASE UNCHANGED textVars /\ cmd' = cmd
    <2>1. UNCHANGED <<input, tpc, sig, numbers, declared, body, trims, shown, good, cmd>>
        BY <1>3 DEF textVars
    <2>2. ReadAsSigned' <=> ReadAsSigned
        BY <2>1, Zenon DEF ReadAsSigned, Clear
    <2>3. AsSigned' <=> AsSigned
        <3>1. (Clear' <=> Clear) /\ SignedLines(input.text)' = SignedLines(input.text)
            BY <2>1, Zenon DEF Clear, SignedLines, LineEnds
        <3>2. QED BY <2>1, <3>1 DEF AsSigned
    <2>4. QED BY <2>1, <2>2, <2>3 DEF Read
<1>4. [Next]_vars => cmd' = cmd
    BY Unchanging
<1>5. QED BY <1>1, <1>2, <1>3, <1>4 DEF TextNext, TextStep, allVars, vars

\* Whichever way a text was signed, and whatever became of it on its way, the
\* reader finds the signature good exactly if what is there is what was signed
\* (VerifyDetached, VerifyClearSigned), and shows of a clearsigned text the
\* lines that were signed: for texts of any length, any change on the way, and
\* signatures of any two numbers.
THEOREM ReadsAsSigned == TextSpec => []ReadAsSigned
<1>1. Read => ReadAsSigned
    BY DEF Read
<1>2. QED BY ReadInit, ReadStep, <1>1, PTL DEF TextSpec
=============================================================================
