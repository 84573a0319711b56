------------------------------- MODULE Decrypt -------------------------------
(***************************************************************************)
(* gpg-go --decrypt.  A message names its recipients by key ID or hides    *)
(* them; a secret key may be in a running gpg-agent (on a smartcard, say), *)
(* in a key file, or nowhere.  The command asks the agent first, key by    *)
(* key, and unlocks key files itself only when the agent is of no use.     *)
(* The user, the card and the agent may fail it at any point.              *)
(***************************************************************************)
EXTENDS Secrets

CONSTANTS
    Messages,   \* the inputs
    MaxFaults   \* bound on agent crashes and cards pulled out

ASSUME DecryptAssumption == Messages \subseteq Message /\ MaxFaults \in Nat

VARIABLES
    msg,        \* the input
    pc,         \* what the command does next, or how it ended: "refused" is the
                \* error of an agent
    queue,      \* keys still to try through the agent
    scan,       \* hidden packets still to try with the key at hand
    left,       \* certificates still to unlock
    opened,     \* certificates unlocked so far
    loaded,     \* keys unlocked so far
    report,     \* what was said about the signature
    written,    \* was there any output?
    calls,      \* history: <<key, packet>> pairs the agent was asked to decrypt
    agentError, \* history: did the agent refuse a decryption?
    faults      \* history: agent crashes and cards pulled out

world   == <<msg, home>>
results == <<report, written>>
ghost   == <<calls, agentError, faults>>
locals  == <<left, opened, loaded>>
vars    == <<world, agent, pc, queue, scan, locals, results, ghost>>

Ended == {"ok", "failed", "refused"}

-----------------------------------------------------------------------------
(* Which keys to try.                                                       *)

HasWildcard == \E i \in DOMAIN msg.to : msg.to[i].hidden

\* The certificates with a secret key that the message names, as keystore.Find
\* has them for each key ID.
Named ==
    LET for == Keep(msg.to, {p \in Packet : ~p.hidden /\ p.key \in Key /\ HasFile(CertOf(p.key))})
    IN  Dedupe([i \in DOMAIN for |-> CertOf(for[i].key)])

\* Mistake: hidden recipients are left to the key files.
AgentCandidatesNamed == Named

\* agentDecryptCandidates: with a hidden recipient every secret key counts.
AgentCandidates == IF HasWildcard THEN Dedupe(Named \o SecretKeys) ELSE Named

\* The subkeys among them that can be tried through the agent.
AgentSubkeys[s \in Seq(Certs)] ==
    FlattenSeq([i \in DOMAIN s |-> Keep(Subkeys(s[i]), {k \in Key : AgentDecrypts(k)})])
AgentQueue == AgentSubkeys[AgentCandidates]

\* findPKESK: the packet that names k, if there is one.
Exact(k) == {i \in DOMAIN msg.to : ~msg.to[i].hidden /\ msg.to[i].key = k}

\* findWildcardPKESKs: the hidden packets an ECDH key may open, in order.
Wildcards ==
    Keep([i \in DOMAIN msg.to |-> i], {i \in DOMAIN msg.to : msg.to[i].hidden /\ IsECDH(msg.to[i].key)})

-----------------------------------------------------------------------------
\* readDecryptResult and reportSignatureStatus: what is said of the signature
\* when the keys of `known` are at hand.
Verdict(known) ==
    CASE msg.signer = Nobody   -> "none"
      [] msg.signer \notin known -> "unverified"
      [] OTHER                 -> IF msg.intact THEN "good" ELSE "bad"

\* Mistake: a signature by a known key is not checked.
CheckedTrusting == IF msg.signer \in Certs THEN "good" ELSE "bad"

\* VerifyDetached, VerifyClearSigned: an unknown signer counts as bad.
Checked == IF msg.signer \in Certs /\ msg.intact THEN "good" ELSE "bad"

Init ==
    /\ msg \in Messages
    /\ SecretsInit
    /\ pc = "start"
    /\ queue = << >> /\ scan = << >>
    /\ left = << >> /\ opened = {} /\ loaded = {}
    /\ report = "none" /\ written = FALSE
    /\ calls = << >> /\ agentError = FALSE /\ faults = 0

-----------------------------------------------------------------------------
(* What kind of input it is.                                                *)

\* decryptSymmetric: the passphrase is right or it is not.
Symmetric ==
    /\ pc = "start" /\ msg.form = "symmetric"
    /\ \/ pc' = "ok" /\ written' = TRUE
       \/ pc' = "failed" /\ UNCHANGED written
    /\ UNCHANGED <<world, agent, queue, scan, locals, report, ghost>>

\* A lone signature has nothing to write, a clearsigned text is written
\* whatever its signature is worth.
Signed ==
    /\ pc = "start" /\ msg.form \in {"detached", "clearsigned"}
    /\ report' = Checked
    /\ written' = (msg.form = "clearsigned")
    /\ pc' = IF Checked = "good" THEN "ok" ELSE "failed"
    /\ UNCHANGED <<world, agent, queue, scan, locals, ghost>>

\* What comes of the data once it can be had: it is written, with a report on
\* the signature by one of `known`, or cannot be read.  (Writing the output does
\* not fail here.)
Finish(known) ==
    IF msg.legible
    THEN pc' = "ok" /\ report' = Verdict(known) /\ written' = TRUE
    ELSE pc' = "failed" /\ UNCHANGED results

\* A message that is not encrypted is read without any keys.
Plain ==
    /\ pc = "start" /\ msg.form = "message" /\ msg.to = << >>
    /\ Finish({})
    /\ UNCHANGED <<world, agent, queue, scan, locals, ghost>>

Encrypted ==
    /\ pc = "start" /\ msg.form = "message" /\ msg.to # << >>
    /\ queue' = AgentQueue
    /\ pc' = IF queue' = << >> THEN "local" ELSE "dial"
    /\ UNCHANGED <<world, agent, scan, locals, results, ghost>>

-----------------------------------------------------------------------------
(* tryAgentDecryptECDH.                                                     *)

\* dialAgent: without an agent the key files have to do.
Dial ==
    /\ pc = "dial"
    /\ pc' = IF agent.up THEN "have" ELSE "local"
    /\ UNCHANGED <<world, agent, queue, scan, locals, results, ghost>>

\* Mistake: the end of the loop is forgotten.
NextKeyBlind(q) == queue' = q /\ pc' = "have"

NextKey(q) == /\ queue' = q
              /\ pc' = IF q = << >> THEN "local" ELSE "have"

\* Client.HaveKey: an agent that is gone has no key either.
HaveKey ==
    /\ pc = "have"
    /\ IF Head(queue) \in agent.holds
       THEN pc' = "find" /\ UNCHANGED queue
       ELSE NextKey(Tail(queue))
    /\ UNCHANGED <<world, agent, scan, locals, results, ghost>>

\* decryptECDHPKESK on packet i with the key at hand.  The agent must be able
\* to use the key and like the packet: one for another curve may be an error or
\* give garbage.  What comes out unwraps only the right packet.
PKDecrypt(i) ==
    LET k == Head(queue)
    IN  /\ calls' = Append(calls, <<k, i>>)
        /\ \/ /\ AgentCan(k)
              /\ AgentUses(k)
              /\ UNCHANGED agentError
           \/ /\ ~AgentCan(k) \/ Algo[msg.to[i].key] # Algo[k]
              /\ agentError' = TRUE
              /\ UNCHANGED agent
        /\ UNCHANGED faults

\* The session key is there: the data is decrypted and its signature checked
\* with every public key.
AgentDone == Finish(Certs)

\* AgentDecryptSessionKeyECDH: the packet that names the key, if any, decides.
TryExact ==
    /\ pc = "find"
    /\ IF Exact(Head(queue)) # {}
       THEN /\ \E i \in Exact(Head(queue)) :
                  /\ \A j \in Exact(Head(queue)) : i <= j
                  /\ PKDecrypt(i)
            /\ IF agentError' THEN pc' = "refused" /\ UNCHANGED results ELSE AgentDone
            /\ UNCHANGED scan
       ELSE /\ scan' = Wildcards
            /\ pc' = "scan"
            /\ UNCHANGED <<agent, results, ghost>>
    /\ UNCHANGED <<world, queue, locals>>

\* Mistake: an agent error counts as a packet for somebody else.
ScanOn ==
    /\ pc = "scan" /\ scan # << >>
    /\ PKDecrypt(Head(scan))
    /\ IF ~agentError' /\ msg.to[Head(scan)].key = Head(queue)
       THEN AgentDone /\ UNCHANGED scan
       ELSE scan' = Tail(scan) /\ UNCHANGED <<pc, results>>
    /\ UNCHANGED <<world, queue, locals>>

\* AgentDecryptSessionKeyECDHWildcard: the hidden packets one after the other;
\* one that is for another key does not unwrap, an agent error is final.
Scan ==
    /\ pc = "scan" /\ scan # << >>
    /\ PKDecrypt(Head(scan))
    /\ IF agentError' THEN pc' = "refused" /\ UNCHANGED <<results, scan>>
       ELSE IF msg.to[Head(scan)].key = Head(queue)
       THEN AgentDone /\ UNCHANGED scan
       ELSE scan' = Tail(scan) /\ UNCHANGED <<pc, results>>
    /\ UNCHANGED <<world, queue, locals>>

ScanOver ==
    /\ pc = "scan" /\ scan = << >>
    /\ NextKey(Tail(queue))
    /\ UNCHANGED <<world, agent, scan, locals, results, ghost>>

-----------------------------------------------------------------------------
(* The key files.                                                           *)

\* The certificates the message names; only if there are none, all of them.
Local ==
    /\ pc = "local"
    /\ left' = IF Named # << >> THEN Named ELSE IF HasWildcard THEN SecretKeys ELSE << >>
    /\ pc' = IF left' = << >> THEN "failed" ELSE "unlock"
    /\ UNCHANGED <<world, agent, queue, scan, opened, loaded, results, ghost>>

AfterUnlock(some) ==
    pc' = IF Tail(left) # << >> THEN "unlock" ELSE IF some THEN "open" ELSE "failed"

Unlock ==
    /\ pc = "unlock"
    /\ \E got \in SUBSET ToSet(Keys[Head(left)]) :
          /\ Unlocks(Head(left), got)
          /\ loaded' = loaded \union got
    /\ opened' = opened \union {Head(left)}
    /\ left' = Tail(left)
    /\ AfterUnlock(TRUE)
    /\ UNCHANGED <<world, agent, queue, scan, results, ghost>>

\* Mistake: with hidden recipients, too, every key must unlock.
UnlockRefusedStrict ==
    /\ pc = "unlock"
    /\ UnlockFails(Head(left))
    /\ pc' = "failed" /\ UNCHANGED left
    /\ UNCHANGED <<world, agent, queue, scan, opened, loaded, results, ghost>>

\* A named recipient's key must unlock; of all the others, one suffices.
UnlockRefused ==
    /\ pc = "unlock"
    /\ UnlockFails(Head(left))
    /\ IF Named # << >>
       THEN pc' = "failed" /\ UNCHANGED left
       ELSE left' = Tail(left) /\ AfterUnlock(opened # {})
    /\ UNCHANGED <<world, agent, queue, scan, opened, loaded, results, ghost>>

\* DecryptMessage: signatures are checked with the keys whose IDs the message
\* shows, and an encrypted message shows none, and with the unlocked ones.
OpenMessage ==
    /\ pc = "open"
    /\ IF \E i \in DOMAIN msg.to : msg.to[i].key \in loaded
       THEN Finish(opened)
       ELSE pc' = "failed" /\ UNCHANGED results
    /\ UNCHANGED <<world, agent, queue, scan, locals, ghost>>

-----------------------------------------------------------------------------
(* What may go wrong outside the program.                                   *)

PullCard(k) ==
    /\ faults < MaxFaults /\ faults' = faults + 1
    /\ pc \notin Ended
    /\ CardOut(k)
    /\ UNCHANGED <<world, pc, queue, scan, locals, results, calls, agentError>>

AgentDies ==
    /\ faults < MaxFaults /\ faults' = faults + 1
    /\ pc \notin Ended
    /\ AgentGone
    /\ UNCHANGED <<world, pc, queue, scan, locals, results, calls, agentError>>

-----------------------------------------------------------------------------
Step ==
    \/ Symmetric \/ Signed \/ Plain \/ Encrypted
    \/ Dial \/ HaveKey \/ TryExact \/ Scan \/ ScanOver
    \/ Local \/ Unlock \/ UnlockRefused \/ OpenMessage

Finished == pc \in Ended /\ UNCHANGED vars

Next == Step \/ (\E k \in Key : PullCard(k)) \/ AgentDies \/ Finished

Spec == Init /\ [][Next]_vars

-----------------------------------------------------------------------------
(* Properties.                                                              *)

TypeOK ==
    /\ SecretsTyped
    /\ pc \in Ended \union {"start", "dial", "have", "find", "scan", "local", "unlock", "open"}
    /\ queue \in Seq(Key) /\ scan \in Seq(DOMAIN msg.to)
    /\ left \in Seq(Certs) /\ opened \subseteq Certs /\ loaded \subseteq Key
    /\ report \in {"none", "good", "bad", "unverified"} /\ written \in BOOLEAN
    /\ agentError \in BOOLEAN /\ faults \in 0..MaxFaults
    /\ pc \in {"have", "find", "scan"} => queue # << >>
    /\ pc = "unlock" => left # << >>

\* Store.SecretKeys, agentDecryptCandidates and the wildcard scan together: key
\* files are unlocked, or a legible message given up without the agent's error,
\* only if the agent holds no supported key the message is for, named or hidden.
AgentFirst ==
    /\ msg.form = "message" /\ msg.legible /\ faults = 0
    /\ pc \in {"unlock", "open", "failed"}
    => \A i \in DOMAIN msg.to :
          LET k == msg.to[i].key
          IN  ~(/\ agent.up /\ k \in agent.holds /\ AgentDecrypts(k)
                /\ CertOf(k) \in ToSet(SecretKeys))

\* A decryption on a card costs a touch or a PIN: the agent is never asked to
\* try the same key on the same packet twice, nor on a packet that names
\* another key.
TriedOnce ==
    /\ \A i, j \in DOMAIN calls : calls[i] = calls[j] => i = j
    /\ \A i \in DOMAIN calls : LET p == msg.to[calls[i][2]]
                              IN  p.hidden \/ p.key = calls[i][1]

\* With a key file at hand for one of the packets a legible message is not given
\* up, but for an agent's error, except, by what unlockKey's errors do, when some
\* named recipient's key does not unlock, or when the packet is hidden and
\* another one is not.
LocalComplete ==
    msg.form = "message" /\ msg.legible /\ pc = "failed" =>
        \A i \in DOMAIN msg.to : Readable(msg.to[i].key) =>
            IF msg.to[i].hidden THEN Named # << >>
            ELSE \E c \in ToSet(Named) : UnlockFails(c)

\* An agent that refuses an operation, because the card was pulled out since
\* HAVEKEY or it is gone itself, ends the command with its error: the message is
\* not taken for one that is for somebody else, nobody's key file is opened
\* after it, and nothing is written (decrypt.go:199-221, agentdecrypt.go:244-260).
RefusalReported == (agentError <=> pc = "refused") /\ (agentError => opened = {} /\ ~written)

\* "-R ... decryption brute-forces the secret keys on hand" (README.md:171):
\* a message with a hidden packet for a readable key is not given up.
HiddenBruteForced ==
    msg.form = "message" /\ msg.legible /\ pc = "failed" =>
        \A i \in DOMAIN msg.to : msg.to[i].hidden => ~Readable(msg.to[i].key)

\* "-d/--decrypt ... verifies an embedded signature if present"
\* (README.md:161): the signature inside an encrypted message, if it is by a key
\* in the keybox.
SignatureReported ==
    msg.form = "message" /\ msg.to # << >> /\ pc = "ok" /\ msg.signer \in Certs =>
        report = IF msg.intact THEN "good" ELSE "bad"
=============================================================================
