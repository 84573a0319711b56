-------------------------------- MODULE Seal --------------------------------
(***************************************************************************)
(* gpg-go --encrypt, --sign, --detach-sign and --clearsign: find the       *)
(* recipients, choose the signer, sign through gpg-agent or with a key     *)
(* file, and only then write anything.                                     *)
(***************************************************************************)
EXTENDS Secrets

CONSTANTS
    Matches,    \* Matches[q]: the certificates query q finds
    EncKey,     \* EncKey[c]: c's encryption key, or NoKey
    Best,       \* Best[c]: the key c would sign with, or NoKey
    Signing,    \* the subkeys that may sign
    NoKey,      \* no key
    NoUser,     \* there is no --local-user
    Commands,   \* records [form, encrypt, sign, specs, user]
    MaxFaults   \* bound on agent crashes and cards pulled out

ASSUME SealAssumption ==
    /\ NoKey \notin Key /\ NoUser \notin DOMAIN Matches
    /\ \A q \in DOMAIN Matches : Matches[q] \subseteq Certs
    /\ \A c \in Certs : /\ EncKey[c] \in ToSet(Keys[c]) \union {NoKey}
                        /\ Best[c] \in ToSet(Keys[c]) \union {NoKey}
    /\ Commands \subseteq
          [form : {"encrypted", "embedded", "detached", "clearsigned"}, encrypt : BOOLEAN, sign : BOOLEAN,
           specs : Seq([query : DOMAIN Matches, hidden : BOOLEAN]), user : DOMAIN Matches \union {NoUser}]
    /\ \A cd \in Commands : cd.encrypt \/ cd.sign
    /\ MaxFaults \in Nat

VARIABLES
    cmd,        \* the command
    pc,         \* what it does next, or how it ended
    next,       \* the next recipient specification
    order,      \* recipients so far, in order of appearance
    hide,       \* hide[c]: c is to be a hidden recipient
    signer,     \* the certificate to sign with, or NoKey
    queue,      \* its keys still to look for in the agent
    loaded,     \* its keys unlocked
    out,        \* what has been written: sequences of one record at most
    refused,    \* history: did the agent refuse to sign?
    faults      \* history: agent crashes and cards pulled out

recipients == <<next, order, hide>>
signing    == <<signer, queue, loaded>>
vars       == <<home, agent, cmd, pc, recipients, signing, out, refused, faults>>

Ended == {"ok", "failed"}

Init ==
    /\ SecretsInit
    /\ cmd \in Commands
    /\ pc = IF cmd.encrypt THEN IF cmd.specs = << >> THEN "failed" ELSE "resolve" ELSE "pick"
    /\ next = 1 /\ order = << >> /\ hide = [c \in Certs |-> FALSE]
    /\ signer = NoKey /\ queue = << >> /\ loaded = {}
    /\ out = << >> /\ refused = FALSE /\ faults = 0

-----------------------------------------------------------------------------
(* resolveEncryptionRecipients.                                             *)

\* Mistake: the first specification of a recipient counts.
ResolveFirstWins ==
    /\ pc = "resolve" /\ next <= Len(cmd.specs)
    /\ IF Cardinality(Matches[cmd.specs[next].query]) # 1
       THEN pc' = "failed" /\ UNCHANGED recipients
       ELSE /\ \E c \in Matches[cmd.specs[next].query] :
                  /\ order' = Dedupe(Append(order, c))
                  /\ hide'  = IF c \in ToSet(order) THEN hide
                              ELSE [hide EXCEPT ![c] = cmd.specs[next].hidden]
            /\ next' = next + 1
            /\ UNCHANGED pc
    /\ UNCHANGED <<home, agent, cmd, signing, out, refused, faults>>

\* A query must find one certificate; the last one that finds it decides
\* whether it is hidden.
Resolve ==
    /\ pc = "resolve" /\ next <= Len(cmd.specs)
    /\ IF Cardinality(Matches[cmd.specs[next].query]) # 1
       THEN pc' = "failed" /\ UNCHANGED recipients
       ELSE /\ \E c \in Matches[cmd.specs[next].query] :
                  /\ order' = Dedupe(Append(order, c))
                  /\ hide'  = [hide EXCEPT ![c] = cmd.specs[next].hidden]
            /\ next' = next + 1
            /\ UNCHANGED pc
    /\ UNCHANGED <<home, agent, cmd, signing, out, refused, faults>>

Resolved ==
    /\ pc = "resolve" /\ next > Len(cmd.specs)
    /\ pc' = IF cmd.sign THEN "pick" ELSE "seal"
    /\ UNCHANGED <<home, agent, cmd, recipients, signing, out, refused, faults>>

\* serializeRecipientKeys: a packet for each, the visible ones first.
Packets ==
    LET sorted == Keep(order, {c \in Certs : ~hide[c]}) \o Keep(order, {c \in Certs : hide[c]})
    IN  [i \in DOMAIN sorted |-> [key |-> EncKey[sorted[i]], hidden |-> hide[sorted[i]]]]

Encryptable == \A c \in ToSet(order) : EncKey[c] # NoKey

-----------------------------------------------------------------------------
(* pickSigner and agentSigningTarget.                                       *)

Candidates(c) ==
    (IF Best[c] = NoKey THEN << >> ELSE << Best[c] >>) \o Keep(Subkeys(c), Signing \ {Best[c]})

\* Mistake: only the preferred signing key is looked for.
AgentQueueBest(c) ==
    Keep(Candidates(c), {k \in {Best[c]} \intersect Key : AgentSigns(k)})

AgentQueue(c) == Keep(Candidates(c), {k \in Key : AgentSigns(k)})

Picked ==
    IF cmd.user = NoUser THEN ToSet(SecretKeys) ELSE ToSet(SecretKeys) \intersect Matches[cmd.user]

Pick ==
    /\ pc = "pick"
    /\ IF Cardinality(Picked) # 1
       THEN pc' = "failed" /\ UNCHANGED <<signer, queue>>
       ELSE \E c \in Picked :
               /\ signer' = c
               /\ queue' = AgentQueue(c)
               /\ pc' = IF AgentQueue(c) = << >> THEN "unlock" ELSE "dial"
    /\ UNCHANGED <<home, agent, cmd, recipients, loaded, out, refused, faults>>

\* Mistake: without an agent nothing is signed.
DialOrFail ==
    /\ pc = "dial"
    /\ pc' = IF agent.up THEN "have" ELSE "failed"
    /\ UNCHANGED <<home, agent, cmd, recipients, signing, out, refused, faults>>

Dial ==
    /\ pc = "dial"
    /\ pc' = IF agent.up THEN "have" ELSE "unlock"
    /\ UNCHANGED <<home, agent, cmd, recipients, signing, out, refused, faults>>

\* Mistake: the end of the loop is forgotten.
HaveKeyBlind ==
    /\ pc = "have"
    /\ IF Head(queue) \in agent.holds THEN pc' = "agent" /\ UNCHANGED queue
       ELSE queue' = Tail(queue) /\ UNCHANGED pc
    /\ UNCHANGED <<home, agent, cmd, recipients, signer, loaded, out, refused, faults>>

HaveKey ==
    /\ pc = "have"
    /\ IF Head(queue) \in agent.holds THEN pc' = "agent" /\ UNCHANGED queue
       ELSE queue' = Tail(queue) /\ pc' = IF queue' = << >> THEN "unlock" ELSE "have"
    /\ UNCHANGED <<home, agent, cmd, recipients, signer, loaded, out, refused, faults>>

-----------------------------------------------------------------------------
(* Signing and writing.                                                     *)

Made(by) == [form |-> cmd.form, to |-> IF cmd.encrypt THEN Packets ELSE << >>, by |-> by]

\* The agent signs with the key found, or refuses, which is final, as is a
\* hash it has no name for (hashName).  Before that, every recipient must have
\* an encryption key.
AgentSeal ==
    /\ pc = "agent"
    /\ IF cmd.encrypt /\ ~Encryptable
       THEN pc' = "failed" /\ UNCHANGED <<agent, out, refused>>
       ELSE \/ /\ AgentCan(Head(queue)) /\ AgentUses(Head(queue))
               /\ out' = << Made(Head(queue)) >> /\ pc' = "ok"
               /\ UNCHANGED refused
            \/ refused' = TRUE /\ pc' = "failed" /\ UNCHANGED <<agent, out>>
    /\ UNCHANGED <<home, cmd, recipients, signing, faults>>

Unlock ==
    /\ pc = "unlock"
    /\ \/ \E got \in SUBSET ToSet(Keys[signer]) :
             Unlocks(signer, got) /\ loaded' = got /\ pc' = "seal"
       \/ UnlockFails(signer) /\ pc' = "failed" /\ UNCHANGED loaded
    /\ UNCHANGED <<home, agent, cmd, recipients, signer, queue, out, refused, faults>>

\* Mistake: with hidden recipients the signer is forgotten.
SealUnsigned ==
    /\ pc = "seal"
    /\ IF (cmd.encrypt => Encryptable) /\ (cmd.sign => Best[signer] \in loaded)
       THEN /\ pc' = "ok"
            /\ out' = << Made(IF cmd.sign /\ (\A c \in Certs : ~hide[c]) THEN Best[signer] ELSE NoKey) >>
       ELSE pc' = "failed" /\ UNCHANGED out
    /\ UNCHANGED <<home, agent, cmd, recipients, signing, refused, faults>>

\* Without the agent only the preferred key signs, if it was unlocked.
Seal ==
    /\ pc = "seal"
    /\ IF (cmd.encrypt => Encryptable) /\ (cmd.sign => Best[signer] \in loaded)
       THEN /\ pc' = "ok"
            /\ out' = << Made(IF cmd.sign THEN Best[signer] ELSE NoKey) >>
       ELSE pc' = "failed" /\ UNCHANGED out
    /\ UNCHANGED <<home, agent, cmd, recipients, signing, refused, faults>>

\* GopenPGP's key rings, which everything but plain -s goes through, may not
\* sign for a certificate whose primary key is not unlocked.
LibraryRefuses ==
    /\ pc = "seal"
    /\ cmd.sign /\ cmd.form # "embedded" /\ Head(Keys[signer]) \notin loaded
    /\ pc' = "failed"
    /\ UNCHANGED <<home, agent, cmd, recipients, signing, out, refused, faults>>

-----------------------------------------------------------------------------
Step == Resolve \/ Resolved \/ Pick \/ Dial \/ HaveKey \/ AgentSeal \/ Unlock \/ Seal \/ LibraryRefuses

\* A card is pulled out or the agent goes.
Fault ==
    /\ faults < MaxFaults /\ faults' = faults + 1
    /\ pc \notin Ended
    /\ AgentGone \/ \E k \in Key : CardOut(k)
    /\ UNCHANGED <<home, cmd, pc, recipients, signing, out, refused>>

Finished == pc \in Ended /\ UNCHANGED vars

Next == Step \/ Fault \/ Finished

Spec == Init /\ [][Next]_vars

-----------------------------------------------------------------------------
(* Properties.                                                              *)

TypeOK ==
    /\ SecretsTyped
    /\ pc \in Ended \union {"resolve", "pick", "dial", "have", "agent", "unlock", "seal"}
    /\ next \in 1..(Len(cmd.specs) + 1) /\ order \in Seq(Certs) /\ hide \in [Certs -> BOOLEAN]
    /\ signer \in Certs \union {NoKey} /\ queue \in Seq(Key) /\ loaded \subseteq Key
    /\ refused \in BOOLEAN /\ faults \in 0..MaxFaults
    /\ pc \in {"dial", "have", "agent"} => queue # << >>
    /\ (out # << >>) = (pc = "ok")

\* resolveEncryptionRecipients and serializeRecipientKeys together: what is
\* written has one packet for the encryption key of each certificate some -r
\* or -R names, and for no other key; it is hidden if the last of the options
\* that name the certificate is -R.
LastSpecWins ==
    \A i \in DOMAIN out : cmd.encrypt =>
        LET Names(c) == {n \in DOMAIN cmd.specs : Matches[cmd.specs[n].query] = {c}}
            final(c) == CHOOSE n \in Names(c) : \A m \in Names(c) : m <= n
            named    == {c \in Certs : Names(c) # {}}
        IN  /\ Len(out[i].to) = Cardinality(named)
            /\ ToSet(out[i].to) = {[key |-> EncKey[c], hidden |-> cmd.specs[final(c)].hidden] : c \in named}

\* Whatever the way to the signature, what is written is signed if and only if
\* the command says so, by a key of the chosen certificate that may sign.
SignedAsAsked ==
    \A i \in DOMAIN out :
        IF cmd.sign
        THEN /\ out[i].by \in ToSet(Candidates(signer))
             /\ cmd.user # NoUser => signer \in Matches[cmd.user]
        ELSE out[i].by = NoKey

\* agentSigningTarget: key files are opened only if the agent is not there or
\* holds none of the signing keys it could use.
AgentPreferred ==
    cmd.sign /\ faults = 0 /\ pc \in {"unlock", "seal"} =>
        ~agent.up \/ {k \in ToSet(Candidates(signer)) : AgentSigns(k)} \intersect agent.holds = {}

\* A command with proper recipients and one signer is given up only if the
\* agent or hashName refused, or the preferred signing key cannot be had from its file, or
\* (but for plain -s) the primary key cannot.
SignsIfItCan ==
    pc = "failed" /\ cmd.sign /\ ~refused /\ Cardinality(Picked) = 1 =>
        \/ cmd.encrypt /\ (cmd.specs = << >> \/ next <= Len(cmd.specs) \/ ~Encryptable)
        \/ \E c \in Picked :
              \/ Best[c] = NoKey \/ ~Readable(Best[c])
              \/ cmd.form # "embedded" /\ ~Readable(Head(Keys[c]))
=============================================================================
