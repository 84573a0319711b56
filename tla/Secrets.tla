------------------------------ MODULE Secrets ------------------------------
(***************************************************************************)
(* Where the secret keys are: in key files, which may be locked or mere    *)
(* stubs for a smartcard, and in a gpg-agent, whose cards come and go.     *)
(***************************************************************************)
EXTENDS MailData

CONSTANTS
    Homes,      \* what the key files may hold: functions on Key
    Agents      \* what a gpg-agent may hold: records [up, holds, ready, cached]

VARIABLES
    file,       \* file[k]: "absent", "stub", "open" or "locked"
    willing,    \* certificates whose passphrase the user has
    agent       \* is the agent up, and which keys does it hold, have at hand,
                \* and have the passphrase of

home == <<file, willing>>
File == {"absent", "stub", "open", "locked"}

ASSUME SecretsAssumption ==
    /\ Homes \subseteq [Key -> File]
    /\ Agents \subseteq [up : BOOLEAN, holds : SUBSET Key, ready : SUBSET Key, cached : SUBSET Key]

SecretsInit == file \in Homes /\ willing \in SUBSET Certs /\ agent \in Agents

SecretsTyped ==
    /\ file \in [Key -> File] /\ willing \subseteq Certs
    /\ agent \in [up : BOOLEAN, holds : SUBSET Key, ready : SUBSET Key, cached : SUBSET Key]

-----------------------------------------------------------------------------
(* The key files.                                                           *)

\* Store.SecretKeys: the certificates with a key file for one of their keys.
HasFile(c)  == \E k \in ToSet(Keys[c]) : HasGrip(k) /\ file[k] # "absent"
SecretKeys  == Keep(Ring, {c \in Certs : HasFile(c)})

\* attachOne: the keys of c with a readable key file, given c's passphrase.
Attachable(c, right) ==
    {k \in ToSet(Keys[c]) : HasGrip(k) /\ (file[k] = "open" \/ (right /\ file[k] = "locked"))}

Protected(c) == \E k \in ToSet(Keys[c]) : HasGrip(k) /\ file[k] = "locked"

\* unlockKey: what gets attached, or that it fails.  No passphrase is an error,
\* a wrong one only if no key can do without.
Unlocks(c, got) ==
    /\ got # {}
    /\ \/ got = Attachable(c, FALSE) /\ (Protected(c) => c \notin willing)
       \/ got = Attachable(c, TRUE) /\ Protected(c) /\ c \in willing
UnlockFails(c) ==
    \/ Protected(c) /\ c \notin willing
    \/ Attachable(c, TRUE) = {}

\* k can be unlocked from its key file by a user with the passphrase, if any.
Readable(k) ==
    /\ k \in Key
    /\ Protected(CertOf(k)) => CertOf(k) \in willing
    /\ k \in Attachable(CertOf(k), TRUE)

-----------------------------------------------------------------------------
(* gpg-agent.                                                               *)

\* The agent must get at the key, which for a smartcard means that it is in
\* the reader, and have its passphrase cached or get it.
AgentCan(k)  == agent.up /\ k \in agent.ready /\ (k \in agent.cached \/ CertOf(k) \in willing)
AgentUses(k) == agent' = [agent EXCEPT !.cached = @ \union {k}]

CardOut(k) == k \in agent.ready /\ agent' = [agent EXCEPT !.ready = @ \ {k}]
AgentGone  == agent.up /\ agent' = [up |-> FALSE, holds |-> {}, ready |-> {}, cached |-> {}]
=============================================================================
