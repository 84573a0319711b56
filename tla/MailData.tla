------------------------------ MODULE MailData ------------------------------
(***************************************************************************)
(* Messages and the keys they are for, as far as gpg-go's encryption and   *)
(* decryption tell them apart.                                             *)
(***************************************************************************)
EXTENDS Integers, Sequences, FiniteSets, SequencesExt

CONSTANTS
    Ring,       \* the certificates of the keybox, in order
    Keys,       \* Keys[c]: c's keys, the primary key first, then the subkeys
    Strangers,  \* keys of no certificate here
    Algo,       \* Algo[k]: "ed25519", "cv25519", "rsa", or "nist": ECDH on another curve
    Nobody      \* the signer of a message that is not signed

Certs == ToSet(Ring)
Key   == UNION {ToSet(Keys[c]) : c \in Certs}

\* A session key packet: whom it is for, and whether it says so.
Packet == [key : Key \union Strangers, hidden : BOOLEAN]

\* The forms of input --decrypt tells apart; a message's signature, and whether
\* its data can be read at all (by whoever has the key, if it is encrypted): it
\* is whole, and its session key is for a cipher the program knows.
Form    == {"symmetric", "detached", "clearsigned", "message"}
Message == [form : Form, to : Seq(Packet), signer : Certs \union Strangers \union {Nobody},
            intact : BOOLEAN, legible : BOOLEAN]

ASSUME MailAssumption ==
    /\ Ring \in Seq(Certs)
    /\ \A c \in Certs : Keys[c] \in Seq(Key) /\ Keys[c] # << >> /\ IsInjective(Keys[c])
    /\ \A c, d \in Certs : c # d => ToSet(Keys[c]) \intersect ToSet(Keys[d]) = {}
    /\ Key \intersect Strangers = {}
    /\ Algo \in [Key \union Strangers -> {"ed25519", "cv25519", "rsa", "nist"}]
    /\ \A c \in Certs : Algo[Keys[c][1]] # "cv25519"
    /\ Nobody \notin Certs \union Strangers

CertOf(k)  == CHOOSE c \in Certs : k \in ToSet(Keys[c])
Subkeys(c) == Tail(Keys[c])

\* opsutil.KeygripForPublicKey: the algorithms that have one.
HasGrip(k) == Algo[k] # "nist"

\* opsutil.AgentDecryptSupported.
AgentDecrypts(k) == Algo[k] = "cv25519"

\* opsutil.AgentSigningSupported; of its curves only Ed25519 has a keygrip.
AgentSigns(k) == Algo[k] \in {"ed25519", "rsa"}

\* The public-key algorithm number 18 of a session key packet covers ECDH on
\* every curve.
IsECDH(k) == Algo[k] \in {"cv25519", "nist"}

\* The elements of s that are in T, in order.  (SelectSeq does this, but the
\* prover knows nothing of it.)
Keep(s, T) == FlattenSeq([i \in DOMAIN s |-> IF s[i] \in T THEN << s[i] >> ELSE << >>])

\* Mistake: no duplicate is dropped.
DedupeNot(s) == s

\* dedupeKeys: the first of equal certificates stays.
Firsts[s \in Seq(Certs)] ==
    FlattenSeq([i \in DOMAIN s |-> IF \E j \in 1..(i - 1) : s[j] = s[i] THEN << >> ELSE << s[i] >>])
Dedupe(s) == Firsts[s]
=============================================================================
