------------------------------ MODULE KeyData ------------------------------
(***************************************************************************)
(* The data gpg-go's key store handles, as far as its operations tell it   *)
(* apart: certificates and the keys they list, the entries of the keybox,  *)
(* the contents of secret key files, and the key blocks a user imports.    *)
(***************************************************************************)
EXTENDS Integers, Sequences

CONSTANTS
    Fpr,        \* primary key fingerprints
    Grip,       \* keygrips, the names of the secret key files
    Keys,       \* Keys[f]: the keygrips of f's primary key and subkeys, in order
    Pass,       \* passphrases
    NoPass,     \* the empty passphrase; a key file that is not protected
    Public,     \* the lock of a key block that holds no secret key
    Absent,     \* no such key file
    Torn,       \* a file cut off in the middle: its parser rejects it
    Stub,       \* a smartcard stub: agentkey.ReadFile rejects it
    Files,      \* the inputs of --import: sequences of key blocks
    New         \* the fingerprints --gen-key may come up with

\* A keybox entry shows the first n keys of its certificate; n = 0 stands for
\* a key block ParseKeys rejects, which rebuildPub skips and SavePublic keeps.
Blob == {b \in [fpr : Fpr, n : Nat] : b.n <= Len(Keys[b.fpr])}

\* A key block to import: keys 1..n of fpr, of which from..n come with secret
\* material (from > 1: the primary key is a dummy) locked with a passphrase.
Copy == {c \in [fpr : Fpr, n : Nat, from : Nat, lock : Pass \union {NoPass, Public}] :
           c.n \in 1..Len(Keys[c.fpr]) /\ c.from >= 1}

KeyFile == Pass \union {NoPass, Absent, Torn, Stub}

Ops_all == {"gen", "import", "delete-keys", "delete-secret-keys",
            "delete-secret-and-public-key", "unlock"}
DeletesSecret(op) == op \in {"delete-secret-keys", "delete-secret-and-public-key"}
DeletesPublic(op) == op \in {"delete-keys", "delete-secret-and-public-key"}

Command == [op : Ops_all, fpr : Fpr \union {"none"}, file : Seq(Copy)]
NoCmd   == [op |-> "none", fpr |-> "none", file |-> << >>]

ASSUME KeysAssumption == Keys \in [Fpr -> Seq(Grip)]
ASSUME SentinelAssumption ==
    /\ \A x \in Pass : x \notin {NoPass, Public, Absent, Torn, Stub}
    /\ NoPass \notin {Public, Absent, Torn, Stub}
    /\ Absent \notin {Torn, Stub} /\ Torn # Stub
    /\ Torn \notin Seq(Blob)
    /\ \A E \in SUBSET UNION {[fpr : {f}, n : 0..Len(Keys[f])] : f \in Fpr} : Torn # E
ASSUME InputAssumption ==
    /\ Files \subseteq Seq(Copy) /\ << >> \notin Files
    /\ New \subseteq {f \in Fpr : Keys[f] # << >>}

-----------------------------------------------------------------------------
\* Mistake: only the primary key counts.
KeygripsForPrimary(b) == SubSeq(Keys[b.fpr], 1, 1)

\* Store.keygripsFor: the keys an entry lists.
KeygripsFor(b) == SubSeq(Keys[b.fpr], 1, b.n)

\* What ExtractPrivateComponents finds in a key block, in file order.
Components(c) == SubSeq(Keys[c.fpr], c.from, c.n)

BlobOf(c) == [fpr |-> c.fpr, n |-> c.n]

\* The key block --gen-key makes: a complete one, to be protected with x.
Generated(f, x) == [fpr |-> f, n |-> Len(Keys[f]), from |-> 1, lock |-> x]

GenCommands(free) == {[op |-> "gen", fpr |-> f, file |-> << Generated(f, x) >>] :
                        f \in free, x \in Pass \union {NoPass}}
ImportCommands == {[op |-> "import", fpr |-> "none", file |-> s] : s \in Files}
KeyCommands == {[op |-> o, fpr |-> f, file |-> << >>] :
                  o \in Ops_all \ {"gen", "import"}, f \in Fpr}
=============================================================================
