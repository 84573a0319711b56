--------------------------- MODULE KeyStoreSerial ---------------------------
(***************************************************************************)
(* Commands that run one after the other: KeyStore with a history variable *)
(* that keeps the disk as it was when no command was running.  Seen there, *)
(* gpg-go keeps the promises of KeyRing, interrupted commands included.    *)
(***************************************************************************)
EXTENDS KeyStore

VARIABLES box0, sec0    \* the disk as last seen with no command running

svars == <<vars, box0, sec0>>

SInit == Init /\ box0 = box /\ sec0 = sec

Idle == \A p \in Proc : ~Active(p)

SNext == Next /\ IF Idle' THEN box0' = box' /\ sec0' = sec' ELSE UNCHANGED <<box0, sec0>>

SSpec == SInit /\ [][SNext]_svars

Ring == INSTANCE KeyRing WITH
    pub <- IF box0 = Torn THEN Torn ELSE {box0[i] : i \in DOMAIN box0},
    sec <- sec0,
    req <- [p \in Proc |-> IF pc[p] \in Ended THEN cmd[p] ELSE NoCmd],
    out <- [p \in Proc |-> IF pc[p] \in Ended THEN pc[p] ELSE "none"]

\* One command at a time behaves as KeyRing says: imports and deletions take
\* effect as a whole, refused commands leave the public keys alone, and an
\* interrupted one does no harm beyond its own keys and the keybox.
KeepsPromises == Ring!Spec

\* The entry that p's command is about, in p's copy of the keybox.
Used(p) == CHOOSE b \in {mem[p][i] : i \in DOMAIN mem[p]} : b.fpr = cmd[p].fpr

\* Unlocking a key attaches exactly the key files that can be read and are not
\* protected or protected with the passphrase given, and works if there is one.
UnlockExact ==
    [][\A p \in Proc : pc[p] = "attach" /\ pc'[p] \in {"ok", "failed"} =>
          /\ got'[p] = {g \in Grip : /\ \E i \in 1..Used(p).n : Keys[Used(p).fpr][i] = g
                                    /\ sec[g] \in {NoPass, pass[p]}}
          /\ pc'[p] = "ok" <=> got'[p] # {}]_svars

\* "AddSecretKey ... ensures the public part is present in the keybox too"
\* (internal/keystore/keystore.go:201): between commands, a stored secret key
\* has an entry in the keybox that lists it.
SecretHasPublic ==
    Idle => \A g \in Grip : sec[g] \in Pass \union {NoPass} =>
        /\ box # Torn
        /\ \E i \in DOMAIN box : g \in {KeygripsFor(box[i])[j] : j \in 1..box[i].n}
=============================================================================
