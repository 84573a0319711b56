------------------------------ MODULE KeyRing ------------------------------
(***************************************************************************)
(* What one gpg-go command promises about the key ring, seen from before   *)
(* and after it: a set of public entries (or an unreadable keybox) and the *)
(* secret key files.  An import enters all its certificates or none, the   *)
(* deletions remove what they name and nothing else, a refused command     *)
(* says so, and an interrupted one does bounded harm.                      *)
(***************************************************************************)
EXTENDS KeyData

CONSTANTS Proc, InitBoxes, Cards, Ops

VARIABLES pub,  \* the entries of the keybox, as a set, or Torn
          sec,  \* the secret key files
          req,  \* req[p]: the command p ran
          out   \* out[p]: "none" before p has run, then how it ended

vars == <<pub, sec, req, out>>

EntriesOf(s) == {s[i] : i \in DOMAIN s}

Init == /\ pub \in {EntriesOf(s) : s \in InitBoxes}
        /\ \E C \in SUBSET Cards : sec = [g \in Grip |-> IF g \in C THEN Stub ELSE Absent]
        /\ req = [p \in Proc |-> NoCmd]
        /\ out = [p \in Proc |-> "none"]

Ends(p, c, how) == /\ out[p] = "none"
                   /\ out' = [out EXCEPT ![p] = how]
                   /\ req' = [req EXCEPT ![p] = c]

\* The public entries once all of file s has been imported: for every
\* certificate in s the last of its copies, whatever was there before.
PubAfter(s) ==
    {e \in pub : \A i \in DOMAIN s : s[i].fpr # e.fpr} \union
    {BlobOf(s[i]) : i \in {j \in DOMAIN s : \A k \in (j + 1)..Len(s) : s[k].fpr # s[j].fpr}}

\* The blocks among the first k of s that bring the secret key g.
Bringing(s, k, g) ==
    {i \in 1..k : s[i].lock # Public /\ \E j \in DOMAIN Components(s[i]) : Components(s[i])[j] = g}

\* The key files once the first k blocks of s are in: a key is protected with
\* the passphrase of the last block that brought it.
SecAfter(s, k) ==
    [g \in Grip |->
       LET I == Bringing(s, k, g)
       IN  IF I = {} THEN sec[g]
           ELSE s[CHOOSE i \in I : \A j \in I : j <= i].lock]

Import(p, c) ==
    /\ Ends(p, c, "ok")
    /\ pub # Torn
    /\ pub' = PubAfter(c.file)
    /\ sec' = SecAfter(c.file, Len(c.file))

\* Refused at a block that is a secret key: no certificate is entered, but the
\* secret keys of the blocks before it are stored.
ImportRefused(p, c) ==
    /\ Ends(p, c, "failed")
    /\ pub # Torn
    /\ \E k \in DOMAIN c.file :
          /\ c.file[k].lock # Public
          /\ c.file[k].lock \in Pass \/ Components(c.file[k]) = << >>
          /\ sec' = SecAfter(c.file, k - 1)
    /\ UNCHANGED pub

Listed(e, g) == \E i \in 1..e.n : Keys[e.fpr][i] = g
HasSecret(e) == \E g \in Grip : Listed(e, g) /\ sec[g] # Absent
Without(e)   == [g \in Grip |-> IF Listed(e, g) THEN Absent ELSE sec[g]]

\* The entry a key command names, among those it looks at.
Named(c) == {e \in pub : e.fpr = c.fpr /\ e.n > 0 /\ (c.op # "delete-keys" => HasSecret(e))}

Delete(p, c) ==
    /\ Ends(p, c, "ok")
    /\ \E e \in Named(c) :
          /\ pub' = IF DeletesPublic(c.op) THEN pub \ {e} ELSE pub
          /\ sec' = IF DeletesSecret(c.op) THEN Without(e) ELSE sec

\* A use of a secret key changes nothing.  It works only if one of the key
\* files can be unlocked, and fails for a key without protection only if none
\* can be read.
Unlock(p, c) ==
    /\ UNCHANGED <<pub, sec>>
    /\ \E e \in Named(c) :
          \/ /\ Ends(p, c, "ok")
             /\ \E g \in Grip : Listed(e, g) /\ sec[g] \in Pass \union {NoPass}
          \/ /\ Ends(p, c, "failed")
             /\ \/ \E g \in Grip : Listed(e, g) /\ sec[g] \in Pass
                \/ \A g \in Grip : Listed(e, g) => sec[g] # NoPass

\* With an unreadable keybox, or nothing the key command names, nothing is done.
Fails(p, c) ==
    /\ Ends(p, c, "failed")
    /\ pub = Torn \/ (c \in KeyCommands /\ Named(c) = {})
    /\ UNCHANGED <<pub, sec>>

\* At most one key file is left cut off that was not before.
NewlyTorn(g) == sec[g] # Torn /\ sec'[g] = Torn
OneTorn == \A g, h \in Grip : NewlyTorn(g) /\ NewlyTorn(h) => g = h

\* An interrupted import touches only key files it brings, and the keybox
\* only once all of those are in place.
ImportInterrupted(p, c) ==
    /\ pub # Torn
    /\ \A g \in Grip : sec'[g] \in {sec[g]} \union
           (IF Bringing(c.file, Len(c.file), g) = {} THEN {}
            ELSE {c.file[i].lock : i \in Bringing(c.file, Len(c.file), g)} \union {Torn})
    /\ OneTorn
    /\ \/ pub' = pub
       \/ /\ sec' = SecAfter(c.file, Len(c.file))
          /\ pub' = Torn \/ pub' \subseteq PubAfter(c.file)

\* An interrupted deletion removes no other key file, and touches the keybox
\* only once all of those are gone.
DeleteInterrupted(p, c) ==
    \E e \in Named(c) :
       /\ \A g \in Grip : \/ sec'[g] = sec[g]
                          \/ DeletesSecret(c.op) /\ Listed(e, g) /\ sec'[g] = Absent
       /\ \/ pub' = pub
          \/ /\ DeletesPublic(c.op)
             /\ DeletesSecret(c.op) => sec' = Without(e)
             /\ pub' = Torn \/ pub' \subseteq pub \ {e}

Interrupted(p, c) ==
    /\ Ends(p, c, "ioerror") \/ Ends(p, c, "killed")
    /\ \/ UNCHANGED <<pub, sec>>
       \/ c \notin KeyCommands /\ ImportInterrupted(p, c)
       \/ c \in KeyCommands /\ c.op # "unlock" /\ pub # Torn /\ DeleteInterrupted(p, c)

Imports(p) == \E c \in ImportCommands \union GenCommands(New) :
                 c.op \in Ops /\ (Import(p, c) \/ ImportRefused(p, c) \/ Fails(p, c) \/ Interrupted(p, c))
KeyUses(p) == \E c \in KeyCommands :
                 /\ c.op \in Ops
                 /\ \/ Fails(p, c) \/ Interrupted(p, c)
                    \/ pub # Torn /\ (IF c.op = "unlock" THEN Unlock(p, c) ELSE Delete(p, c))

Next == \E p \in Proc : Imports(p) \/ KeyUses(p)

Spec == Init /\ [][Next]_vars
=============================================================================
