------------------------------ MODULE KeyStore ------------------------------
(***************************************************************************)
(* The key store of gpg-go: the public keybox (pubring.kbx) and the secret *)
(* key files (private-keys-v1.d/<keygrip>.key) of one home directory, and  *)
(* the gpg-go processes that work on them.  Each process runs one command: *)
(* it reads the keybox into memory, works on that copy and, at the end,    *)
(* writes the whole copy back, while secret key files are written and      *)
(* removed one at a time as it goes.  Nothing locks the directory, and a   *)
(* file is written by os.WriteFile: truncated first, filled afterwards.    *)
(***************************************************************************)
EXTENDS KeyData

CONSTANTS
    Proc,       \* the gpg-go processes, one command each
    InitBoxes,  \* keyboxes the home directory may start with
    Cards,      \* keygrips that may start out as smartcard stubs
    Ops,        \* the commands in use
    Overlap,    \* may commands run at the same time?
    MaxFaults   \* bound on I/O errors and killed processes

\* No entry of s repeats the fingerprint of an earlier one.
Unique(s) == \A i, j \in DOMAIN s : s[i].fpr = s[j].fpr => i = j

ASSUME StoreAssumption ==
    /\ InitBoxes \subseteq {s \in Seq(Blob) : Unique(s)}
    /\ Cards \subseteq Grip /\ Ops \subseteq Ops_all
    /\ Overlap \in BOOLEAN /\ MaxFaults \in Nat

VARIABLES
    box,        \* the entries of pubring.kbx, or Torn
    sec,        \* sec[g]: the content of g's secret key file
    pc,         \* pc[p]: what process p does next, or how it ended
    cmd,        \* cmd[p]: the command p runs
    mem,        \* mem[p]: Store.blobs, p's copy of the keybox
    at,         \* at[p]: the key block p is importing
    todo,       \* todo[p]: keygrips p still has to write, remove or read
    pass,       \* pass[p]: the passphrase p works with
    got,        \* got[p]: the keygrips whose secrets p has attached
    unlinked,   \* processes whose open key file was removed under them
    clash,      \* history: two processes were inside SavePublic at once
    fresh,      \* history: processes since whose Open no other has saved
    faults      \* history: I/O errors and kills so far

disk  == <<box, sec>>
local == <<cmd, mem, at, todo, pass, got>>
ghost == <<clash, fresh, faults>>
vars  == <<disk, pc, local, unlinked, ghost>>

Ended == {"ok", "failed", "ioerror", "killed"}
Steps == {"next", "create", "fill", "save", "write", "find", "remove",
          "probe", "attach"}
Active(p) == pc[p] \in Steps

Goto(p, label) == pc' = [pc EXCEPT ![p] = label]

-----------------------------------------------------------------------------
(* The in-memory keybox.                                                    *)

Has(s, f)   == \E i \in DOMAIN s : s[i].fpr = f
First(s, f) == CHOOSE i \in DOMAIN s :
                  s[i].fpr = f /\ \A j \in 1..(i - 1) : s[j].fpr # f

\* Mistake: AddPublic that does not look for an entry to replace.
AddPublicAppends(s, b) == Append(s, b)

\* Store.AddPublic: the new entry takes the place of the first one with its
\* fingerprint, or goes to the end.
AddPublic(s, b) ==
    IF Has(s, b.fpr) THEN [s EXCEPT ![First(s, b.fpr)] = b] ELSE Append(s, b)

\* Mistake: DeletePublic that drops what follows the entry, too.
DeletePublicCuts(s, f) == IF Has(s, f) THEN SubSeq(s, 1, First(s, f) - 1) ELSE s

\* Store.DeletePublic: the first entry with the fingerprint goes.
DeletePublic(s, f) ==
    IF Has(s, f)
    THEN LET i == First(s, f)
         IN  [j \in 1..(Len(s) - 1) |-> IF j < i THEN s[j] ELSE s[j + 1]]
    ELSE s

Prefix(s, k) == SubSeq(s, 1, k)

\* Writing `new` from offset 0 over the content `old`: what sticks out of old
\* stays behind, cut at an entry boundary or inside an entry.  A file that
\* was just truncated leaves nothing behind.
Overlay(new, old) ==
    CASE old = << >> -> {new}
      [] old = Torn  -> {new, Torn}
      [] OTHER       -> IF new = << >> THEN {old}
                        ELSE {new, Torn} \union
                             {new \o SubSeq(old, k, Len(old)) : k \in 2..Len(old)}

-----------------------------------------------------------------------------
Init ==
    /\ box \in InitBoxes
    /\ \E C \in SUBSET Cards : sec = [g \in Grip |-> IF g \in C THEN Stub ELSE Absent]
    /\ pc = [p \in Proc |-> "start"]
    /\ cmd = [p \in Proc |-> NoCmd]
    /\ mem = [p \in Proc |-> << >>]
    /\ at = [p \in Proc |-> 1]
    /\ todo = [p \in Proc |-> << >>]
    /\ pass = [p \in Proc |-> NoPass]
    /\ got = [p \in Proc |-> {}]
    /\ unlinked = {}
    /\ clash = FALSE /\ fresh = {} /\ faults = 0

-----------------------------------------------------------------------------
(* Starting a command: parse its input, then Open the store.                *)

\* Fingerprints of generated keys do not repeat.
Unused(f) == \A q \in Proc : cmd[q].op = "gen" => cmd[q].fpr # f

Commands == {c \in GenCommands({f \in New : Unused(f)}) \union ImportCommands \union KeyCommands :
               c.op \in Ops}

\* keystore.Open: an unreadable keybox ends the command, a missing or an
\* empty one does not.
Open(p, c) ==
    /\ pc[p] = "start"
    /\ Overlap \/ \A q \in Proc : ~Active(q)
    /\ cmd' = [cmd EXCEPT ![p] = c]
    /\ IF box = Torn
       THEN /\ Goto(p, "failed")
            /\ UNCHANGED <<mem, fresh>>
       ELSE /\ mem' = [mem EXCEPT ![p] = box]
            /\ fresh' = fresh \union {p}
            /\ Goto(p, IF c.op \in {"gen", "import"} THEN "next" ELSE "find")
    /\ UNCHANGED <<disk, at, todo, pass, got, unlinked, clash, faults>>

-----------------------------------------------------------------------------
(* --gen-key and --import.                                                  *)

Block(p) == cmd[p].file[at[p]]

\* Mistake: one turn of the import loop too many.
AfterBlockOnceMore(p) == IF at[p] <= Len(cmd[p].file) THEN "next" ELSE "save"

\* Where the import loop goes once key block at[p] is done.
AfterBlock(p) == IF at[p] < Len(cmd[p].file) THEN "next" ELSE "save"

ImportPublic(p) ==
    /\ pc[p] = "next"
    /\ Block(p).lock = Public
    /\ mem' = [mem EXCEPT ![p] = AddPublic(mem[p], BlobOf(Block(p)))]
    /\ at' = [at EXCEPT ![p] = at[p] + 1]
    /\ Goto(p, AfterBlock(p))
    /\ UNCHANGED <<disk, cmd, todo, pass, got, unlinked, ghost>>

\* The user has given the passphrase of a locked block; AddSecretKey puts the
\* public part into memory and protects the key files with that passphrase.
ImportSecret(p) ==
    /\ pc[p] = "next"
    /\ Block(p).lock # Public
    /\ Components(Block(p)) # << >>
    /\ mem' = [mem EXCEPT ![p] = AddPublic(mem[p], BlobOf(Block(p)))]
    /\ todo' = [todo EXCEPT ![p] = Components(Block(p))]
    /\ pass' = [pass EXCEPT ![p] = Block(p).lock]
    /\ Goto(p, "create")
    /\ UNCHANGED <<disk, cmd, at, got, unlinked, ghost>>

\* No passphrase or a wrong one for a locked block, or no key in it this tool
\* can store: the command ends there, with nothing saved.
ImportRefused(p) ==
    /\ pc[p] = "next"
    /\ Block(p).lock # Public
    /\ \/ cmd[p].op = "import" /\ Block(p).lock \in Pass
       \/ Components(Block(p)) = << >>
    /\ Goto(p, "failed")
    /\ UNCHANGED <<disk, local, unlinked, ghost>>

\* os.WriteFile of a key file, first half: create or truncate it.
CreateKey(p) ==
    /\ pc[p] = "create"
    /\ sec' = [sec EXCEPT ![Head(todo[p])] = Torn]
    /\ unlinked' = unlinked \ {p}
    /\ Goto(p, "fill")
    /\ UNCHANGED <<box, local, ghost>>

\* Mistake: every turn of the loop writes to the last component's file name.
FillKeyLast(p) ==
    /\ pc[p] = "fill"
    /\ sec' = IF p \in unlinked THEN sec
              ELSE [sec EXCEPT ![todo[p][Len(todo[p])]] = pass[p]]
    /\ todo' = [todo EXCEPT ![p] = Tail(todo[p])]
    /\ IF Tail(todo[p]) # << >>
       THEN at' = at /\ Goto(p, "create")
       ELSE at' = [at EXCEPT ![p] = at[p] + 1] /\ Goto(p, AfterBlock(p))
    /\ UNCHANGED <<box, cmd, mem, pass, got, unlinked, ghost>>

\* Second half: fill it.  The reader stops at the end of the S-expression, so
\* a longer text below does not matter; a file removed meanwhile stays removed.
FillKey(p) ==
    /\ pc[p] = "fill"
    /\ sec' = IF p \in unlinked THEN sec ELSE [sec EXCEPT ![Head(todo[p])] = pass[p]]
    /\ todo' = [todo EXCEPT ![p] = Tail(todo[p])]
    /\ IF Tail(todo[p]) # << >>
       THEN at' = at /\ Goto(p, "create")
       ELSE at' = [at EXCEPT ![p] = at[p] + 1] /\ Goto(p, AfterBlock(p))
    /\ UNCHANGED <<box, cmd, mem, pass, got, unlinked, ghost>>

-----------------------------------------------------------------------------
(* Store.SavePublic: the whole keybox is written anew.                      *)

\* Mistake: the keybox is opened without O_TRUNC.
OpenBoxForWrite(p) ==
    /\ pc[p] = "save"
    /\ clash' = (clash \/ \E q \in Proc : pc[q] = "write")
    /\ fresh' = fresh \intersect {p}
    /\ Goto(p, "write")
    /\ UNCHANGED <<disk, local, unlinked, faults>>

TruncateBox(p) ==
    /\ pc[p] = "save"
    /\ box' = << >>
    /\ clash' = (clash \/ \E q \in Proc : pc[q] = "write")
    /\ fresh' = fresh \intersect {p}
    /\ Goto(p, "write")
    /\ UNCHANGED <<sec, local, unlinked, faults>>

WriteBox(p) ==
    /\ pc[p] = "write"
    /\ box' \in Overlay(mem[p], box)
    /\ fresh' = fresh \intersect {p}
    /\ Goto(p, "ok")
    /\ UNCHANGED <<sec, local, unlinked, clash, faults>>

-----------------------------------------------------------------------------
(* Finding a key, and the --delete commands.                                *)

HasSecret(b) == \E i \in 1..b.n : sec[Keys[b.fpr][i]] # Absent

\* The entries among PublicKeys or SecretKeys that the query names.
Matches(p) == {i \in DOMAIN mem[p] :
                 /\ mem[p][i].fpr = cmd[p].fpr /\ mem[p][i].n > 0
                 /\ cmd[p].op # "delete-keys" => HasSecret(mem[p][i])}

\* uniqueKey: anything but one match ends the command.
Find(p) ==
    /\ pc[p] = "find"
    /\ IF \E i \in DOMAIN mem[p] : Matches(p) = {i}
       THEN LET i == CHOOSE j \in DOMAIN mem[p] : Matches(p) = {j}
            IN  IF DeletesSecret(cmd[p].op) \/ cmd[p].op = "unlock"
                THEN /\ todo' = [todo EXCEPT ![p] = KeygripsFor(mem[p][i])]
                     /\ Goto(p, IF DeletesSecret(cmd[p].op) THEN "remove" ELSE "probe")
                     /\ UNCHANGED mem
                ELSE /\ mem' = [mem EXCEPT ![p] = DeletePublic(mem[p], cmd[p].fpr)]
                     /\ Goto(p, "save")
                     /\ UNCHANGED todo
       ELSE Goto(p, "failed") /\ UNCHANGED <<mem, todo>>
    /\ UNCHANGED <<disk, cmd, at, pass, got, unlinked, ghost>>

\* Mistake: a missing key file makes the deletion start over.
RemoveKeyRetries(p) ==
    /\ pc[p] = "remove"
    /\ sec' = [sec EXCEPT ![Head(todo[p])] = Absent]
    /\ todo' = [todo EXCEPT ![p] = Tail(todo[p])]
    /\ Goto(p, IF sec[Head(todo[p])] = Absent THEN "find"
               ELSE IF Tail(todo[p]) # << >> THEN "remove" ELSE "ok")
    /\ UNCHANGED <<box, cmd, mem, at, pass, got, unlinked, ghost>>

\* Store.DeleteSecretKey: one key file after the other, a missing one is no
\* error; then, for --delete-secret-and-public-key, the public entry.
RemoveKey(p) ==
    /\ pc[p] = "remove"
    /\ LET g == Head(todo[p])
       IN  /\ sec' = [sec EXCEPT ![g] = Absent]
           /\ unlinked' = unlinked \union {q \in Proc : pc[q] = "fill" /\ Head(todo[q]) = g}
           /\ got' = [got EXCEPT ![p] = IF sec[g] = Absent THEN @ ELSE @ \union {g}]
    /\ todo' = [todo EXCEPT ![p] = Tail(todo[p])]
    /\ IF Tail(todo[p]) # << >>
       THEN Goto(p, "remove") /\ UNCHANGED mem
       ELSE IF DeletesPublic(cmd[p].op)
       THEN /\ mem' = [mem EXCEPT ![p] = DeletePublic(mem[p], cmd[p].fpr)]
            /\ Goto(p, "save")
       ELSE /\ Goto(p, IF got'[p] = {} THEN "failed" ELSE "ok")
            /\ UNCHANGED mem
    /\ UNCHANGED <<box, cmd, at, pass, ghost>>

-----------------------------------------------------------------------------
(* unlockKey, as used to sign, decrypt and export.                          *)

\* Store.SecretIsProtected: one of the key files that can be read is.
Protected(p) == \E i \in DOMAIN todo[p] : sec[todo[p][i]] \in Pass

\* ResolvePassphrase: what the user, an option or a file may answer.
Answers == Pass \union {NoPass}

\* A passphrase is asked for only if the key is protected.
Probe(p) ==
    /\ pc[p] = "probe"
    /\ IF Protected(p)
       THEN \/ \E x \in Answers : /\ pass' = [pass EXCEPT ![p] = x]
                                               /\ Goto(p, "attach")
            \/ Goto(p, "failed") /\ UNCHANGED pass
       ELSE pass' = [pass EXCEPT ![p] = NoPass] /\ Goto(p, "attach")
    /\ UNCHANGED <<disk, cmd, mem, at, todo, got, unlinked, ghost>>

\* Mistake: the first key file that cannot be unlocked ends the loop.
AttachStops(p) ==
    /\ pc[p] = "attach"
    /\ LET g == Head(todo[p])
           usable == sec[g] = NoPass \/ (sec[g] \in Pass /\ sec[g] = pass[p])
       IN  /\ got' = [got EXCEPT ![p] = IF usable THEN @ \union {g} ELSE @]
           /\ Goto(p, IF usable /\ Tail(todo[p]) # << >> THEN "attach"
                      ELSE IF got'[p] = {} THEN "failed" ELSE "ok")
    /\ todo' = [todo EXCEPT ![p] = Tail(todo[p])]
    /\ UNCHANGED <<disk, cmd, mem, at, pass, unlinked, ghost>>

\* AttachSecret: one key file after the other; a key that cannot be read or
\* unlocked is left out, and only having none is an error.  (attachOne's errors
\* are for a key that unlocks and lacks a number; a file holds all or is Torn.)
Attach(p) ==
    /\ pc[p] = "attach"
    /\ LET g == Head(todo[p])
       IN  got' = [got EXCEPT ![p] = IF sec[g] = NoPass \/ (sec[g] \in Pass /\ sec[g] = pass[p])
                                     THEN @ \union {g} ELSE @]
    /\ todo' = [todo EXCEPT ![p] = Tail(todo[p])]
    /\ Goto(p, IF Tail(todo[p]) # << >> THEN "attach"
               ELSE IF got'[p] = {} THEN "failed" ELSE "ok")
    /\ UNCHANGED <<disk, cmd, mem, at, pass, unlinked, ghost>>

-----------------------------------------------------------------------------
(* What may go wrong outside the program.                                   *)

Fault(p) == faults < MaxFaults /\ Active(p) /\ faults' = faults + 1

\* Opening, writing or removing a file fails: the command ends.
IOError(p) ==
    /\ Fault(p)
    /\ pc[p] \in {"create", "fill", "save", "remove"}
    /\ Goto(p, "ioerror")
    /\ UNCHANGED <<disk, local, unlinked, clash, fresh>>

\* The keybox or a key file was truncated and only a part of it gets written.
BoxWriteError(p) ==
    /\ Fault(p)
    /\ pc[p] = "write"
    /\ \E k \in 0..Len(mem[p]) : box' \in Overlay(Prefix(mem[p], k), box) \union {box, Torn}
    /\ fresh' = fresh \intersect {p}
    /\ Goto(p, "ioerror")
    /\ UNCHANGED <<sec, local, unlinked, clash>>

KeyWriteError(p) ==
    /\ Fault(p)
    /\ pc[p] = "fill" /\ p \notin unlinked
    /\ sec' = [sec EXCEPT ![Head(todo[p])] = Torn]
    /\ Goto(p, "ioerror")
    /\ UNCHANGED <<box, local, unlinked, clash, fresh>>

Kill(p) ==
    /\ Fault(p)
    /\ Goto(p, "killed")
    /\ UNCHANGED <<disk, local, unlinked, clash, fresh>>

-----------------------------------------------------------------------------
Continue(p) ==
    \/ ImportPublic(p) \/ ImportSecret(p) \/ ImportRefused(p)
    \/ CreateKey(p) \/ FillKey(p)
    \/ TruncateBox(p) \/ WriteBox(p)
    \/ Find(p) \/ RemoveKey(p)
    \/ Probe(p) \/ Attach(p)

Finished == (\A p \in Proc : pc[p] \in Ended) /\ UNCHANGED vars

Next ==
    \/ \E p \in Proc : \/ \E c \in Commands : Open(p, c)
                       \/ Continue(p)
                       \/ IOError(p) \/ BoxWriteError(p) \/ KeyWriteError(p) \/ Kill(p)
    \/ Finished

Spec == Init /\ [][Next]_vars

\* A running process goes on; the user answers its prompts.
FairSpec == Spec /\ \A p \in Proc : WF_vars(Continue(p))

-----------------------------------------------------------------------------
(* Properties.                                                              *)

\* Types: the keybox is a sequence of entries or torn, a key file holds one of
\* the contents it can have, every process is at one of its steps, and it is
\* in the step that suits its command, with something left to do there.
TypeOK ==
    /\ box \in Seq(Blob) \union {Torn}
    /\ sec \in [Grip -> KeyFile]
    /\ pc \in [Proc -> {"start"} \union Steps \union Ended]
    /\ cmd \in [Proc -> Command \union {NoCmd}]
    /\ mem \in [Proc -> Seq(Blob)]
    /\ at \in [Proc -> Nat \ {0}]
    /\ todo \in [Proc -> Seq(Grip)]
    /\ pass \in [Proc -> Pass \union {NoPass}]
    /\ got \in [Proc -> SUBSET Grip]
    /\ unlinked \subseteq Proc
    /\ clash \in BOOLEAN /\ fresh \subseteq Proc /\ faults \in 0..MaxFaults
    /\ \A p \in Proc :
          /\ pc[p] = "start" => at[p] = 1
          /\ pc[p] \in {"next", "create", "fill"} => at[p] \in DOMAIN cmd[p].file
          /\ pc[p] \in {"create", "fill", "remove", "probe", "attach"} => todo[p] # << >>

\* AddPublic replaces the entry with the same primary fingerprint, so as long
\* as no two saves have run into each other neither the keybox nor any copy of
\* it lists a certificate twice.
OneEntryPerKey ==
    ~clash => /\ box # Torn => Unique(box)
              /\ \A p \in Proc : Unique(mem[p])

\* The keybox becomes unreadable, which locks every later command out, only
\* after an I/O error or after two overlapping saves.
TornBoxExplained == box = Torn => clash \/ faults > 0

\* Without I/O errors and kills a cut-off key file is one that a process is
\* about to fill: it never stays.
TornKeyInHand ==
    \A g \in Grip : sec[g] = Torn =>
        \/ faults > 0
        \/ \E p \in Proc : pc[p] = "fill" /\ p \notin unlinked /\ Head(todo[p]) = g

\* The certificates a command is about.
Subject(p) == {cmd[p].file[i].fpr : i \in DOMAIN cmd[p].file} \union {cmd[p].fpr}
Entries(s, f) == {s[i] : i \in {j \in DOMAIN s : s[j].fpr = f}}

\* A command whose copy of the keybox is not stale is about to save it: it
\* writes back the entries of every certificate it is not about unchanged.
SaveKeepsOthers ==
    \A p \in fresh : pc[p] = "save" =>
        \A f \in Fpr \ Subject(p) : Entries(mem[p], f) = Entries(box, f)

\* Every command comes to an end, whatever the other processes do.
Terminates == \A p \in Proc : Active(p) ~> pc[p] \in Ended
=============================================================================
