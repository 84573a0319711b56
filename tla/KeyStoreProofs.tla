--------------------------- MODULE KeyStoreProofs ---------------------------
(***************************************************************************)
(* Theorems about the key store, for any number of processes, certificates *)
(* and inputs, with any number of faults.  Those about KeyStore hold for   *)
(* commands that overlap, too; those about KeyStoreSerial are for commands *)
(* that run one after the other: such commands keep KeyRing's promises.    *)
(***************************************************************************)
EXTENDS KeyStoreSerial, SequenceLemmas

-----------------------------------------------------------------------------
(* The in-memory keybox.                                                    *)

\* First names the first entry with a fingerprint, if there is one.
LEMMA FirstIsFirst ==
    ASSUME NEW s \in Seq(Blob), NEW f, Has(s, f)
    PROVE  /\ First(s, f) \in 1..Len(s)
           /\ s[First(s, f)].fpr = f
           /\ \A j \in 1..(First(s, f) - 1) : s[j].fpr # f
<1> DEFINE T == {i \in Nat : i \in DOMAIN s /\ s[i].fpr = f}
<1>1. DOMAIN s = 1..Len(s) /\ Len(s) \in Nat
    BY LenProperties
<1>2. PICK i \in DOMAIN s : s[i].fpr = f
    BY DEF Has
<1>3. i \in T
    BY <1>1, <1>2
<1>4. PICK k \in T : \A j \in T : ~(<<j, k>> \in OpToRel(<, Nat))
    <2>1. T \subseteq Nat /\ T # {}
        BY <1>3
    <2> HIDE DEF T
    <2>2. QED BY <2>1, NatLessThanWellFounded, WFMin
<1>5. /\ k \in DOMAIN s /\ s[k].fpr = f
      /\ \A j \in 1..(k - 1) : s[j].fpr # f
    <2>1. k \in DOMAIN s /\ k \in 1..Len(s) /\ s[k].fpr = f
        BY <1>1
    <2>2. ASSUME NEW j \in 1..(k - 1), s[j].fpr = f PROVE FALSE
        <3>1. j \in T /\ j < k /\ k \in Nat
            BY <1>1, <2>1, <2>2
        <3>2. <<j, k>> \in OpToRel(<, Nat)
            BY <3>1 DEF OpToRel
        <3>3. QED BY <1>4, <3>1, <3>2
    <2>3. QED BY <2>1, <2>2
<1>6. QED BY <1>1, <1>5 DEF First

LEMMA AddPublicType ==
    ASSUME NEW s \in Seq(Blob), NEW b \in Blob
    PROVE  AddPublic(s, b) \in Seq(Blob)
<1>1. CASE Has(s, b.fpr)
    BY <1>1, FirstIsFirst, ExceptSeq DEF AddPublic
<1>2. CASE ~Has(s, b.fpr)
    BY <1>2, AppendProperties DEF AddPublic
<1>3. QED BY <1>1, <1>2

\* AddPublic keeps the fingerprints apart.
LEMMA AddPublicUnique ==
    ASSUME NEW s \in Seq(Blob), NEW b \in Blob, Unique(s)
    PROVE  Unique(AddPublic(s, b))
<1> DEFINE t == AddPublic(s, b)
<1>1. DOMAIN s = 1..Len(s) /\ Len(s) \in Nat
    BY LenProperties
<1>2. CASE Has(s, b.fpr)
    <2> DEFINE i == First(s, b.fpr)
    <2>1. i \in 1..Len(s) /\ s[i].fpr = b.fpr /\ t = [s EXCEPT ![i] = b]
        BY <1>2, FirstIsFirst DEF AddPublic
    <2> HIDE DEF i, t
    <2>2. DOMAIN t = DOMAIN s /\ \A j \in DOMAIN s : t[j].fpr = s[j].fpr
        BY <1>1, <2>1
    <2>3. QED BY <2>2 DEF Unique, t
<1>3. CASE ~Has(s, b.fpr)
    <2>1. t = Append(s, b)
        BY <1>3 DEF AddPublic
    <2> HIDE DEF t
    <2>2. /\ t \in Seq(Blob) /\ Len(t) = Len(s) + 1
          /\ \A j \in 1..Len(s) : t[j] = s[j]
          /\ t[Len(s) + 1] = b
        BY <2>1, AppendProperties
    <2>3. DOMAIN t = 1..(Len(s) + 1)
        BY <2>2, LenProperties
    <2>4. \A j \in 1..Len(s) : s[j].fpr # b.fpr
        BY <1>1, <1>3 DEF Has
    <2>5. \A j, k \in DOMAIN t : t[j].fpr = t[k].fpr => j = k
        BY <1>1, <2>2, <2>3, <2>4 DEF Unique
    <2>6. QED BY <2>5 DEF Unique, t
<1>4. QED BY <1>2, <1>3

\* What DeletePublic leaves, entry by entry.
LEMMA DeletePublicEntries ==
    ASSUME NEW s \in Seq(Blob), NEW f, Has(s, f)
    PROVE  LET t == DeletePublic(s, f)
               i == First(s, f)
           IN  /\ i \in 1..Len(s) /\ s[i].fpr = f
               /\ t \in Seq(Blob) /\ DOMAIN t = 1..(Len(s) - 1)
               /\ \A j \in 1..(Len(s) - 1) : t[j] = IF j < i THEN s[j] ELSE s[j + 1]
<1> DEFINE i == First(s, f)
           t == DeletePublic(s, f)
           e(j) == IF j < i THEN s[j] ELSE s[j + 1]
<1>1. DOMAIN s = 1..Len(s) /\ Len(s) \in Nat /\ \A j \in 1..Len(s) : s[j] \in Blob
    BY LenProperties, ElementOfSeq
<1>2. i \in 1..Len(s) /\ s[i].fpr = f
    BY FirstIsFirst
<1>3. t = [j \in 1..(Len(s) - 1) |-> e(j)]
    BY DEF DeletePublic
<1> HIDE DEF i, t
<1>4. Len(s) - 1 \in Nat
    BY <1>1, <1>2
<1>5. \A j \in 1..(Len(s) - 1) : e(j) \in Blob
    BY <1>1, <1>2
<1> DEFINE n == Len(s) - 1
<1>6. n \in Nat /\ \A j \in 1..n : e(j) \in Blob
    BY <1>4, <1>5
<1> HIDE DEF n, e
<1>7. [j \in 1..n |-> e(j)] \in Seq(Blob)
    BY <1>6, IsASeq
<1>8. QED BY <1>2, <1>3, <1>7 DEF i, t, e, n

LEMMA DeletePublicType ==
    ASSUME NEW s \in Seq(Blob), NEW f
    PROVE  DeletePublic(s, f) \in Seq(Blob)
BY DeletePublicEntries DEF DeletePublic

LEMMA DeletePublicUnique ==
    ASSUME NEW s \in Seq(Blob), NEW f, Unique(s)
    PROVE  Unique(DeletePublic(s, f))
<1> DEFINE i == First(s, f)
           t == DeletePublic(s, f)
<1>1. CASE Has(s, f)
    <2>1. /\ i \in 1..Len(s) /\ DOMAIN t = 1..(Len(s) - 1)
          /\ \A j \in 1..(Len(s) - 1) : t[j] = IF j < i THEN s[j] ELSE s[j + 1]
        BY <1>1, DeletePublicEntries
    <2>2. DOMAIN s = 1..Len(s) /\ Len(s) \in Nat
        BY LenProperties
    <2> HIDE DEF i, t
    <2> DEFINE m(j) == IF j < i THEN j ELSE j + 1
    <2>3. \A j \in DOMAIN t : m(j) \in DOMAIN s /\ t[j] = s[m(j)]
        BY <2>1, <2>2
    <2>4. \A j, k \in DOMAIN t : m(j) = m(k) => j = k
        BY <2>1, <2>2
    <2> HIDE DEF m
    <2>5. \A j, k \in DOMAIN t : t[j].fpr = t[k].fpr => j = k
        BY <2>3, <2>4 DEF Unique
    <2>6. QED BY <2>5 DEF Unique, t
<1>2. CASE ~Has(s, f)
    BY <1>2 DEF DeletePublic
<1>3. QED BY <1>1, <1>2

LEMMA PrefixUnique ==
    ASSUME NEW s \in Seq(Blob), NEW k \in 0..Len(s)
    PROVE  /\ Prefix(s, k) \in Seq(Blob)
           /\ Unique(s) => Unique(Prefix(s, k))
<1>1. DOMAIN s = 1..Len(s) /\ Len(s) \in Nat /\ \A i \in 1..k : s[i] \in Blob
    BY LenProperties, ElementOfSeq
<1> DEFINE t == Prefix(s, k)
<1>2. /\ t \in Seq(Blob) /\ Len(t) = k
      /\ \A i \in 1..k : t[i] = s[i]
    BY <1>1, SubSeqProperties DEF Prefix
<1> HIDE DEF t
<1>3. DOMAIN t = 1..k
    BY <1>2, LenProperties
<1>4. ASSUME Unique(s) PROVE \A i, j \in DOMAIN t : t[i].fpr = t[j].fpr => i = j
    BY <1>1, <1>2, <1>3, <1>4 DEF Unique
<1>5. QED BY <1>2, <1>4 DEF Unique, t

\* The entries of the other certificates stay as they are.
LEMMA AddPublicKeepsOthers ==
    ASSUME NEW s \in Seq(Blob), NEW b \in Blob, NEW f, f # b.fpr
    PROVE  Entries(AddPublic(s, b), f) = Entries(s, f)
<1> DEFINE t == AddPublic(s, b)
<1>1. DOMAIN s = 1..Len(s) /\ Len(s) \in Nat
    BY LenProperties
<1>2. CASE Has(s, b.fpr)
    <2> DEFINE i == First(s, b.fpr)
    <2>1. i \in 1..Len(s) /\ s[i].fpr = b.fpr /\ t = [s EXCEPT ![i] = b]
        BY <1>2, FirstIsFirst DEF AddPublic
    <2> HIDE DEF i, t
    <2>2. DOMAIN t = DOMAIN s
        BY <2>1
    <2>3. \A j \in DOMAIN s : (t[j].fpr = f <=> s[j].fpr = f) /\ (s[j].fpr = f => t[j] = s[j])
        BY <1>1, <2>1
    <2>4. Entries(t, f) = Entries(s, f)
        BY <2>2, <2>3 DEF Entries
    <2>5. QED BY <2>4 DEF t
<1>3. CASE ~Has(s, b.fpr)
    <2>1. t = Append(s, b)
        BY <1>3 DEF AddPublic
    <2> HIDE DEF t
    <2>2. /\ t \in Seq(Blob) /\ Len(t) = Len(s) + 1
          /\ \A j \in 1..Len(s) : t[j] = s[j]
          /\ t[Len(s) + 1] = b
        BY <2>1, AppendProperties
    <2>3. DOMAIN t = 1..(Len(s) + 1)
        BY <2>2, LenProperties
    <2>4. {j \in DOMAIN t : t[j].fpr = f} = {j \in DOMAIN s : s[j].fpr = f}
        BY <1>1, <2>2, <2>3
    <2>5. Entries(t, f) = Entries(s, f)
        BY <1>1, <2>2, <2>4 DEF Entries
    <2>6. QED BY <2>5 DEF t
<1>4. QED BY <1>2, <1>3

LEMMA DeletePublicKeepsOthers ==
    ASSUME NEW s \in Seq(Blob), NEW d, NEW f, f # d
    PROVE  Entries(DeletePublic(s, d), f) = Entries(s, f)
<1> DEFINE i == First(s, d)
           t == DeletePublic(s, d)
<1>1. CASE Has(s, d)
    <2>1. /\ i \in 1..Len(s) /\ s[i].fpr = d /\ DOMAIN t = 1..(Len(s) - 1)
          /\ \A j \in 1..(Len(s) - 1) : t[j] = IF j < i THEN s[j] ELSE s[j + 1]
        BY <1>1, DeletePublicEntries
    <2>2. DOMAIN s = 1..Len(s) /\ Len(s) \in Nat
        BY LenProperties
    <2> HIDE DEF i, t
    <2>3. \A j \in DOMAIN t : \E k \in DOMAIN s : t[j] = s[k]
        BY <2>1, <2>2
    <2>4. ASSUME NEW k \in DOMAIN s, s[k].fpr = f
          PROVE  \E j \in DOMAIN t : t[j] = s[k]
        <3>1. CASE k < i
            BY <2>1, <2>2, <3>1
        <3>2. CASE k > i
            <4>1. k - 1 \in DOMAIN t /\ ~(k - 1 < i)
                BY <2>1, <2>2, <3>2
            <4>2. t[k - 1] = s[(k - 1) + 1]
                BY <2>1, <2>2, <4>1
            <4>3. QED BY <2>2, <4>1, <4>2
        <3>3. QED BY <2>1, <2>2, <2>4, <3>1, <3>2
    <2>5. Entries(t, f) = Entries(s, f)
        BY <2>3, <2>4 DEF Entries
    <2>6. QED BY <2>5 DEF t
<1>2. CASE ~Has(s, d)
    BY <1>2 DEF DeletePublic
<1>3. QED BY <1>1, <1>2

-----------------------------------------------------------------------------
(* Types.                                                                   *)

LEMMA CommandTypes ==
    ASSUME NEW c \in Commands
    PROVE  /\ c \in Command
           /\ c.op \in {"gen", "import"} => 1 \in DOMAIN c.file
<1>1. CASE c \in ImportCommands
    <2>1. c.file \in Seq(Copy) /\ c.file # << >>
        BY <1>1, InputAssumption DEF ImportCommands
    <2>2. 1 \in DOMAIN c.file
        BY <2>1, EmptySeq, LenProperties
    <2>3. c.op = "import" /\ c = [op |-> "import", fpr |-> "none", file |-> c.file]
        BY <1>1 DEF ImportCommands
    <2>4. QED BY <2>1, <2>2, <2>3 DEF Command, Ops_all
<1>2. CASE c \in KeyCommands
    <2>1. PICK o \in Ops_all \ {"gen", "import"}, f \in Fpr :
             c = [op |-> o, fpr |-> f, file |-> << >>]
        BY <1>2 DEF KeyCommands
    <2>2. << >> \in Seq(Copy)
        BY EmptySeq
    <2>3. QED BY <2>1, <2>2 DEF Command
<1>3. CASE c \in GenCommands({f \in New : Unused(f)})
    <2>1. PICK f \in New, x \in Pass \union {NoPass} :
             c = [op |-> "gen", fpr |-> f, file |-> << Generated(f, x) >>]
        BY <1>3 DEF GenCommands
    <2>2. f \in Fpr /\ Keys[f] \in Seq(Grip) /\ Len(Keys[f]) \in Nat \ {0}
        BY InputAssumption, KeysAssumption, EmptySeq
    <2>3. Generated(f, x) \in Copy
        BY <2>2 DEF Generated, Copy
    <2>4. << Generated(f, x) >> \in Seq(Copy) /\ DOMAIN << Generated(f, x) >> = 1..1
        BY <2>3
    <2>5. QED BY <2>1, <2>2, <2>4 DEF Command, Ops_all
<1>4. QED BY <1>1, <1>2, <1>3 DEF Commands

\* The key block an import is at, and what it makes of it.
LEMMA BlockTypes ==
    ASSUME TypeOK, NEW p \in Proc, pc[p] = "next"
    PROVE  /\ Block(p) \in Copy
           /\ BlobOf(Block(p)) \in Blob
           /\ Components(Block(p)) \in Seq(Grip)
           /\ BlobOf(Block(p)).fpr \in Subject(p)
<1>1. cmd[p] \in Command \union {NoCmd} /\ at[p] \in DOMAIN cmd[p].file
    BY DEF TypeOK
<1>2. cmd[p].file \in Seq(Copy)
    BY <1>1, EmptySeq DEF Command, NoCmd
<1>3. Block(p) \in Copy
    BY <1>1, <1>2, ElementOfSeq, LenProperties DEF Block
<1> DEFINE b == Block(p)
<1>4. /\ b.fpr \in Fpr /\ b.n \in Nat /\ b.from \in Nat
      /\ b.n \in 1..Len(Keys[b.fpr]) /\ b.from >= 1
      /\ Keys[b.fpr] \in Seq(Grip)
    BY <1>3, KeysAssumption DEF Copy
<1> HIDE DEF b
<1>5. BlobOf(b) \in Blob /\ BlobOf(b).fpr = b.fpr
    BY <1>4 DEF BlobOf, Blob
<1>6. \A i \in b.from..b.n : Keys[b.fpr][i] \in Grip
    BY <1>4, ElementOfSeq
<1>7. Components(b) \in Seq(Grip)
    BY <1>4, <1>6, SubSeqProperties DEF Components
<1>8. b.fpr \in Subject(p)
    BY <1>1 DEF b, Block, Subject
<1>9. QED BY <1>3, <1>5, <1>7, <1>8 DEF b

\* Advancing past a block of the input.
LEMMA AfterBlockTypes ==
    ASSUME TypeOK, NEW p \in Proc, at[p] \in DOMAIN cmd[p].file
    PROVE  /\ at[p] + 1 \in Nat \ {0}
           /\ AfterBlock(p) \in {"next", "save"}
           /\ AfterBlock(p) = "next" => at[p] + 1 \in DOMAIN cmd[p].file
<1>1. cmd[p].file \in Seq(Copy) /\ at[p] \in Nat \ {0}
    BY EmptySeq DEF TypeOK, Command, NoCmd
<1>2. DOMAIN cmd[p].file = 1..Len(cmd[p].file) /\ Len(cmd[p].file) \in Nat
    BY <1>1, LenProperties
<1>3. QED BY <1>1, <1>2 DEF AfterBlock

\* A process in the middle of its list of keygrips.
LEMMA TodoTypes ==
    ASSUME TypeOK, NEW p \in Proc,
           pc[p] \in {"create", "fill", "remove", "probe", "attach"}
    PROVE  /\ Head(todo[p]) \in Grip
           /\ Tail(todo[p]) \in Seq(Grip)
           /\ todo[p] \in Seq(Grip) /\ todo[p] # << >>
BY HeadTailProperties DEF TypeOK

LEMMA FindTypes ==
    ASSUME TypeOK, NEW p \in Proc, NEW i \in Matches(p)
    PROVE  /\ KeygripsFor(mem[p][i]) \in Seq(Grip)
           /\ KeygripsFor(mem[p][i]) # << >>
<1> DEFINE b == mem[p][i]
<1>1. b \in Blob /\ b.n > 0
    BY LenProperties, ElementOfSeq DEF TypeOK, Matches
<1> HIDE DEF b
<1>2. b.n \in Nat /\ b.n <= Len(Keys[b.fpr]) /\ Keys[b.fpr] \in Seq(Grip)
    BY <1>1, KeysAssumption DEF Blob
<1>3. \A k \in 1..b.n : Keys[b.fpr][k] \in Grip
    BY <1>2, ElementOfSeq
<1>4. KeygripsFor(b) \in Seq(Grip) /\ Len(KeygripsFor(b)) = b.n
    BY <1>1, <1>2, <1>3, SubSeqProperties DEF KeygripsFor
<1>5. QED BY <1>1, <1>2, <1>4, EmptySeq DEF b

\* Writing over an old keybox leaves a sequence of entries or a torn file.
LEMMA OverlayTypes ==
    ASSUME NEW s \in Seq(Blob), NEW t \in Seq(Blob) \union {Torn}
    PROVE  Overlay(s, t) \subseteq Seq(Blob) \union {Torn}
<1>1. CASE t = << >> \/ t = Torn
    BY <1>1 DEF Overlay
<1>2. CASE t # << >> /\ t # Torn
    <2>1. t \in Seq(Blob) /\ Len(t) \in Nat
        BY <1>2, LenProperties
    <2>2. ASSUME NEW k \in 2..Len(t) PROVE s \o SubSeq(t, k, Len(t)) \in Seq(Blob)
        <3>1. \A i \in k..Len(t) : t[i] \in Blob
            BY <2>1, ElementOfSeq
        <3>2. SubSeq(t, k, Len(t)) \in Seq(Blob)
            BY <2>1, <3>1, SubSeqProperties
        <3>3. QED BY <3>2, ConcatProperties
    <2>3. QED BY <1>2, <2>1, <2>2 DEF Overlay
<1>3. QED BY <1>1, <1>2

\* Every step keeps the types.
LEMMA TypeStep == TypeOK /\ [Next]_vars => TypeOK'
<1> SUFFICES ASSUME TypeOK, [Next]_vars PROVE TypeOK'
    OBVIOUS
<1> USE DEF Goto, local, disk, ghost, Steps, Ended
<1>1. ASSUME NEW p \in Proc, NEW c \in Commands, Open(p, c) PROVE TypeOK'
    <2>1. c \in Command /\ (c.op \in {"gen", "import"} => 1 \in DOMAIN c.file)
        BY CommandTypes
    <2>2. CASE box = Torn
        BY <1>1, <2>1, <2>2 DEF TypeOK, Open
    <2>3. CASE box # Torn
        <3>1. /\ mem' = [mem EXCEPT ![p] = box] /\ fresh' = fresh \union {p}
              /\ pc' = [pc EXCEPT ![p] = IF c.op \in {"gen", "import"} THEN "next" ELSE "find"]
              /\ cmd' = [cmd EXCEPT ![p] = c] /\ at[p] = 1
              /\ UNCHANGED <<disk, at, todo, pass, got, unlinked, clash, faults>>
            BY <1>1, <2>3 DEF TypeOK, Open
        <3>2. mem' \in [Proc -> Seq(Blob)]
            BY <2>3, <3>1 DEF TypeOK
        <3>3. QED BY <2>1, <3>1, <3>2 DEF TypeOK
    <2>4. QED BY <2>2, <2>3
<1>2. ASSUME NEW p \in Proc, ImportPublic(p) PROVE TypeOK'
    <2>1. AddPublic(mem[p], BlobOf(Block(p))) \in Seq(Blob)
        BY <1>2, BlockTypes, AddPublicType DEF TypeOK, ImportPublic
    <2>2. /\ at[p] + 1 \in Nat \ {0} /\ AfterBlock(p) \in {"next", "save"}
          /\ AfterBlock(p) = "next" => at[p] + 1 \in DOMAIN cmd[p].file
        BY <1>2, AfterBlockTypes DEF TypeOK, ImportPublic
    <2>3. QED BY <1>2, <2>1, <2>2 DEF TypeOK, ImportPublic
<1>3. ASSUME NEW p \in Proc, ImportSecret(p) PROVE TypeOK'
    <2>1. /\ AddPublic(mem[p], BlobOf(Block(p))) \in Seq(Blob)
          /\ Components(Block(p)) \in Seq(Grip)
        BY <1>3, BlockTypes, AddPublicType DEF TypeOK, ImportSecret
    <2>2. Block(p).lock \in Pass \union {NoPass}
        BY <1>3, BlockTypes DEF ImportSecret, Copy
    <2>3. QED BY <1>3, <2>1, <2>2 DEF TypeOK, ImportSecret
<1>4. ASSUME NEW p \in Proc, ImportRefused(p) PROVE TypeOK'
    BY <1>4 DEF TypeOK, ImportRefused
<1>5. ASSUME NEW p \in Proc, CreateKey(p) PROVE TypeOK'
    BY <1>5 DEF TypeOK, CreateKey, KeyFile
<1>6. ASSUME NEW p \in Proc, FillKey(p) PROVE TypeOK'
    <2>1. Head(todo[p]) \in Grip /\ Tail(todo[p]) \in Seq(Grip)
        BY <1>6, TodoTypes DEF FillKey
    <2>2. /\ at[p] + 1 \in Nat \ {0} /\ AfterBlock(p) \in {"next", "save"}
          /\ AfterBlock(p) = "next" => at[p] + 1 \in DOMAIN cmd[p].file
        BY <1>6, AfterBlockTypes DEF TypeOK, FillKey
    <2>3. pass[p] \in KeyFile
        BY DEF TypeOK, KeyFile
    <2>4. QED BY <1>6, <2>1, <2>2, <2>3, ZenonT(60) DEF TypeOK, FillKey
<1>7. ASSUME NEW p \in Proc, TruncateBox(p) PROVE TypeOK'
    BY <1>7, EmptySeq DEF TypeOK, TruncateBox
<1>8. ASSUME NEW p \in Proc, WriteBox(p) PROVE TypeOK'
    <2>1. box' \in Seq(Blob) \union {Torn}
        BY <1>8, OverlayTypes DEF TypeOK, WriteBox
    <2>2. QED BY <1>8, <2>1 DEF TypeOK, WriteBox
<1>9. ASSUME NEW p \in Proc, Find(p) PROVE TypeOK'
    <2>1. CASE \E i \in DOMAIN mem[p] : Matches(p) = {i}
        <3> DEFINE i == CHOOSE j \in DOMAIN mem[p] : Matches(p) = {j}
        <3>1. i \in Matches(p)
            BY <2>1
        <3>2. KeygripsFor(mem[p][i]) \in Seq(Grip) /\ KeygripsFor(mem[p][i]) # << >>
            BY <3>1, FindTypes
        <3>3. DeletePublic(mem[p], cmd[p].fpr) \in Seq(Blob)
            BY DeletePublicType DEF TypeOK
        <3> HIDE DEF i
        <3>4. CASE DeletesSecret(cmd[p].op) \/ cmd[p].op = "unlock"
            <4>1. /\ todo' = [todo EXCEPT ![p] = KeygripsFor(mem[p][i])]
                  /\ \E l \in {"remove", "probe"} : pc' = [pc EXCEPT ![p] = l]
                  /\ UNCHANGED <<disk, cmd, mem, at, pass, got, unlinked, ghost>>
                BY <1>9, <2>1, <3>4 DEF Find, i
            <4>2. QED BY <3>2, <4>1 DEF TypeOK
        <3>5. CASE ~(DeletesSecret(cmd[p].op) \/ cmd[p].op = "unlock")
            <4>1. /\ mem' = [mem EXCEPT ![p] = DeletePublic(mem[p], cmd[p].fpr)]
                  /\ pc' = [pc EXCEPT ![p] = "save"]
                  /\ UNCHANGED <<disk, cmd, todo, at, pass, got, unlinked, ghost>>
                BY <1>9, <2>1, <3>5 DEF Find
            <4>2. QED BY <3>3, <4>1 DEF TypeOK
        <3>6. QED BY <3>4, <3>5
    <2>2. CASE ~ \E i \in DOMAIN mem[p] : Matches(p) = {i}
        BY <1>9, <2>2 DEF TypeOK, Find
    <2>3. QED BY <2>1, <2>2
<1>10. ASSUME NEW p \in Proc, RemoveKey(p) PROVE TypeOK'
    <2>1. Head(todo[p]) \in Grip /\ Tail(todo[p]) \in Seq(Grip)
        BY <1>10, TodoTypes DEF RemoveKey
    <2>2. DeletePublic(mem[p], cmd[p].fpr) \in Seq(Blob)
        BY DeletePublicType DEF TypeOK
    <2>3. /\ sec' \in [Grip -> KeyFile] /\ unlinked' \subseteq Proc
          /\ got' \in [Proc -> SUBSET Grip]
        BY <1>10, <2>1 DEF TypeOK, RemoveKey, KeyFile
    <2>4. /\ todo' = [todo EXCEPT ![p] = Tail(todo[p])] /\ pc[p] = "remove"
          /\ mem' \in [Proc -> Seq(Blob)]
          /\ UNCHANGED <<box, cmd, at, pass, ghost>>
        BY <1>10, <2>2, ZenonT(60) DEF TypeOK, RemoveKey
    <2>5. \E l \in {"remove", "save", "failed", "ok"} :
             pc' = [pc EXCEPT ![p] = l] /\ (l = "remove" => Tail(todo[p]) # << >>)
        BY <1>10 DEF RemoveKey
    <2>6. QED BY <2>1, <2>3, <2>4, <2>5 DEF TypeOK
<1>11. ASSUME NEW p \in Proc, Probe(p) PROVE TypeOK'
    BY <1>11 DEF TypeOK, Probe, Answers
<1>12. ASSUME NEW p \in Proc, Attach(p) PROVE TypeOK'
    <2>1. Head(todo[p]) \in Grip /\ Tail(todo[p]) \in Seq(Grip)
        BY <1>12, TodoTypes DEF Attach
    <2>2. QED BY <1>12, <2>1 DEF TypeOK, Attach
<1>13. ASSUME NEW p \in Proc, IOError(p) PROVE TypeOK'
    BY <1>13, StoreAssumption DEF TypeOK, IOError, Fault, Active
<1>14. ASSUME NEW p \in Proc, BoxWriteError(p) PROVE TypeOK'
    <2>1. PICK k \in 0..Len(mem[p]) : box' \in Overlay(Prefix(mem[p], k), box) \union {box, Torn}
        BY <1>14 DEF BoxWriteError
    <2>2. Prefix(mem[p], k) \in Seq(Blob)
        BY PrefixUnique DEF TypeOK
    <2>3. box' \in Seq(Blob) \union {Torn}
        BY <2>1, <2>2, OverlayTypes DEF TypeOK
    <2>4. QED BY <1>14, <2>3, StoreAssumption DEF TypeOK, BoxWriteError, Fault, Active
<1>15. ASSUME NEW p \in Proc, KeyWriteError(p) PROVE TypeOK'
    <2>1. Head(todo[p]) \in Grip
        BY <1>15, TodoTypes DEF KeyWriteError
    <2>2. QED BY <1>15, <2>1, StoreAssumption DEF TypeOK, KeyWriteError, Fault, Active, KeyFile
<1>16. ASSUME NEW p \in Proc, Kill(p) PROVE TypeOK'
    BY <1>16, StoreAssumption DEF TypeOK, Kill, Fault, Active
<1>17. CASE UNCHANGED vars
    BY <1>17 DEF TypeOK, vars
<1>18. QED
    BY <1>1, <1>2, <1>3, <1>4, <1>5, <1>6, <1>7, <1>8, <1>9, <1>10, <1>11,
       <1>12, <1>13, <1>14, <1>15, <1>16, <1>17 DEF Next, Continue, Finished

LEMMA InitTypes == Init => TypeOK
<1> SUFFICES ASSUME Init PROVE TypeOK
    OBVIOUS
<1>1. box \in Seq(Blob) /\ sec \in [Grip -> KeyFile]
    BY StoreAssumption DEF Init, KeyFile
<1>2. << >> \in Seq(Blob) /\ << >> \in Seq(Grip)
    BY EmptySeq
<1>3. /\ pc = [p \in Proc |-> "start"] /\ cmd = [p \in Proc |-> NoCmd]
      /\ mem \in [Proc -> Seq(Blob)] /\ at = [p \in Proc |-> 1]
      /\ todo \in [Proc -> Seq(Grip)] /\ pass \in [Proc -> Pass \union {NoPass}]
      /\ got \in [Proc -> SUBSET Grip] /\ unlinked \subseteq Proc
      /\ fresh \subseteq Proc /\ faults \in 0..MaxFaults
    BY <1>2, StoreAssumption DEF Init
<1>4. clash \in BOOLEAN
    BY DEF Init
<1>5. QED BY <1>1, <1>3, <1>4 DEF TypeOK

\* KeyStore keeps its types: the keybox and every process's copy of it are
\* sequences of entries, and every process is at a step that suits it.
THEOREM TypeCorrect == Spec => []TypeOK
<1>1. Init => TypeOK
    BY InitTypes
<1>2. TypeOK /\ [Next]_vars => TypeOK'
    BY TypeStep
<1>3. QED BY <1>1, <1>2, PTL DEF Spec

-----------------------------------------------------------------------------
(* Saves that do not run into each other.                                   *)

\* As long as no two saves have met, a process between truncating and filling
\* the keybox is alone there, and nobody has written to the file meanwhile.
WriteWindow ==
    ~clash => \A p \in Proc : pc[p] = "write" =>
        box = << >> /\ \A q \in Proc : pc[q] = "write" => q = p

SavesApart == OneEntryPerKey /\ WriteWindow /\ TornBoxExplained

\* The steps that leave the keybox alone and begin no save.
LEMMA SavesApartFrame ==
    ASSUME TypeOK, SavesApart, UNCHANGED <<box, clash>>,
           faults' \in {faults, faults + 1},
           NEW p \in Proc, NEW l, pc' = [pc EXCEPT ![p] = l], l # "write",
           \A q \in Proc : mem'[q] = mem[q] \/ (~clash => Unique(mem'[q]))
    PROVE  SavesApart'
<1>1. faults \in Nat
    BY StoreAssumption DEF TypeOK
<1>2. \A q \in Proc : pc'[q] = "write" => pc[q] = "write"
    BY DEF TypeOK
<1>3. OneEntryPerKey'
    BY DEF SavesApart, OneEntryPerKey, Unique
<1>4. WriteWindow'
    BY <1>2 DEF SavesApart, WriteWindow
<1>5. faults > 0 => faults' > 0
    BY <1>1
<1>6. TornBoxExplained'
    BY <1>5 DEF SavesApart, TornBoxExplained
<1>7. QED BY <1>3, <1>4, <1>6 DEF SavesApart

\* Storing a good keybox that a lone save has truncated.
LEMMA SavesApartWrite ==
    ASSUME TypeOK, SavesApart, UNCHANGED <<mem, clash>>,
           NEW p \in Proc, NEW l, pc[p] = "write", pc' = [pc EXCEPT ![p] = l], l # "write",
           ~clash => \/ faults' > 0 /\ box' = Torn
                     \/ box' \in Seq(Blob) /\ Unique(box')
    PROVE  SavesApart'
<1>1. CASE clash
    BY <1>1 DEF SavesApart, OneEntryPerKey, WriteWindow, TornBoxExplained
<1>2. CASE ~clash
    <2>1. \A q \in Proc : pc'[q] # "write"
        BY <1>2 DEF TypeOK, SavesApart, WriteWindow
    <2>2. \A q \in Proc : Unique(mem'[q])
        BY <1>2 DEF SavesApart, OneEntryPerKey
    <2>3. box' # Torn => Unique(box')
        BY <1>2
    <2>4. TornBoxExplained'
        BY <1>2, SentinelAssumption DEF TornBoxExplained
    <2>5. QED BY <2>1, <2>2, <2>3, <2>4 DEF SavesApart, OneEntryPerKey, WriteWindow
<1>3. QED BY <1>1, <1>2

LEMMA SavesApartStep == TypeOK /\ SavesApart /\ [Next]_vars => SavesApart'
<1> SUFFICES ASSUME TypeOK, SavesApart, [Next]_vars PROVE SavesApart'
    OBVIOUS
<1> USE DEF Goto, local, disk, ghost
<1>0. faults \in Nat /\ \A q \in Proc : mem[q] \in Seq(Blob)
    BY StoreAssumption DEF TypeOK
<1>1. ASSUME NEW p \in Proc, NEW c \in Commands, Open(p, c) PROVE SavesApart'
    <2>1. CASE box = Torn
        BY <1>1, <2>1, SavesApartFrame DEF Open
    <2>2. CASE box # Torn
        <3>1. mem' = [mem EXCEPT ![p] = box] /\ (~clash => Unique(box))
            BY <1>1, <2>2 DEF Open, SavesApart, OneEntryPerKey
        <3>2. \A q \in Proc : mem'[q] = mem[q] \/ (~clash => Unique(mem'[q]))
            BY <3>1 DEF TypeOK
        <3>3. PICK l \in {"next", "find"} : pc' = [pc EXCEPT ![p] = l]
            BY <1>1, <2>2 DEF Open
        <3>4. QED BY <1>1, <3>2, <3>3, SavesApartFrame DEF Open
    <2>3. QED BY <2>1, <2>2
<1>2. ASSUME NEW p \in Proc, ImportPublic(p) \/ ImportSecret(p) PROVE SavesApart'
    <2>1. BlobOf(Block(p)) \in Blob
        BY <1>2, BlockTypes DEF ImportPublic, ImportSecret
    <2>2. ~clash => Unique(AddPublic(mem[p], BlobOf(Block(p))))
        BY <1>0, <2>1, AddPublicUnique DEF SavesApart, OneEntryPerKey
    <2>3. \A q \in Proc : mem'[q] = mem[q] \/ (~clash => Unique(mem'[q]))
        BY <1>2, <2>2 DEF TypeOK, ImportPublic, ImportSecret
    <2>4. PICK l \in {"next", "save", "create"} : pc' = [pc EXCEPT ![p] = l]
        BY <1>2 DEF ImportPublic, ImportSecret, AfterBlock
    <2>5. UNCHANGED <<box, clash, faults>>
        BY <1>2 DEF ImportPublic, ImportSecret
    <2>6. QED BY <2>3, <2>4, <2>5, SavesApartFrame
<1>3. ASSUME NEW p \in Proc,
             \/ ImportRefused(p) \/ CreateKey(p) \/ FillKey(p) \/ Probe(p) \/ Attach(p)
             \/ IOError(p) \/ KeyWriteError(p) \/ Kill(p)
      PROVE  SavesApart'
    <2>1. UNCHANGED <<box, mem, clash>> /\ faults' \in {faults, faults + 1}
        BY <1>3 DEF ImportRefused, CreateKey, FillKey, Probe, Attach, IOError,
                    KeyWriteError, Kill, Fault
    <2>2. PICK l \in {"next", "save", "create", "fill", "attach", "failed", "ok",
                      "ioerror", "killed"} : pc' = [pc EXCEPT ![p] = l]
        BY <1>3 DEF ImportRefused, CreateKey, FillKey, Probe, Attach, IOError,
                    KeyWriteError, Kill, AfterBlock
    <2>3. QED BY <2>1, <2>2, SavesApartFrame
<1>4. ASSUME NEW p \in Proc, Find(p) \/ RemoveKey(p) PROVE SavesApart'
    <2>1. ~clash => Unique(DeletePublic(mem[p], cmd[p].fpr))
        BY <1>0, DeletePublicUnique DEF SavesApart, OneEntryPerKey
    <2>2. mem' = mem \/ mem' = [mem EXCEPT ![p] = DeletePublic(mem[p], cmd[p].fpr)]
        BY <1>4 DEF Find, RemoveKey
    <2>3. \A q \in Proc : mem'[q] = mem[q] \/ (~clash => Unique(mem'[q]))
        BY <2>1, <2>2 DEF TypeOK
    <2>4. PICK l \in {"save", "remove", "probe", "failed", "ok"} : pc' = [pc EXCEPT ![p] = l]
        BY <1>4 DEF Find, RemoveKey
    <2>5. UNCHANGED <<box, clash, faults>>
        BY <1>4 DEF Find, RemoveKey
    <2>6. QED BY <2>3, <2>4, <2>5, SavesApartFrame
<1>5. ASSUME NEW p \in Proc, TruncateBox(p) PROVE SavesApart'
    <2>1. /\ box' = << >> /\ pc' = [pc EXCEPT ![p] = "write"] /\ UNCHANGED <<mem, faults>>
          /\ ~clash' => ~clash /\ \A q \in Proc : pc[q] # "write"
        BY <1>5 DEF TruncateBox, TypeOK
    <2>2. OneEntryPerKey'
        BY <2>1, EmptySeq DEF SavesApart, OneEntryPerKey, Unique
    <2>3. WriteWindow'
        BY <2>1 DEF TypeOK, WriteWindow
    <2>4. box' # Torn
        BY <2>1, EmptySeq, SentinelAssumption
    <2>5. QED BY <2>2, <2>3, <2>4 DEF SavesApart, TornBoxExplained
<1>6. ASSUME NEW p \in Proc, WriteBox(p) PROVE SavesApart'
    <2>1. ~clash => box = << >> /\ Unique(mem[p])
        BY <1>6 DEF WriteBox, SavesApart, WriteWindow, OneEntryPerKey
    <2>2. Overlay(mem[p], << >>) = {mem[p]}
        <3>1. << >> # Torn
            BY EmptySeq, SentinelAssumption
        <3>2. QED BY <3>1 DEF Overlay
    <2>3. ~clash => box' \in Seq(Blob) /\ Unique(box')
        BY <1>0, <1>6, <2>1, <2>2 DEF WriteBox
    <2>4. QED BY <1>6, <2>3, SavesApartWrite DEF WriteBox
<1>7. ASSUME NEW p \in Proc, BoxWriteError(p) PROVE SavesApart'
    <2>1. PICK k \in 0..Len(mem[p]) : box' \in Overlay(Prefix(mem[p], k), box) \union {box, Torn}
        BY <1>7 DEF BoxWriteError
    <2>2. ~clash => /\ box = << >> /\ Unique(mem[p])
                    /\ box' \in {Prefix(mem[p], k), << >>, Torn}
        BY <1>7, <2>1 DEF BoxWriteError, Overlay, SavesApart, WriteWindow, OneEntryPerKey
    <2>3. Prefix(mem[p], k) \in Seq(Blob) /\ (~clash => Unique(Prefix(mem[p], k)))
        BY <1>0, <2>2, PrefixUnique
    <2>4. << >> \in Seq(Blob) /\ Unique(<< >>)
        BY EmptySeq DEF Unique
    <2>5. faults' > 0
        BY <1>0, <1>7 DEF BoxWriteError, Fault
    <2>6. ~clash => \/ faults' > 0 /\ box' = Torn
                    \/ box' \in Seq(Blob) /\ Unique(box')
        BY <2>2, <2>3, <2>4, <2>5
    <2>7. QED BY <1>7, <2>6, SavesApartWrite DEF BoxWriteError
<1>8. CASE UNCHANGED vars
    BY <1>8 DEF vars, SavesApart, OneEntryPerKey, WriteWindow, TornBoxExplained, Unique
<1>9. QED
    BY <1>1, <1>2, <1>3, <1>4, <1>5, <1>6, <1>7, <1>8 DEF Next, Continue, Finished

LEMMA InitSavesApart == Init => SavesApart
<1> SUFFICES ASSUME Init PROVE SavesApart
    OBVIOUS
<1>1. /\ box \in Seq(Blob) /\ Unique(box)
      /\ \A p \in Proc : mem[p] = << >> /\ pc[p] = "start"
    BY StoreAssumption DEF Init
<1>2. box # Torn
    BY <1>1, SentinelAssumption
<1>3. Unique(<< >>)
    BY DEF Unique
<1>4. QED
    BY <1>1, <1>2, <1>3 DEF SavesApart, OneEntryPerKey, WriteWindow, TornBoxExplained

\* As long as no two saves run into each other, neither the keybox nor any
\* process's copy of it lists a certificate twice, whatever commands overlap
\* otherwise and whatever faults happen.
THEOREM KeyboxUnique == Spec => []OneEntryPerKey
<1>1. Init => TypeOK /\ SavesApart
    BY InitTypes, InitSavesApart
<1>2. (TypeOK /\ SavesApart) /\ [Next]_vars => (TypeOK /\ SavesApart)'
    BY TypeStep, SavesApartStep
<1>3. TypeOK /\ SavesApart => OneEntryPerKey
    BY DEF SavesApart
<1>4. QED BY <1>1, <1>2, <1>3, PTL DEF Spec

\* An unreadable keybox is the work of a fault or of two overlapping saves.
THEOREM KeyboxReadable == Spec => []TornBoxExplained
<1>1. Init => TypeOK /\ SavesApart
    BY InitTypes, InitSavesApart
<1>2. (TypeOK /\ SavesApart) /\ [Next]_vars => (TypeOK /\ SavesApart)'
    BY TypeStep, SavesApartStep
<1>3. TypeOK /\ SavesApart => TornBoxExplained
    BY DEF SavesApart
<1>4. QED BY <1>1, <1>2, <1>3, PTL DEF Spec

-----------------------------------------------------------------------------
(* Key files that are cut off.                                              *)

\* A step of p that touches no key file and that p does not take from "fill".
LEMMA TornKeyFrame ==
    ASSUME TypeOK, TornKeyInHand, NEW p \in Proc, NEW l, pc[p] # "fill",
           pc' = [pc EXCEPT ![p] = l], UNCHANGED <<sec, unlinked>>,
           \A q \in Proc \ {p} : todo'[q] = todo[q],
           faults' \in {faults, faults + 1}
    PROVE  TornKeyInHand'
<1>1. faults \in Nat
    BY StoreAssumption DEF TypeOK
<1>2. faults > 0 => faults' > 0
    BY <1>1
<1>3. ASSUME NEW g \in Grip, NEW q \in Proc, pc[q] = "fill", q \notin unlinked, Head(todo[q]) = g
      PROVE  pc'[q] = "fill" /\ q \notin unlinked' /\ Head(todo'[q]) = g
    BY <1>3 DEF TypeOK
<1>4. QED BY <1>2, <1>3 DEF TornKeyInHand

\* A fault has been counted, and the promise is off.
LEMMA FaultCounts ==
    ASSUME TypeOK, NEW p \in Proc, Fault(p)
    PROVE  TornKeyInHand'
BY StoreAssumption DEF TypeOK, Fault, TornKeyInHand

LEMMA TornKeyStep == TypeOK /\ TornKeyInHand /\ [Next]_vars => TornKeyInHand'
<1> SUFFICES ASSUME TypeOK, TornKeyInHand, [Next]_vars PROVE TornKeyInHand'
    OBVIOUS
<1> USE DEF Goto, local, disk, ghost
<1>1. ASSUME NEW p \in Proc, NEW c \in Commands, Open(p, c) PROVE TornKeyInHand'
    <2>1. PICK l \in {"failed", "next", "find"} : pc' = [pc EXCEPT ![p] = l]
        BY <1>1 DEF Open
    <2>2. QED BY <1>1, <2>1, TornKeyFrame DEF Open
<1>2. ASSUME NEW p \in Proc,
             \/ ImportPublic(p) \/ ImportSecret(p) \/ ImportRefused(p) \/ TruncateBox(p)
             \/ WriteBox(p) \/ Find(p) \/ Probe(p) \/ Attach(p)
      PROVE  TornKeyInHand'
    <2>1. PICK l : pc' = [pc EXCEPT ![p] = l]
        BY <1>2 DEF ImportPublic, ImportSecret, ImportRefused, TruncateBox, WriteBox,
                    Find, Probe, Attach
    <2>2. pc[p] # "fill" /\ UNCHANGED <<sec, unlinked, faults>>
        BY <1>2 DEF ImportPublic, ImportSecret, ImportRefused, TruncateBox, WriteBox,
                    Find, Probe, Attach
    <2>3. \A q \in Proc \ {p} : todo'[q] = todo[q]
        BY <1>2 DEF TypeOK, ImportPublic, ImportSecret, ImportRefused, TruncateBox,
                    WriteBox, Find, Probe, Attach
    <2>4. QED BY <2>1, <2>2, <2>3, TornKeyFrame
<1>3. ASSUME NEW p \in Proc, CreateKey(p) PROVE TornKeyInHand'
    <2> DEFINE g == Head(todo[p])
    <2>1. /\ sec' = [sec EXCEPT ![g] = Torn] /\ unlinked' = unlinked \ {p}
          /\ pc' = [pc EXCEPT ![p] = "fill"] /\ pc[p] = "create"
          /\ UNCHANGED <<todo, faults>>
        BY <1>3 DEF CreateKey
    <2>2. pc'[p] = "fill" /\ p \notin unlinked' /\ Head(todo'[p]) = g
        BY <2>1 DEF TypeOK
    <2> HIDE DEF g
    <2>3. ASSUME NEW h \in Grip, h # g, sec'[h] = Torn, faults = 0
          PROVE  \E q \in Proc : pc'[q] = "fill" /\ q \notin unlinked' /\ Head(todo'[q]) = h
        <3>1. PICK q \in Proc : pc[q] = "fill" /\ q \notin unlinked /\ Head(todo[q]) = h
            BY <2>1, <2>3 DEF TypeOK, TornKeyInHand
        <3>2. QED BY <2>1, <3>1 DEF TypeOK
    <2>4. faults > 0 \/ faults = 0
        BY StoreAssumption DEF TypeOK
    <2>5. QED BY <2>1, <2>2, <2>3, <2>4 DEF TornKeyInHand
<1>4. ASSUME NEW p \in Proc, FillKey(p) PROVE TornKeyInHand'
    <2> DEFINE g == Head(todo[p])
    <2>1. /\ sec' = IF p \in unlinked THEN sec ELSE [sec EXCEPT ![g] = pass[p]]
          /\ \E l : pc' = [pc EXCEPT ![p] = l]
          /\ todo' = [todo EXCEPT ![p] = Tail(todo[p])]
          /\ UNCHANGED <<unlinked, faults>>
        BY <1>4 DEF FillKey
    <2>2. g \in Grip /\ pass[p] # Torn
        BY <1>4, TodoTypes, SentinelAssumption DEF FillKey, TypeOK
    <2> HIDE DEF g
    <2>3. ASSUME NEW h \in Grip, sec'[h] = Torn, faults = 0
          PROVE  \E q \in Proc : pc'[q] = "fill" /\ q \notin unlinked' /\ Head(todo'[q]) = h
        <3>1. sec[h] = Torn
            BY <2>1, <2>2, <2>3 DEF TypeOK
        <3>2. PICK q \in Proc : pc[q] = "fill" /\ q \notin unlinked /\ Head(todo[q]) = h
            BY <2>3, <3>1 DEF TornKeyInHand, TypeOK
        <3>3. q # p
            <4>1. CASE p \in unlinked
                BY <3>2, <4>1
            <4>2. CASE p \notin unlinked
                BY <2>1, <2>2, <2>3, <3>2, <4>2 DEF TypeOK, g
            <4>3. QED BY <4>1, <4>2
        <3>4. QED BY <2>1, <3>2, <3>3 DEF TypeOK
    <2>4. faults > 0 \/ faults = 0
        BY StoreAssumption DEF TypeOK
    <2>5. QED BY <2>1, <2>3, <2>4 DEF TornKeyInHand
<1>5. ASSUME NEW p \in Proc, RemoveKey(p) PROVE TornKeyInHand'
    <2> DEFINE g == Head(todo[p])
    <2>1. /\ sec' = [sec EXCEPT ![g] = Absent] /\ pc[p] = "remove"
          /\ unlinked' = unlinked \union {q \in Proc : pc[q] = "fill" /\ Head(todo[q]) = g}
          /\ \E l : pc' = [pc EXCEPT ![p] = l]
          /\ todo' = [todo EXCEPT ![p] = Tail(todo[p])]
          /\ UNCHANGED faults
        BY <1>5 DEF RemoveKey
    <2>2. g \in Grip
        BY <1>5, TodoTypes DEF RemoveKey
    <2> HIDE DEF g
    <2>3. ASSUME NEW h \in Grip, sec'[h] = Torn, faults = 0
          PROVE  \E q \in Proc : pc'[q] = "fill" /\ q \notin unlinked' /\ Head(todo'[q]) = h
        <3>1. h # g /\ sec[h] = Torn
            BY <2>1, <2>2, <2>3, SentinelAssumption DEF TypeOK
        <3>2. PICK q \in Proc : pc[q] = "fill" /\ q \notin unlinked /\ Head(todo[q]) = h
            BY <2>3, <3>1 DEF TornKeyInHand, TypeOK
        <3>3. QED BY <2>1, <3>1, <3>2 DEF TypeOK
    <2>4. faults > 0 \/ faults = 0
        BY StoreAssumption DEF TypeOK
    <2>5. QED BY <2>1, <2>3, <2>4 DEF TornKeyInHand
<1>6. ASSUME NEW p \in Proc, IOError(p) \/ BoxWriteError(p) \/ KeyWriteError(p) \/ Kill(p)
      PROVE  TornKeyInHand'
    BY <1>6, FaultCounts DEF IOError, BoxWriteError, KeyWriteError, Kill
<1>7. CASE UNCHANGED vars
    BY <1>7 DEF vars, TornKeyInHand
<1>8. QED
    BY <1>1, <1>2, <1>3, <1>4, <1>5, <1>6, <1>7 DEF Next, Continue, Finished

\* A key file is cut off only while a process is about to fill it, or after a
\* fault: overlapping imports and deletions leave none behind by themselves.
THEOREM KeyFilesWhole == Spec => []TornKeyInHand
<1>1. Init => TypeOK /\ TornKeyInHand
    <2>1. Init => \A g \in Grip : sec[g] # Torn
        BY SentinelAssumption DEF Init
    <2>2. QED BY <2>1, InitTypes DEF TornKeyInHand
<1>2. (TypeOK /\ TornKeyInHand) /\ [Next]_vars => (TypeOK /\ TornKeyInHand)'
    BY TypeStep, TornKeyStep
<1>3. QED BY <1>1, <1>2, PTL DEF Spec

-----------------------------------------------------------------------------
(* Saving a copy that is not stale.                                         *)

\* While a process works on a copy of the keybox that no other save has made
\* stale, copy and keybox agree on every certificate its command is not about.
FreshCopy ==
    \A p \in fresh : pc[p] \in Steps \ {"write"} =>
        /\ box # Torn
        /\ \A f \in Fpr \ Subject(p) : Entries(mem[p], f) = Entries(box, f)

\* A step of p that does not touch the keybox and leaves the certificates of
\* p's copy alone that p's command is not about.
LEMMA FreshCopyFrame ==
    ASSUME TypeOK, FreshCopy, NEW p \in Proc, UNCHANGED <<box, cmd>>, fresh' \subseteq fresh,
           pc[p] \in Steps \ {"write"} \/ pc'[p] \notin Steps \ {"write"},
           \A q \in Proc \ {p} : pc'[q] = pc[q] /\ mem'[q] = mem[q],
           \A f \in Fpr \ Subject(p) : Entries(mem'[p], f) = Entries(mem[p], f)
    PROVE  FreshCopy'
<1>1. \A q \in Proc : Subject(q)' = Subject(q)
    BY DEF Subject
<1>2. fresh \subseteq Proc
    BY DEF TypeOK
<1>3. ASSUME NEW q \in fresh', pc'[q] \in Steps \ {"write"}
      PROVE  /\ box' # Torn
             /\ \A f \in Fpr \ Subject(q) : Entries(mem'[q], f) = Entries(box', f)
    <2>1. pc[q] \in Steps \ {"write"} /\ q \in fresh /\ q \in Proc
        BY <1>2, <1>3
    <2>2. CASE q = p
        BY <2>1, <2>2 DEF FreshCopy
    <2>3. CASE q # p
        BY <2>1, <2>3, ZenonT(60) DEF FreshCopy
    <2>4. QED BY <2>2, <2>3
<1>4. QED BY <1>1, <1>2, <1>3 DEF FreshCopy, Entries

LEMMA FreshCopyStep == TypeOK /\ FreshCopy /\ [Next]_vars => FreshCopy'
<1> SUFFICES ASSUME TypeOK, FreshCopy, [Next]_vars PROVE FreshCopy'
    OBVIOUS
<1> USE DEF Goto, local, disk, ghost
<1>0. \A q \in Proc : mem[q] \in Seq(Blob)
    BY DEF TypeOK
<1>1. ASSUME NEW p \in Proc, NEW c \in Commands, Open(p, c) PROVE FreshCopy'
    <2>1. /\ \A q \in Proc \ {p} : cmd'[q] = cmd[q] /\ pc'[q] = pc[q] /\ mem'[q] = mem[q]
          /\ box' = box
        BY <1>1 DEF Open, TypeOK
    <2>2. \A q \in Proc \ {p} : Subject(q)' = Subject(q)
        BY <2>1 DEF Subject
    <2>3. /\ box = Torn => fresh' = fresh /\ pc'[p] = "failed"
          /\ box # Torn => fresh' = fresh \union {p} /\ mem'[p] = box
        BY <1>1 DEF Open, TypeOK
    <2>4. ASSUME NEW q \in fresh', pc'[q] \in Steps \ {"write"}
          PROVE  /\ box' # Torn
                 /\ \A f \in Fpr \ Subject(q)' : Entries(mem'[q], f) = Entries(box', f)
        <3>1. CASE q = p
            BY <2>1, <2>3, <2>4, <3>1 DEF Steps
        <3>2. CASE q # p
            <4>1. q \in fresh /\ q \in Proc /\ pc[q] \in Steps \ {"write"}
                BY <2>1, <2>3, <2>4, <3>2 DEF TypeOK
            <4>2. QED BY <2>1, <2>2, <3>2, <4>1 DEF FreshCopy
        <3>3. QED BY <3>1, <3>2
    <2>5. QED BY <2>4 DEF FreshCopy, Entries
<1>2. ASSUME NEW p \in Proc, ImportPublic(p) \/ ImportSecret(p) PROVE FreshCopy'
    <2>1. BlobOf(Block(p)) \in Blob /\ BlobOf(Block(p)).fpr \in Subject(p)
        BY <1>2, BlockTypes DEF ImportPublic, ImportSecret
    <2>2. \A f \in Fpr \ Subject(p) :
             Entries(AddPublic(mem[p], BlobOf(Block(p))), f) = Entries(mem[p], f)
        BY <1>0, <2>1, AddPublicKeepsOthers
    <2>3. /\ mem' = [mem EXCEPT ![p] = AddPublic(mem[p], BlobOf(Block(p)))]
          /\ \E l : pc' = [pc EXCEPT ![p] = l]
          /\ pc[p] = "next" /\ UNCHANGED <<box, cmd, fresh>>
        BY <1>2 DEF ImportPublic, ImportSecret
    <2>4. /\ mem'[p] = AddPublic(mem[p], BlobOf(Block(p)))
          /\ \A q \in Proc \ {p} : pc'[q] = pc[q] /\ mem'[q] = mem[q]
        BY <2>3 DEF TypeOK
    <2>5. QED BY <2>2, <2>3, <2>4, FreshCopyFrame DEF Steps
<1>3. ASSUME NEW p \in Proc, Find(p) \/ RemoveKey(p) PROVE FreshCopy'
    <2>1. cmd[p].fpr \in Subject(p)
        BY DEF Subject
    <2>2. \A f \in Fpr \ Subject(p) :
             Entries(DeletePublic(mem[p], cmd[p].fpr), f) = Entries(mem[p], f)
        BY <1>0, <2>1, DeletePublicKeepsOthers
    <2>3. /\ mem' = mem \/ mem' = [mem EXCEPT ![p] = DeletePublic(mem[p], cmd[p].fpr)]
          /\ \E l : pc' = [pc EXCEPT ![p] = l]
          /\ pc[p] \in {"find", "remove"} /\ UNCHANGED <<box, cmd, fresh>>
        BY <1>3 DEF Find, RemoveKey
    <2>4. /\ mem'[p] \in {mem[p], DeletePublic(mem[p], cmd[p].fpr)}
          /\ \A q \in Proc \ {p} : pc'[q] = pc[q] /\ mem'[q] = mem[q]
        BY <2>3 DEF TypeOK
    <2>5. \A f \in Fpr \ Subject(p) : Entries(mem'[p], f) = Entries(mem[p], f)
        BY <2>2, <2>4
    <2>6. QED BY <2>3, <2>4, <2>5, FreshCopyFrame DEF Steps
<1>4. ASSUME NEW p \in Proc,
             \/ ImportRefused(p) \/ CreateKey(p) \/ FillKey(p) \/ Probe(p) \/ Attach(p)
             \/ IOError(p) \/ KeyWriteError(p) \/ Kill(p)
      PROVE  FreshCopy'
    <2>1. UNCHANGED <<box, cmd, mem, fresh>> /\ \E l : pc' = [pc EXCEPT ![p] = l]
        BY <1>4 DEF ImportRefused, CreateKey, FillKey, Probe, Attach, IOError,
                    KeyWriteError, Kill
    <2>2. pc[p] \in Steps \ {"write"} \/ pc'[p] \notin Steps \ {"write"}
        BY <1>4 DEF ImportRefused, CreateKey, FillKey, Probe, Attach, IOError,
                    KeyWriteError, Kill, Steps, TypeOK
    <2>3. \A q \in Proc \ {p} : pc'[q] = pc[q]
        BY <2>1 DEF TypeOK
    <2>4. QED BY <2>1, <2>2, <2>3, FreshCopyFrame
<1>5. ASSUME NEW p \in Proc, TruncateBox(p) \/ WriteBox(p) \/ BoxWriteError(p) PROVE FreshCopy'
    <2>1. fresh' \subseteq {p} /\ pc'[p] \in {"write", "ok", "ioerror"}
        BY <1>5 DEF TruncateBox, WriteBox, BoxWriteError, TypeOK
    <2>2. QED BY <2>1 DEF FreshCopy, Steps
<1>6. CASE UNCHANGED vars
    BY <1>6 DEF vars, FreshCopy, Subject, Entries
<1>7. QED
    BY <1>1, <1>2, <1>3, <1>4, <1>5, <1>6 DEF Next, Continue, Finished

\* A save from a copy that is not stale changes the certificates of its own
\* command only: what is lost is lost by saving a stale copy.
THEOREM FreshSavesKeepOthers == Spec => []SaveKeepsOthers
<1>1. Init => TypeOK /\ FreshCopy
    BY InitTypes DEF Init, FreshCopy
<1>2. (TypeOK /\ FreshCopy) /\ [Next]_vars => (TypeOK /\ FreshCopy)'
    BY TypeStep, FreshCopyStep
<1>3. TypeOK /\ FreshCopy => SaveKeepsOthers
    BY DEF FreshCopy, SaveKeepsOthers, Steps
<1>4. QED BY <1>1, <1>2, <1>3, PTL DEF Spec

-----------------------------------------------------------------------------
(* What the first blocks of an input do to the key files and the entries.   *)

\* The blocks among the first k of s that bring the secret key g.
Bringing(s, k, g) == {i \in 1..k : s[i].lock # Public /\ g \in ToSet(Components(s[i]))}

\* The key files f once the first k blocks of s are in.
SecWith(f, s, k) ==
    [g \in Grip |->
       LET I == Bringing(s, k, g)
       IN  IF I = {} THEN f[g] ELSE s[CHOOSE i \in I : \A j \in I : j <= i].lock]

\* The entries E once the first k blocks of s are in.
PubWith(E, s, k) ==
    {e \in E : \A i \in 1..k : s[i].fpr # e.fpr} \union
    {BlobOf(s[i]) : i \in {j \in 1..k : \A l \in (j + 1)..k : s[l].fpr # s[j].fpr}}

\* No block, nothing changed.
LEMMA SecWithNone ==
    ASSUME NEW X, NEW f \in [Grip -> X], NEW s
    PROVE  SecWith(f, s, 0) = f
<1>1. \A g \in Grip : Bringing(s, 0, g) = {}
    BY DEF Bringing
<1>2. QED BY <1>1 DEF SecWith

\* One block more: its keys get its lock.
LEMMA SecWithNext ==
    ASSUME NEW f, NEW s, NEW k \in Nat, NEW g \in Grip
    PROVE  SecWith(f, s, k + 1)[g] =
             IF s[k + 1].lock # Public /\ g \in ToSet(Components(s[k + 1]))
             THEN s[k + 1].lock ELSE SecWith(f, s, k)[g]
<1> DEFINE I == Bringing(s, k, g)
           J == Bringing(s, k + 1, g)
           new == s[k + 1].lock # Public /\ g \in ToSet(Components(s[k + 1]))
<1>1. I \subseteq 1..k /\ J \subseteq 1..(k + 1)
    BY DEF Bringing
<1>2. \A i \in 1..k : i \in J <=> i \in I
    BY DEF Bringing
<1>3. k + 1 \in J <=> new
    BY DEF Bringing
<1>4. /\ SecWith(f, s, k + 1)[g] = IF J = {} THEN f[g] ELSE s[CHOOSE i \in J : \A j \in J : j <= i].lock
      /\ SecWith(f, s, k)[g] = IF I = {} THEN f[g] ELSE s[CHOOSE i \in I : \A j \in I : j <= i].lock
    BY DEF SecWith
<1> HIDE DEF I, J, new
<1>5. CASE new
    <2>1. k + 1 \in J
        BY <1>3, <1>5
    <2>2. \A j \in J : j <= k + 1
        BY <1>1
    <2>3. \A i \in J : (\A j \in J : j <= i) => i = k + 1
        BY <1>1, <2>1, <2>2
    <2>4. (CHOOSE i \in J : \A j \in J : j <= i) = k + 1
        BY <2>1, <2>2, <2>3
    <2>5. QED BY <1>4, <1>5, <2>1, <2>4 DEF new
<1>6. CASE ~new
    <2>1. k + 1 \notin J /\ 1..(k + 1) = 1..k \union {k + 1}
        BY <1>3, <1>6
    <2>2. \A i : i \in I <=> i \in J
        BY <1>1, <1>2, <2>1
    <2>3. I = J
        BY <2>2
    <2>4. QED BY <1>4, <1>6, <2>3 DEF new
<1>7. QED BY <1>5, <1>6

\* A key file is as it was, or has the lock of a block that brings it.
LEMMA SecWithRange ==
    ASSUME NEW f, NEW s, NEW n \in Nat, NEW g \in Grip
    PROVE  \/ SecWith(f, s, n)[g] = f[g]
           \/ \E i \in Bringing(s, n, g) : SecWith(f, s, n)[g] = s[i].lock
<1> DEFINE P(k) == \/ SecWith(f, s, k)[g] = f[g]
                   \/ \E i \in Bringing(s, k, g) : SecWith(f, s, k)[g] = s[i].lock
           S == {k \in Nat : P(k)}
<1>1. P(0)
    <2>1. Bringing(s, 0, g) = {}
        BY DEF Bringing
    <2>2. QED BY <2>1 DEF SecWith
<1>2. ASSUME NEW k \in Nat, P(k) PROVE P(k + 1)
    <2>1. Bringing(s, k, g) \subseteq Bringing(s, k + 1, g)
        BY DEF Bringing
    <2>2. CASE s[k + 1].lock # Public /\ g \in ToSet(Components(s[k + 1]))
        <3>1. k + 1 \in Bringing(s, k + 1, g)
            BY <2>2 DEF Bringing
        <3>2. SecWith(f, s, k + 1)[g] = s[k + 1].lock
            BY <2>2, SecWithNext
        <3>3. QED BY <3>1, <3>2
    <2>3. CASE ~(s[k + 1].lock # Public /\ g \in ToSet(Components(s[k + 1])))
        <3>1. SecWith(f, s, k + 1)[g] = SecWith(f, s, k)[g]
            BY <2>3, SecWithNext
        <3>2. QED BY <1>2, <2>1, <3>1
    <2>4. QED BY <2>2, <2>3
<1>3. 0 \in S /\ \A k \in Nat : k \in S => k + 1 \in S
    BY <1>1, <1>2
<1> HIDE DEF S
<1>4. n \in S
    BY <1>3, NatSetInduction
<1>5. QED BY <1>4 DEF S

\* No block, nothing entered.
LEMMA PubWithNone ==
    ASSUME NEW E, NEW s
    PROVE  PubWith(E, s, 0) = E
<1>1. 1..0 = {}
    OBVIOUS
<1>2. QED BY <1>1 DEF PubWith

\* One block more: its entry takes the place of those of its certificate.
LEMMA PubWithNext ==
    ASSUME NEW E, NEW s, NEW k \in Nat
    PROVE  PubWith(E, s, k + 1) =
             {e \in PubWith(E, s, k) : e.fpr # s[k + 1].fpr} \union {BlobOf(s[k + 1])}
<1> DEFINE Latest(n) == {j \in 1..n : \A l \in (j + 1)..n : s[l].fpr # s[j].fpr}
           A(n) == {e \in E : \A i \in 1..n : s[i].fpr # e.fpr}
           B(n) == {BlobOf(s[i]) : i \in Latest(n)}
           b == BlobOf(s[k + 1])
<1>1. \A e : e \in A(k + 1) <=> e \in A(k) /\ e.fpr # s[k + 1].fpr
    <2>1. \A i : i \in 1..(k + 1) <=> i \in 1..k \/ i = k + 1
        OBVIOUS
    <2>2. QED BY <2>1, Zenon
<1>2. k + 1 \in Latest(k + 1)
    OBVIOUS
<1>3. \A i \in 1..k : i \in Latest(k + 1) <=> i \in Latest(k) /\ s[k + 1].fpr # s[i].fpr
    <2> SUFFICES ASSUME NEW i \in 1..k
                 PROVE  i \in Latest(k + 1) <=> i \in Latest(k) /\ s[k + 1].fpr # s[i].fpr
        OBVIOUS
    <2>1. i \in 1..(k + 1) /\ \A l : l \in (i + 1)..(k + 1) <=> l \in (i + 1)..k \/ l = k + 1
        OBVIOUS
    <2>2. QED BY <2>1, Zenon
<1>4. Latest(k) \subseteq 1..k /\ Latest(k + 1) \subseteq 1..k \union {k + 1}
    OBVIOUS
<1>5. \A i : BlobOf(s[i]).fpr = s[i].fpr
    BY DEF BlobOf
<1> HIDE DEF Latest
<1>6. \A e : e \in B(k + 1) <=> (e \in B(k) /\ e.fpr # s[k + 1].fpr) \/ e = b
    <2>1. ASSUME NEW e, e \in B(k + 1) PROVE (e \in B(k) /\ e.fpr # s[k + 1].fpr) \/ e = b
        BY <1>3, <1>4, <1>5, <2>1
    <2>2. ASSUME NEW e, e \in B(k), e.fpr # s[k + 1].fpr PROVE e \in B(k + 1)
        BY <1>3, <1>4, <1>5, <2>2
    <2>3. b \in B(k + 1)
        BY <1>2
    <2>4. QED BY <2>1, <2>2, <2>3
<1>7. PubWith(E, s, k) = A(k) \union B(k) /\ PubWith(E, s, k + 1) = A(k + 1) \union B(k + 1)
    BY DEF PubWith, Latest
<1> HIDE DEF A, B, b
<1>8. \A e : e \in PubWith(E, s, k + 1) <=>
             (e \in PubWith(E, s, k) /\ e.fpr # s[k + 1].fpr) \/ e = b
    BY <1>1, <1>6, <1>7
<1>9. QED BY <1>8 DEF b

-----------------------------------------------------------------------------
(* The keybox as a set of entries.                                          *)

\* Entries picks the entries of one certificate.
LEMMA EntriesToSet ==
    ASSUME NEW s, NEW f, NEW e
    PROVE  e \in Entries(s, f) <=> e \in ToSet(s) /\ e.fpr = f
BY DEF Entries, ToSet

\* AddPublic replaces what the keybox lists of the certificate, and only that.
LEMMA AddPublicToSet ==
    ASSUME NEW s \in Seq(Blob), NEW b \in Blob, Unique(s)
    PROVE  ToSet(AddPublic(s, b)) = {e \in ToSet(s) : e.fpr # b.fpr} \union {b}
<1> DEFINE t == AddPublic(s, b)
<1>1. t \in Seq(Blob) /\ Unique(t)
    BY AddPublicType, AddPublicUnique
<1>2. \E i \in DOMAIN t : t[i] = b
    <2>1. CASE Has(s, b.fpr)
        <3>1. First(s, b.fpr) \in DOMAIN s /\ t = [s EXCEPT ![First(s, b.fpr)] = b]
            BY <2>1, FirstIsFirst, LenProperties DEF AddPublic
        <3>2. QED BY <3>1
    <2>2. CASE ~Has(s, b.fpr)
        <3>1. t = Append(s, b)
            BY <2>2 DEF AddPublic
        <3>2. QED BY <3>1, AppendProperties, LenProperties
    <2>3. QED BY <2>1, <2>2
<1>3. b \in ToSet(t)
    BY <1>2 DEF ToSet
<1>4. \A f : f # b.fpr => Entries(t, f) = Entries(s, f)
    BY AddPublicKeepsOthers
<1> HIDE DEF t
<1>5. ASSUME NEW e \in ToSet(t), e.fpr = b.fpr PROVE e = b
    <2>1. PICK i \in DOMAIN t, j \in DOMAIN t : e = t[i] /\ b = t[j]
        BY <1>2, <1>5 DEF ToSet
    <2>2. i = j
        BY <1>1, <1>5, <2>1 DEF Unique
    <2>3. QED BY <2>1, <2>2
<1>6. \A e : e.fpr # b.fpr => (e \in ToSet(t) <=> e \in ToSet(s))
    BY <1>4, EntriesToSet
<1>7. \A e : e \in ToSet(t) <=> (e \in ToSet(s) /\ e.fpr # b.fpr) \/ e = b
    BY <1>3, <1>5, <1>6
<1>8. QED BY <1>7 DEF t

\* DeletePublic takes away one entry.
LEMMA DeletePublicToSet ==
    ASSUME NEW s \in Seq(Blob), NEW e \in ToSet(s), Unique(s)
    PROVE  ToSet(DeletePublic(s, e.fpr)) = ToSet(s) \ {e}
<1> DEFINE d == e.fpr
           t == DeletePublic(s, d)
           i == First(s, d)
<1>1. DOMAIN s = 1..Len(s) /\ Len(s) \in Nat
    BY LenProperties
<1>2. PICK k \in DOMAIN s : s[k] = e
    BY DEF ToSet
<1>3. Has(s, d)
    BY <1>2 DEF Has
<1>4. /\ i \in 1..Len(s) /\ s[i].fpr = d /\ DOMAIN t = 1..(Len(s) - 1)
      /\ \A j \in 1..(Len(s) - 1) : t[j] = IF j < i THEN s[j] ELSE s[j + 1]
    BY <1>3, DeletePublicEntries
<1>5. \A f : f # d => Entries(t, f) = Entries(s, f)
    BY DeletePublicKeepsOthers
<1> HIDE DEF t, i, d
<1>6. \A j \in DOMAIN s : s[j].fpr = d => j = i
    BY <1>1, <1>4 DEF Unique
<1>7. \A j \in DOMAIN t : t[j].fpr # d
    <2> SUFFICES ASSUME NEW j \in DOMAIN t PROVE t[j].fpr # d
        OBVIOUS
    <2>1. CASE j < i
        <3>1. j \in DOMAIN s /\ t[j] = s[j] /\ j # i
            BY <1>1, <1>4, <2>1
        <3>2. QED BY <1>6, <3>1
    <2>2. CASE ~(j < i)
        <3>1. j + 1 \in DOMAIN s /\ t[j] = s[j + 1] /\ j + 1 # i
            BY <1>1, <1>4, <2>2
        <3>2. QED BY <1>6, <3>1
    <2>3. QED BY <2>1, <2>2
<1>8. \A b \in ToSet(s) : b.fpr = d => b = e
    <2>1. \A b \in ToSet(s) : \E j \in DOMAIN s : b = s[j]
        BY DEF ToSet
    <2>2. k = i
        BY <1>2, <1>6 DEF d
    <2>3. QED BY <1>2, <1>6, <2>1, <2>2
<1>9. \A b \in ToSet(t) : b.fpr # d
    BY <1>7 DEF ToSet
<1>10. \A b : b.fpr # d => (b \in ToSet(t) <=> b \in ToSet(s))
    BY <1>5, EntriesToSet
<1>11. \A b : b \in ToSet(t) <=> b \in ToSet(s) \ {e}
    BY <1>8, <1>9, <1>10 DEF d
<1>12. ToSet(t) = ToSet(s) \ {e}
    BY <1>11
<1>13. QED BY <1>12 DEF t, d

\* A prefix has no other entries.
LEMMA PrefixToSet ==
    ASSUME NEW s \in Seq(Blob), NEW k \in 0..Len(s)
    PROVE  ToSet(Prefix(s, k)) \subseteq ToSet(s)
<1>1. DOMAIN s = 1..Len(s) /\ Len(s) \in Nat /\ \A i \in 1..k : s[i] \in Blob
    BY LenProperties, ElementOfSeq
<1>2. Prefix(s, k) \in Seq(Blob) /\ Len(Prefix(s, k)) = k /\ \A i \in 1..k : Prefix(s, k)[i] = s[i]
    BY <1>1, SubSeqProperties DEF Prefix
<1>3. DOMAIN Prefix(s, k) = 1..k /\ 1..k \subseteq DOMAIN s
    BY <1>1, <1>2, LenProperties
<1>4. QED BY <1>2, <1>3 DEF ToSet

\* A keybox is not taken for a torn one, read as a list or as a set.
LEMMA BoxNotTorn ==
    ASSUME NEW s \in Seq(Blob)
    PROVE  s # Torn /\ ToSet(s) # Torn
<1> DEFINE T == UNION {[fpr : {f}, n : 0..Len(Keys[f])] : f \in Fpr}
<1>1. Blob \subseteq T
    <2> SUFFICES ASSUME NEW b \in Blob PROVE b \in T
        OBVIOUS
    <2>1. b \in [fpr : Fpr, n : Nat] /\ b.n <= Len(Keys[b.fpr])
        BY DEF Blob
    <2>2. b.fpr \in Fpr /\ b.n \in Nat /\ b = [fpr |-> b.fpr, n |-> b.n]
        BY <2>1
    <2>3. Len(Keys[b.fpr]) \in Nat
        BY <2>2, KeysAssumption, LenProperties
    <2>4. b.n \in 0..Len(Keys[b.fpr])
        BY <2>1, <2>2, <2>3
    <2>5. b \in [fpr : {b.fpr}, n : 0..Len(Keys[b.fpr])]
        BY <2>2, <2>4
    <2>6. QED BY <2>2, <2>5
<1>2. ToSet(s) \subseteq Blob
    BY SeqFacts
<1> HIDE DEF T
<1>3. ToSet(s) \in SUBSET T
    BY <1>1, <1>2
<1>4. QED BY <1>3, SentinelAssumption DEF T

-----------------------------------------------------------------------------
(* The keys an entry lists.                                                 *)

Grips(e) == {Keys[e.fpr][i] : i \in 1..e.n}

\* The keys of an entry, as KeygripsFor, KeyRing and HasSecret see them.
LEMMA GripsFacts ==
    ASSUME NEW e \in Blob
    PROVE  /\ Grips(e) \subseteq Grip
           /\ KeygripsFor(e) \in Seq(Grip) /\ ToSet(KeygripsFor(e)) = Grips(e)
           /\ \A g : Ring!Listed(e, g) <=> g \in Grips(e)
           /\ HasSecret(e) <=> \E g \in Grips(e) : sec[g] # Absent
<1>1. e.n \in Nat /\ e.n <= Len(Keys[e.fpr]) /\ Keys[e.fpr] \in Seq(Grip) /\ Len(Keys[e.fpr]) \in Nat
    BY KeysAssumption, LenProperties DEF Blob
<1>2. \A k \in 1..e.n : Keys[e.fpr][k] \in Grip
    BY <1>1, ElementOfSeq
<1> DEFINE t == KeygripsFor(e)
<1>3. t \in Seq(Grip) /\ Len(t) = e.n /\ \A k \in 1..e.n : t[k] = Keys[e.fpr][k]
    BY <1>1, <1>2, SubSeqProperties DEF KeygripsFor
<1> HIDE DEF t
<1>4. DOMAIN t = 1..e.n
    BY <1>3, LenProperties
<1>5. ToSet(t) = Grips(e)
    BY <1>3, <1>4 DEF ToSet, Grips
<1>6. Grips(e) \subseteq Grip
    BY <1>2 DEF Grips
<1>7. \A g : Ring!Listed(e, g) <=> g \in Grips(e)
    BY DEF Ring!Listed, Grips
<1>8. HasSecret(e) <=> \E g \in Grips(e) : sec[g] # Absent
    BY DEF HasSecret, Grips
<1>9. QED BY <1>3, <1>5, <1>6, <1>7, <1>8 DEF t

-----------------------------------------------------------------------------
(* One command at a time.                                                   *)

Given == ImportCommands \union GenCommands(New) \union KeyCommands

\* An entry that command c names and finds, in the keybox it started from.
Target(c, e) ==
    /\ e \in ToSet(box0) /\ e.fpr = c.fpr /\ e.n > 0
    /\ c.op # "delete-keys" => \E g \in Grips(e) : sec0[g] # Absent

Cleared(e)   == [g \in Grip |-> IF g \in Grips(e) THEN Absent ELSE sec0[g]]
Usable(p, e) == {g \in Grips(e) : sec[g] \in {NoPass, pass[p]}}

\* The keys of p's block that are written have its passphrase, the others are
\* as they were before the block.
WritingKeys(p) ==
    LET b == Block(p)
        comps == ToSet(Components(b))
        before == SecWith(sec0, cmd[p].file, at[p] - 1)
    IN  /\ b.lock # Public /\ pass[p] = b.lock
        /\ ToSet(todo[p]) \subseteq comps
        /\ ToSet(mem[p]) = PubWith(ToSet(box0), cmd[p].file, at[p])
        /\ \A g \in Grip :
              \/ g \in comps /\ sec[g] = b.lock
              \/ (g \in ToSet(todo[p]) \/ g \notin comps) /\ sec[g] = before[g]
              \/ pc[p] = "fill" /\ g = Head(todo[p]) /\ sec[g] = Torn

\* An import has taken in the first k blocks of its input.
TakenIn(p, k) == /\ sec = SecWith(sec0, cmd[p].file, k)
                 /\ ToSet(mem[p]) = PubWith(ToSet(box0), cmd[p].file, k)

Importing(p) ==
    /\ pc[p] \in {"next", "create", "fill", "save", "write"}
    /\ pc[p] = "next" => TakenIn(p, at[p] - 1)
    /\ pc[p] \in {"create", "fill"} => WritingKeys(p)
    /\ pc[p] \in {"save", "write"} => TakenIn(p, Len(cmd[p].file))

\* The key files of e that are gone, and those that are still to go.
RemovingKeys(p, e) ==
    /\ ToSet(todo[p]) \subseteq Grips(e)
    /\ \A g \in Grip : \/ g \in Grips(e) /\ sec[g] = Absent
                       \/ (g \in ToSet(todo[p]) \/ g \notin Grips(e)) /\ sec[g] = sec0[g]
    /\ got[p] # {} \/ \E g \in ToSet(todo[p]) : sec[g] # Absent

Attaching(p, e) ==
    /\ ToSet(todo[p]) \subseteq Grips(e)
    /\ Usable(p, e) \ ToSet(todo[p]) \subseteq got[p]
    /\ got[p] \subseteq Usable(p, e)

Handling(p) ==
    /\ pc[p] \in {"find", "remove", "save", "write", "probe", "attach"}
    /\ pc[p] \in {"find", "remove", "probe", "attach"} => ToSet(mem[p]) = ToSet(box0)
    /\ pc[p] \in {"find", "probe", "attach"} => sec = sec0
    /\ pc[p] \in {"find", "probe"} => got[p] = {}
    /\ pc[p] \in {"probe", "attach"} => cmd[p].op = "unlock"
    /\ pc[p] = "remove" => DeletesSecret(cmd[p].op)
    /\ pc[p] \in {"save", "write"} => DeletesPublic(cmd[p].op)
    /\ pc[p] # "find" => \E e : /\ Target(cmd[p], e)
                                /\ pc[p] = "remove" => RemovingKeys(p, e)
                                /\ pc[p] = "probe" => ToSet(todo[p]) = Grips(e)
                                /\ pc[p] = "attach" => Attaching(p, e)
                                /\ pc[p] \in {"save", "write"} =>
                                     /\ ToSet(mem[p]) = ToSet(box0) \ {e}
                                     /\ sec = IF DeletesSecret(cmd[p].op) THEN Cleared(e) ELSE sec0

Doing(p) ==
    /\ cmd[p] \in Given /\ cmd[p].op \in Ops
    /\ box0 # Torn /\ box = IF pc[p] = "write" THEN << >> ELSE box0
    /\ pc[p] = "fill" => p \notin unlinked
    /\ cmd[p] \in KeyCommands => Handling(p)
    /\ cmd[p] \notin KeyCommands => Importing(p)

Serial ==
    /\ ~clash
    /\ box0 \in Seq(Blob) \union {Torn} /\ sec0 \in [Grip -> KeyFile]
    /\ \A p, q \in Proc : Active(p) /\ Active(q) => p = q
    /\ Idle => box0 = box /\ sec0 = sec
    /\ \A p \in Proc : pc[p] = "start" => got[p] = {}
    /\ \A p \in Proc : Active(p) => Doing(p)

\* The history variables of a step.
Kept == IF Idle' THEN box0' = box' /\ sec0' = sec' ELSE UNCHANGED <<box0, sec0>>

\* A command is well formed, and is a key command or an import with an input.
LEMMA GivenFacts ==
    ASSUME NEW c \in Given
    PROVE  /\ c \in Command
           /\ c \in KeyCommands <=> c.op \notin {"gen", "import"}
           /\ c \notin KeyCommands => /\ c \in ImportCommands \union GenCommands(New)
                                      /\ c.file \in Seq(Copy) /\ c.file # << >>
<1>1. CASE c \in ImportCommands
    <2>1. c.file \in Seq(Copy) /\ c.file # << >>
        BY <1>1, InputAssumption DEF ImportCommands
    <2>2. c.op = "import" /\ c = [op |-> "import", fpr |-> "none", file |-> c.file]
        BY <1>1 DEF ImportCommands
    <2>3. c \notin KeyCommands
        BY <2>2 DEF KeyCommands
    <2>4. QED BY <1>1, <2>1, <2>2, <2>3 DEF Command, Ops_all
<1>2. CASE c \in KeyCommands
    <2>1. PICK o \in Ops_all \ {"gen", "import"}, f \in Fpr :
             c = [op |-> o, fpr |-> f, file |-> << >>]
        BY <1>2 DEF KeyCommands
    <2>2. << >> \in Seq(Copy)
        BY EmptySeq
    <2>3. QED BY <1>2, <2>1, <2>2 DEF Command
<1>3. CASE c \in GenCommands(New)
    <2>1. PICK f \in New, x \in Pass \union {NoPass} :
             c = [op |-> "gen", fpr |-> f, file |-> << Generated(f, x) >>]
        BY <1>3 DEF GenCommands
    <2>2. f \in Fpr /\ Keys[f] \in Seq(Grip) /\ Len(Keys[f]) \in Nat \ {0}
        BY InputAssumption, KeysAssumption, EmptySeq
    <2>3. Generated(f, x) \in Copy
        BY <2>2 DEF Generated, Copy
    <2>4. << Generated(f, x) >> \in Seq(Copy) /\ << Generated(f, x) >> # << >>
        BY <2>3
    <2>5. c \notin KeyCommands
        <3>1. c.op = "gen"
            BY <2>1
        <3>2. QED BY <3>1 DEF KeyCommands
    <2>6. QED BY <1>3, <2>1, <2>2, <2>4, <2>5 DEF Command, Ops_all
<1>4. QED BY <1>1, <1>2, <1>3 DEF Given

\* Every command a process may start is one of them.
LEMMA CommandsGiven == Commands \subseteq Given /\ \A c \in Commands : c.op \in Ops
BY DEF Commands, Given, GenCommands

\* What KeyRing says of the disk before the command, in these terms.
LEMMA RingMeans ==
    ASSUME box0 \in Seq(Blob)
    PROVE  /\ \A s \in Seq(Copy) : Ring!PubAfter(s) = PubWith(ToSet(box0), s, Len(s))
           /\ \A s, k : Ring!SecAfter(s, k) = SecWith(sec0, s, k)
           /\ \A s, k, g : Ring!Bringing(s, k, g) = Bringing(s, k, g)
           /\ \A e : Ring!Without(e) = Cleared(e)
           /\ \A c, e : e \in Ring!Named(c) <=> Target(c, e)
<1>1. box0 # Torn
    BY BoxNotTorn
<1>2. \A c : Ring!BlobOf(c) = BlobOf(c) /\ Ring!Components(c) = Components(c)
    BY DEF Ring!BlobOf, BlobOf, Ring!Components, Components
<1>3. ASSUME NEW s, NEW k, NEW g PROVE Ring!Bringing(s, k, g) = Bringing(s, k, g)
    BY <1>2 DEF Ring!Bringing, Bringing, ToSet
<1>4. ASSUME NEW s, NEW k PROVE Ring!SecAfter(s, k) = SecWith(sec0, s, k)
    <2> DEFINE M(I) == CHOOSE i \in I : \A j \in I : j <= i
    <2>1. Ring!SecAfter(s, k) = [g \in Grip |-> IF Ring!Bringing(s, k, g) = {} THEN sec0[g]
                                                ELSE s[M(Ring!Bringing(s, k, g))].lock]
        BY DEF Ring!SecAfter
    <2>2. SecWith(sec0, s, k) = [g \in Grip |-> IF Bringing(s, k, g) = {} THEN sec0[g]
                                                ELSE s[M(Bringing(s, k, g))].lock]
        BY DEF SecWith
    <2> HIDE DEF M
    <2>3. QED BY <1>3, <2>1, <2>2
<1>5. ASSUME NEW s \in Seq(Copy) PROVE Ring!PubAfter(s) = PubWith(ToSet(box0), s, Len(s))
    <2>1. DOMAIN s = 1..Len(s) /\ ToSet(box0) = {box0[i] : i \in DOMAIN box0}
        BY LenProperties DEF ToSet
    <2>2. QED BY <1>1, <1>2, <2>1 DEF Ring!PubAfter, PubWith
<1>6. \A e, g : Ring!Listed(e, g) <=> g \in Grips(e)
    BY DEF Ring!Listed, Grips
<1>7. \A e : Ring!Without(e) = Cleared(e)
    BY <1>6 DEF Ring!Without, Cleared
<1>8. ASSUME NEW c, NEW e PROVE e \in Ring!Named(c) <=> Target(c, e)
    <2>1. ToSet(box0) = {box0[i] : i \in DOMAIN box0} /\ ToSet(box0) \subseteq Blob
        BY SeqFacts DEF ToSet
    <2>2. e \in Ring!Named(c) <=> /\ e \in ToSet(box0) /\ e.fpr = c.fpr /\ e.n > 0
                                  /\ c.op # "delete-keys" => Ring!HasSecret(e)
        BY <1>1, <2>1 DEF Ring!Named
    <2>3. e \in ToSet(box0) => Grips(e) \subseteq Grip
        BY <2>1, GripsFacts
    <2>4. e \in ToSet(box0) => (Ring!HasSecret(e) <=> \E g \in Grips(e) : sec0[g] # Absent)
        BY <1>6, <2>3 DEF Ring!HasSecret
    <2>5. QED BY <2>2, <2>4 DEF Target
<1>9. QED BY <1>3, <1>4, <1>5, <1>7, <1>8

\* The commands are those of KeyRing.
LEMMA RingCommands ==
    /\ Ring!ImportCommands = ImportCommands /\ Ring!KeyCommands = KeyCommands
    /\ Ring!GenCommands(New) = GenCommands(New)
    /\ \A op : Ring!DeletesPublic(op) = DeletesPublic(op) /\ Ring!DeletesSecret(op) = DeletesSecret(op)
BY DEF Ring!ImportCommands, ImportCommands, Ring!KeyCommands, KeyCommands, Ring!Ops_all, Ops_all,
       Ring!GenCommands, GenCommands, Ring!Generated, Generated,
       Ring!DeletesPublic, DeletesPublic, Ring!DeletesSecret, DeletesSecret

\* An import that ends in one of KeyRing's ways is a step of KeyRing.
LEMMA RingImports ==
    ASSUME NEW p \in Proc, NEW c \in Given \ KeyCommands, c.op \in Ops,
           Ring!Import(p, c) \/ Ring!ImportRefused(p, c) \/ Ring!Fails(p, c) \/ Ring!Interrupted(p, c)
    PROVE  Ring!Next
<1>1. c \in Ring!ImportCommands \union Ring!GenCommands(New)
    BY RingCommands DEF Given
<1>2. Ring!Imports(p)
    BY <1>1 DEF Ring!Imports
<1>3. QED BY <1>2 DEF Ring!Next

\* A key command that ends in one of KeyRing's ways is a step of KeyRing.
LEMMA RingKeyUses ==
    ASSUME NEW p \in Proc, NEW c \in KeyCommands, c.op \in Ops,
           \/ Ring!Fails(p, c) \/ Ring!Interrupted(p, c)
           \/ box0 # Torn /\ (IF c.op = "unlock" THEN Ring!Unlock(p, c) ELSE Ring!Delete(p, c)),
           box0 \in Seq(Blob) \union {Torn}
    PROVE  Ring!Next
<1>1. c \in Ring!KeyCommands
    BY RingCommands
<1>2. box0 # Torn => {box0[i] : i \in DOMAIN box0} # Torn
    BY BoxNotTorn DEF ToSet
<1>3. Ring!KeyUses(p)
    BY <1>1, <1>2 DEF Ring!KeyUses
<1>4. QED BY <1>3 DEF Ring!Next

-----------------------------------------------------------------------------
(* A command that goes on, and one that ends.                               *)

\* The only process that is running, or one that is about to start.
Only(p) == p \in Proc /\ pc[p] \in {"start"} \union Steps /\ \A q \in Proc \ {p} : ~Active(q)

\* KeyRing sees nothing of a command before its end.
LEMMA GoesOn ==
    ASSUME TypeOK, NEW p, Only(p), NEW l \in Steps, pc' = [pc EXCEPT ![p] = l], Kept,
           \A q \in Proc \ {p} : cmd'[q] = cmd[q]
    PROVE  box0' = box0 /\ sec0' = sec0 /\ UNCHANGED Ring!vars
<1>1. p \in Proc /\ pc'[p] = l /\ \A q \in Proc \ {p} : pc'[q] = pc[q]
    BY DEF Only, TypeOK
<1>2. ~Idle'
    BY <1>1 DEF Idle, Active
<1>3. box0' = box0 /\ sec0' = sec0
    BY <1>2 DEF Kept
<1>4. pc[p] \notin Ended /\ pc'[p] \notin Ended
    BY <1>1 DEF Only, Steps, Ended
<1>5. \A q \in Proc : /\ (IF pc'[q] \in Ended THEN cmd'[q] ELSE NoCmd) = (IF pc[q] \in Ended THEN cmd[q] ELSE NoCmd)
                      /\ (IF pc'[q] \in Ended THEN pc'[q] ELSE "none") = (IF pc[q] \in Ended THEN pc[q] ELSE "none")
    BY <1>1, <1>4
<1>6. Ring!NoCmd = NoCmd
    BY DEF Ring!NoCmd, NoCmd
<1>7. UNCHANGED Ring!vars
    BY <1>3, <1>5, <1>6 DEF Ring!vars
<1>8. QED BY <1>3, <1>7

\* A step inside a command keeps Serial if the command is Doing what it should.
LEMMA StaysSerial ==
    ASSUME TypeOK, Serial, NEW p, Only(p), NEW l \in Steps, pc' = [pc EXCEPT ![p] = l],
           box0' = box0, sec0' = sec0, clash' = clash,
           \A q \in Proc \ {p} : got'[q] = got[q], Doing(p)'
    PROVE  Serial'
<1>1. p \in Proc /\ pc'[p] = l /\ \A q \in Proc \ {p} : pc'[q] = pc[q]
    BY DEF Only, TypeOK
<1>2. Active(p)' /\ \A q \in Proc \ {p} : ~Active(q)'
    BY <1>1 DEF Only, Active
<1>3. ~Idle'
    BY <1>1, <1>2 DEF Idle
<1>4. \A q, r \in Proc : Active(q)' /\ Active(r)' => q = r
    BY <1>2
<1>5. \A q \in Proc : pc'[q] = "start" => got'[q] = {}
    BY <1>1 DEF Serial, Steps
<1>6. \A q \in Proc : Active(q)' => Doing(q)'
    BY <1>2
<1>7. QED BY <1>3, <1>4, <1>5, <1>6 DEF Serial

\* The end of a command keeps Serial, and KeyRing sees the command end.
LEMMA IsOver ==
    ASSUME TypeOK, TypeOK', Serial, NEW p, Only(p), NEW l \in Ended, pc' = [pc EXCEPT ![p] = l], Kept,
           clash' = clash, \A q \in Proc \ {p} : cmd'[q] = cmd[q] /\ got'[q] = got[q]
    PROVE  /\ Serial' /\ box0' = box' /\ sec0' = sec'
           /\ Ring!Ends(p, cmd'[p], l)
<1>1. p \in Proc /\ pc'[p] = l /\ \A q \in Proc \ {p} : pc'[q] = pc[q]
    BY DEF Only, TypeOK
<1>2. \A q \in Proc : ~Active(q)'
    BY <1>1 DEF Only, Active, Steps, Ended
<1>3. Idle'
    BY <1>2 DEF Idle
<1>4. box0' = box' /\ sec0' = sec'
    BY <1>3 DEF Kept
<1>5. \A q \in Proc : pc'[q] = "start" => got'[q] = {}
    BY <1>1 DEF Serial, Ended
<1>6. Serial'
    BY <1>2, <1>4, <1>5 DEF Serial, TypeOK
<1>7. pc[p] \notin Ended
    BY DEF Only, Steps, Ended
<1>8. \A q \in Proc \ {p} :
        /\ (IF pc'[q] \in Ended THEN cmd'[q] ELSE NoCmd) = (IF pc[q] \in Ended THEN cmd[q] ELSE NoCmd)
        /\ (IF pc'[q] \in Ended THEN pc'[q] ELSE "none") = (IF pc[q] \in Ended THEN pc[q] ELSE "none")
    BY <1>1
<1>9. Ring!NoCmd = NoCmd
    BY DEF Ring!NoCmd, NoCmd
<1>10. Ring!Ends(p, cmd'[p], l)
    BY <1>1, <1>7, <1>8, <1>9 DEF Ring!Ends
<1>11. QED BY <1>4, <1>6, <1>10

-----------------------------------------------------------------------------
(* One step: Serial is kept, and KeyRing takes the step or sees nothing.    *)

Ready  == TypeOK /\ TypeOK' /\ SavesApart /\ Serial /\ Kept
Served == Serial' /\ (Ring!Next \/ UNCHANGED Ring!vars)

\* A process that is running runs alone.
LEMMA OnlyActive ==
    ASSUME Serial, NEW p \in Proc, Active(p)
    PROVE  Only(p) /\ Doing(p)
BY DEF Serial, Only, Active

\* Opening the store: an unreadable keybox fails the command, any other is taken in.
LEMMA OpenServes ==
    ASSUME Ready, ~Overlap, NEW p \in Proc, NEW c \in Commands, Open(p, c)
    PROVE  Served
<1>1. /\ pc[p] = "start" /\ \A q \in Proc : ~Active(q)
      /\ cmd' = [cmd EXCEPT ![p] = c]
      /\ UNCHANGED <<box, sec, at, todo, pass, got, unlinked, clash, faults>>
    BY DEF Open, disk
<1>2. Only(p) /\ Idle /\ box0 = box /\ sec0 = sec
    BY <1>1 DEF Only, Idle, Ready, Serial
<1>3. c \in Given /\ c.op \in Ops /\ cmd'[p] = c /\ \A q \in Proc \ {p} : cmd'[q] = cmd[q]
    BY <1>1, CommandsGiven DEF Ready, TypeOK
<1>4. CASE box = Torn
    <2>1. pc' = [pc EXCEPT ![p] = "failed"]
        BY <1>4 DEF Open, Goto
    <2>2. "failed" \in Ended
        BY DEF Ended
    <2>3. Serial' /\ box0' = box' /\ sec0' = sec' /\ Ring!Ends(p, c, "failed")
        BY <1>1, <1>2, <1>3, <2>1, <2>2, IsOver DEF Ready
    <2>4. Ring!Fails(p, c)
        BY <1>1, <1>2, <1>4, <2>3 DEF Ring!Fails
    <2>5. Ring!Next
        BY <1>3, <2>4, RingImports, RingKeyUses DEF Ready, Serial
    <2>6. QED BY <2>3, <2>5 DEF Served
<1>5. CASE box # Torn
    <2> DEFINE l == IF c.op \in {"gen", "import"} THEN "next" ELSE "find"
    <2>1. pc' = [pc EXCEPT ![p] = l] /\ mem' = [mem EXCEPT ![p] = box]
        BY <1>5 DEF Open, Goto
    <2>2. l \in Steps
        BY DEF Steps
    <2>3. pc'[p] = l /\ mem'[p] = box /\ at[p] = 1 /\ got[p] = {}
        BY <1>1, <2>1 DEF Ready, TypeOK, Serial
    <2>4. c \in KeyCommands <=> l = "find"
        BY <1>3, GivenFacts
    <2>5. l \in {"next", "find"}
        OBVIOUS
    <2> HIDE DEF l
    <2>6. box0' = box0 /\ sec0' = sec0 /\ UNCHANGED Ring!vars
        BY <1>2, <1>3, <2>1, <2>2, GoesOn DEF Ready
    <2>7. c \in KeyCommands => Handling(p)'
        BY <1>1, <1>2, <2>3, <2>4, <2>6 DEF Handling
    <2>8. c \notin KeyCommands => Importing(p)'
        <3>1. SecWith(sec0, c.file, 0) = sec0 /\ PubWith(ToSet(box0), c.file, 0) = ToSet(box0)
            BY SecWithNone, PubWithNone DEF Ready, Serial
        <3>2. at'[p] - 1 = 0
            BY <1>1, <2>3
        <3>3. TakenIn(p, at[p] - 1)'
            BY <1>1, <1>2, <1>3, <2>3, <2>6, <3>1, <3>2 DEF TakenIn
        <3>4. QED BY <2>3, <2>4, <2>5, <3>3 DEF Importing
    <2>9. Doing(p)'
        BY <1>1, <1>2, <1>3, <1>5, <2>3, <2>5, <2>6, <2>7, <2>8 DEF Doing
    <2>10. Serial'
        BY <1>1, <1>2, <2>1, <2>2, <2>6, <2>9, StaysSerial DEF Ready
    <2>11. QED BY <2>6, <2>10 DEF Served
<1>6. QED BY <1>4, <1>5

-----------------------------------------------------------------------------
(* Imports.                                                                 *)

\* The import that p is in.
LEMMA ImportFacts ==
    ASSUME Ready, NEW p \in Proc, Active(p), cmd[p] \notin KeyCommands
    PROVE  /\ Only(p) /\ Doing(p) /\ Importing(p)
           /\ cmd[p] \in Given /\ cmd[p].op \in Ops
           /\ cmd[p].file \in Seq(Copy) /\ DOMAIN cmd[p].file = 1..Len(cmd[p].file)
           /\ Len(cmd[p].file) \in Nat
           /\ box0 \in Seq(Blob) /\ box0 # Torn
           /\ mem[p] \in Seq(Blob) /\ Unique(mem[p])
           /\ box = IF pc[p] = "write" THEN << >> ELSE box0
<1>1. Only(p) /\ Doing(p)
    BY OnlyActive DEF Ready
<1>2. Importing(p) /\ cmd[p] \in Given /\ cmd[p].op \in Ops /\ box0 # Torn
      /\ box = IF pc[p] = "write" THEN << >> ELSE box0
    BY <1>1 DEF Doing
<1>3. cmd[p].file \in Seq(Copy)
    BY <1>2, GivenFacts
<1>4. box0 \in Seq(Blob) /\ mem[p] \in Seq(Blob) /\ Unique(mem[p])
    BY <1>2 DEF Ready, Serial, TypeOK, SavesApart, OneEntryPerKey
<1>5. DOMAIN cmd[p].file = 1..Len(cmd[p].file) /\ Len(cmd[p].file) \in Nat
    BY <1>3, LenProperties
<1>6. QED BY <1>1, <1>2, <1>3, <1>4, <1>5, Zenon

\* Where the import goes on when the first at[p] blocks are in.
LEMMA NextBlock ==
    ASSUME Ready, NEW p \in Proc, pc[p] \in {"next", "fill"}, cmd[p] \notin KeyCommands,
           pc' = [pc EXCEPT ![p] = AfterBlock(p)], at' = [at EXCEPT ![p] = at[p] + 1],
           cmd' = cmd, box' = box, clash' = clash, got' = got,
           sec' = SecWith(sec0, cmd[p].file, at[p]),
           ToSet(mem'[p]) = PubWith(ToSet(box0), cmd[p].file, at[p])
    PROVE  Served
<1>1. Active(p)
    BY DEF Active, Steps
<1>2. /\ Only(p) /\ cmd[p] \in Given /\ cmd[p].op \in Ops /\ box0 # Torn
      /\ box = box0 /\ at[p] \in 1..Len(cmd[p].file) /\ Len(cmd[p].file) \in Nat
    <2>1. /\ Only(p) /\ cmd[p] \in Given /\ cmd[p].op \in Ops /\ box0 # Torn /\ box = box0
          /\ DOMAIN cmd[p].file = 1..Len(cmd[p].file) /\ Len(cmd[p].file) \in Nat
        BY <1>1, ImportFacts
    <2>2. at[p] \in DOMAIN cmd[p].file
        BY DEF Ready, TypeOK
    <2>3. QED BY <2>1, <2>2
<1>3. AfterBlock(p) \in {"next", "save"} /\ (AfterBlock(p) = "save" => at[p] = Len(cmd[p].file))
    BY <1>2 DEF AfterBlock
<1> DEFINE l == AfterBlock(p)
<1>4. l \in Steps /\ pc' = [pc EXCEPT ![p] = l]
    BY <1>3 DEF Steps
<1>5. pc'[p] = l /\ l \in {"next", "save"} /\ (l = "save" => at[p] = Len(cmd[p].file))
    BY <1>3 DEF Ready, TypeOK
<1> HIDE DEF l
<1>6. box0' = box0 /\ sec0' = sec0 /\ UNCHANGED Ring!vars
    BY <1>2, <1>4, GoesOn DEF Ready
<1>7. at'[p] - 1 = at[p]
    BY <1>2 DEF Ready, TypeOK
<1>8. pc'[p] = "next" => TakenIn(p, at[p] - 1)'
    BY <1>6, <1>7 DEF TakenIn
<1>9. pc'[p] = "save" => TakenIn(p, Len(cmd[p].file))'
    BY <1>5, <1>6 DEF TakenIn
<1>10. Importing(p)'
    BY <1>5, <1>8, <1>9 DEF Importing
<1>11. Doing(p)'
    BY <1>2, <1>5, <1>6, <1>10 DEF Doing
<1>12. Serial'
    BY <1>2, <1>4, <1>6, <1>11, StaysSerial DEF Ready
<1>13. QED BY <1>6, <1>12 DEF Served

\* The entries once p's block is in.
LEMMA BlockEntered ==
    ASSUME Ready, NEW p \in Proc, pc[p] = "next", cmd[p] \notin KeyCommands
    PROVE  ToSet(AddPublic(mem[p], BlobOf(Block(p)))) = PubWith(ToSet(box0), cmd[p].file, at[p])
<1>1. Active(p)
    BY DEF Active, Steps
<1>2. /\ mem[p] \in Seq(Blob) /\ Unique(mem[p])
      /\ ToSet(mem[p]) = PubWith(ToSet(box0), cmd[p].file, at[p] - 1)
    BY <1>1, ImportFacts DEF Importing, TakenIn
<1>3. BlobOf(Block(p)) \in Blob /\ BlobOf(Block(p)).fpr = Block(p).fpr
    BY BlockTypes DEF Ready, BlobOf
<1>4. ToSet(AddPublic(mem[p], BlobOf(Block(p)))) =
        {e \in ToSet(mem[p]) : e.fpr # Block(p).fpr} \union {BlobOf(Block(p))}
    BY <1>2, <1>3, AddPublicToSet
<1> DEFINE k == at[p] - 1
<1>5. k \in Nat /\ k + 1 = at[p]
    BY DEF Ready, TypeOK
<1>6. PubWith(ToSet(box0), cmd[p].file, k + 1) =
        {e \in PubWith(ToSet(box0), cmd[p].file, k) : e.fpr # cmd[p].file[k + 1].fpr}
          \union {BlobOf(cmd[p].file[k + 1])}
    <2> DEFINE E == ToSet(box0)
               s == cmd[p].file
    <2> HIDE DEF E, s, k
    <2>1. PubWith(E, s, k + 1) = {e \in PubWith(E, s, k) : e.fpr # s[k + 1].fpr} \union {BlobOf(s[k + 1])}
        BY <1>5, PubWithNext
    <2>2. QED BY <2>1 DEF E, s
<1> HIDE DEF k
<1>7. PubWith(ToSet(box0), cmd[p].file, k) = ToSet(mem[p])
    BY <1>2 DEF k
<1>8. Block(p) = cmd[p].file[k + 1]
    BY <1>5 DEF Block
<1>9. QED BY <1>4, <1>5, <1>6, <1>7, <1>8

\* The key files once p's block is in.
LEMMA BlockStored ==
    ASSUME Ready, NEW p \in Proc, NEW g \in Grip
    PROVE  SecWith(sec0, cmd[p].file, at[p])[g] =
             IF Block(p).lock # Public /\ g \in ToSet(Components(Block(p)))
             THEN Block(p).lock ELSE SecWith(sec0, cmd[p].file, at[p] - 1)[g]
<1> DEFINE k == at[p] - 1
<1>1. k \in Nat /\ k + 1 = at[p]
    BY DEF Ready, TypeOK
<1> HIDE DEF k
<1>2. SecWith(sec0, cmd[p].file, k + 1)[g] =
        IF cmd[p].file[k + 1].lock # Public /\ g \in ToSet(Components(cmd[p].file[k + 1]))
        THEN cmd[p].file[k + 1].lock ELSE SecWith(sec0, cmd[p].file, k)[g]
    BY <1>1, SecWithNext
<1>3. QED BY <1>1, <1>2 DEF Block, k

\* A public block is in memory, and none of its key files changes.
LEMMA ImportPublicServes ==
    ASSUME Ready, NEW p \in Proc, ImportPublic(p)
    PROVE  Served
<1>1. /\ pc[p] = "next" /\ Block(p).lock = Public
      /\ mem' = [mem EXCEPT ![p] = AddPublic(mem[p], BlobOf(Block(p)))]
      /\ at' = [at EXCEPT ![p] = at[p] + 1] /\ pc' = [pc EXCEPT ![p] = AfterBlock(p)]
      /\ UNCHANGED <<box, sec, cmd, got, clash>>
    BY DEF ImportPublic, Goto, disk, ghost
<1>2. Active(p)
    BY <1>1 DEF Active, Steps
<1>3. cmd[p] \notin KeyCommands
    BY <1>1, <1>2, OnlyActive DEF Ready, Doing, Handling
<1>4. ToSet(mem'[p]) = PubWith(ToSet(box0), cmd[p].file, at[p])
    <2>1. mem'[p] = AddPublic(mem[p], BlobOf(Block(p)))
        BY <1>1 DEF Ready, TypeOK
    <2>2. QED BY <1>1, <1>3, <2>1, BlockEntered
<1>5. sec = SecWith(sec0, cmd[p].file, at[p] - 1)
    BY <1>1, <1>2, <1>3, ImportFacts DEF Importing, TakenIn
<1>6. \A g \in Grip : sec[g] = SecWith(sec0, cmd[p].file, at[p])[g]
    BY <1>1, <1>5, BlockStored
<1>7. sec' = SecWith(sec0, cmd[p].file, at[p])
    <2>1. sec \in [Grip -> KeyFile]
        BY DEF Ready, TypeOK
    <2>2. DOMAIN SecWith(sec0, cmd[p].file, at[p]) = Grip
        BY DEF SecWith
    <2>3. SecWith(sec0, cmd[p].file, at[p]) = [g \in Grip |-> SecWith(sec0, cmd[p].file, at[p])[g]]
        BY DEF SecWith
    <2>4. sec = [g \in Grip |-> sec[g]]
        BY <2>1
    <2>5. QED BY <1>1, <1>6, <2>3, <2>4
<1>8. QED BY <1>1, <1>3, <1>4, <1>7, NextBlock

\* The keys of a secret block are about to be written.
LEMMA ImportSecretServes ==
    ASSUME Ready, NEW p \in Proc, ImportSecret(p)
    PROVE  Served
<1>1. /\ pc[p] = "next" /\ Block(p).lock # Public
      /\ mem' = [mem EXCEPT ![p] = AddPublic(mem[p], BlobOf(Block(p)))]
      /\ todo' = [todo EXCEPT ![p] = Components(Block(p))]
      /\ pass' = [pass EXCEPT ![p] = Block(p).lock]
      /\ pc' = [pc EXCEPT ![p] = "create"]
      /\ UNCHANGED <<box, sec, cmd, at, got, unlinked, clash>>
    BY DEF ImportSecret, Goto, disk, ghost
<1>2. Active(p) /\ "create" \in Steps
    BY <1>1 DEF Active, Steps
<1>3. cmd[p] \notin KeyCommands
    BY <1>1, <1>2, OnlyActive DEF Ready, Doing, Handling
<1>4. /\ mem'[p] = AddPublic(mem[p], BlobOf(Block(p))) /\ todo'[p] = Components(Block(p))
      /\ pass'[p] = Block(p).lock /\ pc'[p] = "create"
    BY <1>1 DEF Ready, TypeOK
<1>5. ToSet(mem'[p]) = PubWith(ToSet(box0), cmd[p].file, at[p])
    BY <1>1, <1>3, <1>4, BlockEntered
<1>6. /\ Only(p) /\ cmd[p] \in Given /\ cmd[p].op \in Ops /\ box0 # Torn
      /\ box = box0 /\ sec = SecWith(sec0, cmd[p].file, at[p] - 1)
    BY <1>1, <1>2, <1>3, ImportFacts DEF Importing, TakenIn
<1>7. box0' = box0 /\ sec0' = sec0 /\ UNCHANGED Ring!vars
    BY <1>1, <1>2, <1>6, GoesOn DEF Ready
<1>8. Block(p)' = Block(p)
    BY <1>1 DEF Block
<1>9. WritingKeys(p)'
    BY <1>1, <1>4, <1>5, <1>6, <1>7, <1>8 DEF WritingKeys
<1>10. Doing(p)'
    BY <1>1, <1>3, <1>4, <1>6, <1>7, <1>9 DEF Doing, Importing
<1>11. Serial'
    BY <1>1, <1>2, <1>6, <1>7, <1>10, StaysSerial DEF Ready
<1>12. QED BY <1>7, <1>11 DEF Served

\* A refused block ends the import, with the blocks before it stored.
LEMMA ImportRefusedServes ==
    ASSUME Ready, NEW p \in Proc, ImportRefused(p)
    PROVE  Served
<1>1. /\ pc[p] = "next" /\ Block(p).lock # Public
      /\ Block(p).lock \in Pass \/ Components(Block(p)) = << >>
      /\ pc' = [pc EXCEPT ![p] = "failed"]
      /\ UNCHANGED <<box, sec, cmd, got, clash>>
    BY DEF ImportRefused, Goto, disk, local, ghost
<1>2. Active(p) /\ "failed" \in Ended
    BY <1>1 DEF Active, Steps, Ended
<1>3. cmd[p] \notin KeyCommands
    BY <1>1, <1>2, OnlyActive DEF Ready, Doing, Handling
<1>4. /\ Only(p) /\ cmd[p] \in Given /\ cmd[p].op \in Ops /\ box0 \in Seq(Blob)
      /\ box = box0 /\ box0 # Torn /\ sec = SecWith(sec0, cmd[p].file, at[p] - 1)
      /\ at[p] \in DOMAIN cmd[p].file
    BY <1>1, <1>2, <1>3, ImportFacts DEF Importing, TakenIn, Ready, TypeOK
<1>5. Serial' /\ box0' = box' /\ sec0' = sec' /\ Ring!Ends(p, cmd[p], "failed")
    BY <1>1, <1>2, <1>4, IsOver DEF Ready
<1>6. \A c : Ring!Components(c) = Components(c)
    BY DEF Ring!Components, Components
<1>7. ToSet(box0) # Torn /\ ToSet(box0) = {box0[i] : i \in DOMAIN box0}
    BY <1>4, BoxNotTorn DEF ToSet
<1>8. sec0' = Ring!SecAfter(cmd[p].file, at[p] - 1)
    BY <1>1, <1>4, <1>5, RingMeans
<1>9. box0' = box0
    BY <1>1, <1>4, <1>5
<1>10. Ring!ImportRefused(p, cmd[p])
    BY <1>1, <1>4, <1>5, <1>6, <1>7, <1>8, <1>9 DEF Ring!ImportRefused, Block
<1>11. Ring!Next
    BY <1>3, <1>4, <1>10, RingImports
<1>12. QED BY <1>5, <1>11 DEF Served

\* The key file being written is torn, the others are not touched.
LEMMA CreateKeyServes ==
    ASSUME Ready, NEW p \in Proc, CreateKey(p)
    PROVE  Served
<1>1. /\ pc[p] = "create" /\ sec' = [sec EXCEPT ![Head(todo[p])] = Torn]
      /\ unlinked' = unlinked \ {p} /\ pc' = [pc EXCEPT ![p] = "fill"]
      /\ UNCHANGED <<box, cmd, mem, at, todo, pass, got, clash>>
    BY DEF CreateKey, Goto, local, ghost
<1>2. Active(p) /\ "fill" \in Steps
    BY <1>1 DEF Active, Steps
<1>3. cmd[p] \notin KeyCommands
    BY <1>1, <1>2, OnlyActive DEF Ready, Doing, Handling
<1>4. /\ Only(p) /\ cmd[p] \in Given /\ cmd[p].op \in Ops /\ box0 # Torn
      /\ box = box0 /\ WritingKeys(p)
    BY <1>1, <1>2, <1>3, ImportFacts DEF Importing
<1>5. box0' = box0 /\ sec0' = sec0 /\ UNCHANGED Ring!vars
    BY <1>1, <1>2, <1>4, GoesOn DEF Ready
<1>6. pc'[p] = "fill" /\ Block(p)' = Block(p)
    BY <1>1 DEF Ready, TypeOK, Block
<1> DEFINE h == Head(todo[p])
<1>7. h \in Grip /\ sec'[h] = Torn /\ \A g \in Grip \ {h} : sec'[g] = sec[g]
    BY <1>1, TodoTypes DEF Ready, TypeOK
<1> HIDE DEF h
<1> DEFINE before == SecWith(sec0, cmd[p].file, at[p] - 1)
           comps == ToSet(Components(Block(p)))
<1>8. SecWith(sec0, cmd[p].file, at[p] - 1)' = before /\ ToSet(Components(Block(p)))' = comps
    BY <1>1, <1>5, <1>6
<1>9. \A g \in Grip : \/ g \in comps /\ sec[g] = Block(p).lock
                      \/ (g \in ToSet(todo[p]) \/ g \notin comps) /\ sec[g] = before[g]
    BY <1>1, <1>4 DEF WritingKeys
<1>10. /\ Block(p).lock # Public /\ pass[p] = Block(p).lock /\ ToSet(todo[p]) \subseteq comps
       /\ ToSet(mem[p]) = PubWith(ToSet(box0), cmd[p].file, at[p])
    BY <1>4 DEF WritingKeys
<1> HIDE DEF before, comps
<1>11. \A g \in Grip : \/ g \in comps /\ sec'[g] = Block(p).lock
                       \/ (g \in ToSet(todo[p]) \/ g \notin comps) /\ sec'[g] = before[g]
                       \/ pc'[p] = "fill" /\ g = Head(todo[p]) /\ sec'[g] = Torn
    BY <1>6, <1>7, <1>9 DEF h
<1>12. WritingKeys(p)'
    BY <1>1, <1>5, <1>6, <1>8, <1>10, <1>11 DEF WritingKeys
<1>13. p \notin unlinked'
    BY <1>1
<1>14. Doing(p)'
    BY <1>1, <1>3, <1>4, <1>5, <1>6, <1>12, <1>13 DEF Doing, Importing
<1>15. Serial'
    BY <1>1, <1>2, <1>4, <1>5, <1>14, StaysSerial DEF Ready
<1>16. QED BY <1>5, <1>15 DEF Served

\* A key file is in place; with the last one the block is.
LEMMA FillKeyServes ==
    ASSUME Ready, NEW p \in Proc, FillKey(p)
    PROVE  Served
<1>1. /\ pc[p] = "fill" /\ todo' = [todo EXCEPT ![p] = Tail(todo[p])]
      /\ sec' = IF p \in unlinked THEN sec ELSE [sec EXCEPT ![Head(todo[p])] = pass[p]]
      /\ UNCHANGED <<box, cmd, mem, pass, got, unlinked, clash>>
    BY DEF FillKey, ghost
<1>2. Active(p) /\ "create" \in Steps
    BY <1>1 DEF Active, Steps
<1>3. cmd[p] \notin KeyCommands
    BY <1>1, <1>2, OnlyActive DEF Ready, Doing, Handling
<1>4. /\ Only(p) /\ cmd[p] \in Given /\ cmd[p].op \in Ops /\ box0 # Torn
      /\ box = box0 /\ WritingKeys(p) /\ p \notin unlinked
    BY <1>1, <1>2, <1>3, ImportFacts DEF Importing, Doing
<1> DEFINE h == Head(todo[p])
           t == Tail(todo[p])
           before == SecWith(sec0, cmd[p].file, at[p] - 1)
           comps == ToSet(Components(Block(p)))
<1>5. h \in Grip /\ ToSet(todo[p]) = {h} \union ToSet(t) /\ todo'[p] = t /\ (t = << >> => ToSet(t) = {})
    <2>1. h \in Grip /\ todo[p] \in Seq(Grip) /\ todo[p] # << >>
        BY <1>1, TodoTypes DEF Ready
    <2>2. ToSet(todo[p]) = {h} \union ToSet(t)
        BY <2>1, HeadTailFacts
    <2>3. todo'[p] = t
        BY <1>1 DEF Ready, TypeOK
    <2>4. QED BY <2>1, <2>2, <2>3, Empty
<1>6. /\ Block(p).lock # Public /\ pass[p] = Block(p).lock /\ ToSet(todo[p]) \subseteq comps
      /\ ToSet(mem[p]) = PubWith(ToSet(box0), cmd[p].file, at[p])
      /\ \A g \in Grip : \/ g \in comps /\ sec[g] = Block(p).lock
                         \/ (g \in ToSet(todo[p]) \/ g \notin comps) /\ sec[g] = before[g]
                         \/ g = h /\ sec[g] = Torn
    BY <1>4 DEF WritingKeys
<1>7. sec'[h] = pass[p] /\ \A g \in Grip \ {h} : sec'[g] = sec[g]
    BY <1>1, <1>4, <1>5 DEF Ready, TypeOK
<1>8. \A g \in Grip : \/ g \in comps /\ sec'[g] = Block(p).lock
                      \/ (g \in ToSet(t) \/ g \notin comps) /\ sec'[g] = before[g]
    <2> HIDE DEF h, t, before, comps
    <2>1. QED BY <1>5, <1>6, <1>7
<1>9. CASE t # << >>
    <2>1. at' = at /\ pc' = [pc EXCEPT ![p] = "create"]
        BY <1>9 DEF FillKey, Goto
    <2>2. box0' = box0 /\ sec0' = sec0 /\ UNCHANGED Ring!vars
        BY <1>1, <1>2, <1>4, <2>1, GoesOn DEF Ready
    <2>3. pc'[p] = "create" /\ Block(p)' = Block(p)
        BY <1>1, <2>1 DEF Ready, TypeOK, Block
    <2>4. SecWith(sec0, cmd[p].file, at[p] - 1)' = before /\ ToSet(Components(Block(p)))' = comps
        BY <1>1, <2>1, <2>2, <2>3
    <2> HIDE DEF h, t, before, comps
    <2>5. ToSet(t) \subseteq comps
        BY <1>5, <1>6
    <2>6. WritingKeys(p)'
        BY <1>1, <1>5, <1>6, <1>8, <2>1, <2>2, <2>3, <2>4, <2>5 DEF WritingKeys
    <2>7. Doing(p)'
        BY <1>1, <1>3, <1>4, <2>2, <2>3, <2>6 DEF Doing, Importing
    <2>8. Serial'
        BY <1>1, <1>2, <1>4, <2>1, <2>2, <2>7, StaysSerial DEF Ready
    <2>9. QED BY <2>2, <2>8 DEF Served
<1>10. CASE t = << >>
    <2>1. at' = [at EXCEPT ![p] = at[p] + 1] /\ pc' = [pc EXCEPT ![p] = AfterBlock(p)]
        BY <1>10 DEF FillKey, Goto
    <2> DEFINE new == SecWith(sec0, cmd[p].file, at[p])
    <2>2. \A g \in Grip : new[g] = IF g \in comps THEN Block(p).lock ELSE before[g]
        BY <1>6, BlockStored
    <2>3. new = [g \in Grip |-> new[g]] /\ sec' = [g \in Grip |-> sec'[g]]
        BY DEF SecWith, Ready, TypeOK
    <2> HIDE DEF h, t, before, comps, new
    <2>4. \A g \in Grip : sec'[g] = new[g]
        BY <1>5, <1>8, <1>10, <2>2
    <2>5. sec' = new
        BY <2>3, <2>4
    <2>6. sec' = SecWith(sec0, cmd[p].file, at[p])
        BY <2>5 DEF new
    <2>7. ToSet(mem'[p]) = PubWith(ToSet(box0), cmd[p].file, at[p])
        BY <1>1, <1>6
    <2>8. QED BY <1>1, <1>3, <2>1, <2>6, <2>7, NextBlock
<1>11. QED BY <1>9, <1>10

-----------------------------------------------------------------------------
(* Saving the keybox.                                                       *)

\* The keybox is empty for as long as the save takes.
LEMMA TruncateBoxServes ==
    ASSUME Ready, NEW p \in Proc, TruncateBox(p)
    PROVE  Served
<1>1. /\ pc[p] = "save" /\ box' = << >> /\ clash' = (clash \/ \E q \in Proc : pc[q] = "write")
      /\ pc' = [pc EXCEPT ![p] = "write"]
      /\ UNCHANGED <<sec, cmd, mem, at, todo, pass, got, unlinked>>
    BY DEF TruncateBox, Goto, local
<1>2. Active(p) /\ "write" \in Steps
    BY <1>1 DEF Active, Steps
<1>3. Only(p) /\ Doing(p)
    BY <1>2, OnlyActive DEF Ready
<1>4. clash' = clash
    <2>1. \A q \in Proc : pc[q] # "write"
        BY <1>1, <1>3 DEF Only, Active, Steps
    <2>2. clash = FALSE
        BY DEF Ready, TypeOK, Serial
    <2>3. QED BY <1>1, <2>1, <2>2
<1>5. box0' = box0 /\ sec0' = sec0 /\ UNCHANGED Ring!vars
    BY <1>1, <1>2, <1>3, GoesOn DEF Ready
<1>6. pc'[p] = "write"
    BY <1>1 DEF Ready, TypeOK
<1>7. Importing(p) => Importing(p)'
    BY <1>1, <1>5, <1>6 DEF Importing, TakenIn
<1>8. Handling(p) => Handling(p)'
    <2> SUFFICES ASSUME Handling(p) PROVE Handling(p)'
        OBVIOUS
    <2>1. PICK e : /\ Target(cmd[p], e) /\ ToSet(mem[p]) = ToSet(box0) \ {e}
                   /\ sec = IF DeletesSecret(cmd[p].op) THEN Cleared(e) ELSE sec0
        BY <1>1 DEF Handling
    <2>2. Target(cmd[p], e)' /\ Cleared(e)' = Cleared(e)
        BY <1>1, <1>5, <2>1 DEF Target, Cleared
    <2>3. DeletesPublic(cmd[p].op)
        BY <1>1 DEF Handling
    <2>4. QED BY <1>1, <1>5, <1>6, <2>1, <2>2, <2>3 DEF Handling
<1>9. Doing(p)'
    BY <1>1, <1>3, <1>5, <1>6, <1>7, <1>8 DEF Doing
<1>10. Serial'
    BY <1>1, <1>2, <1>3, <1>4, <1>5, <1>9, StaysSerial DEF Ready
<1>11. QED BY <1>5, <1>10 DEF Served

\* The save is the moment an import or a deletion of a certificate takes effect.
LEMMA WriteBoxServes ==
    ASSUME Ready, NEW p \in Proc, WriteBox(p)
    PROVE  Served
<1>1. /\ pc[p] = "write" /\ box' \in Overlay(mem[p], box) /\ pc' = [pc EXCEPT ![p] = "ok"]
      /\ UNCHANGED <<sec, cmd, mem, got, clash>>
    BY DEF WriteBox, Goto, local
<1>2. Active(p) /\ "ok" \in Ended
    BY <1>1 DEF Active, Steps, Ended
<1>3. Only(p) /\ Doing(p)
    BY <1>2, OnlyActive DEF Ready
<1>4. box' = mem[p]
    <2>1. box = << >> /\ << >> # Torn
        BY <1>1, <1>3, EmptySeq, BoxNotTorn DEF Doing
    <2>2. QED BY <1>1, <2>1 DEF Overlay
<1>5. Serial' /\ box0' = box' /\ sec0' = sec' /\ Ring!Ends(p, cmd[p], "ok")
    BY <1>1, <1>2, <1>3, IsOver DEF Ready
<1>6. box0 \in Seq(Blob) /\ box0 # Torn /\ mem[p] \in Seq(Blob) /\ cmd[p] \in Given /\ cmd[p].op \in Ops
    BY <1>3 DEF Ready, Serial, TypeOK, Doing
<1>7. /\ box0' # Torn /\ {box0'[i] : i \in DOMAIN box0'} = ToSet(mem[p])
      /\ {box0[i] : i \in DOMAIN box0} = ToSet(box0) /\ ToSet(box0) # Torn
    BY <1>4, <1>5, <1>6, BoxNotTorn DEF ToSet
<1>8. CASE cmd[p] \notin KeyCommands
    <2>1. TakenIn(p, Len(cmd[p].file)) /\ cmd[p].file \in Seq(Copy)
        BY <1>1, <1>3, <1>6, <1>8, GivenFacts DEF Doing, Importing
    <2>2. /\ ToSet(mem[p]) = Ring!PubAfter(cmd[p].file)
          /\ sec0' = Ring!SecAfter(cmd[p].file, Len(cmd[p].file))
        BY <1>1, <1>5, <1>6, <2>1, RingMeans DEF TakenIn
    <2>3. PICK c \in Given \ KeyCommands : c = cmd[p]
        BY <1>6, <1>8
    <2>4. Ring!Import(p, c) /\ c.op \in Ops
        BY <1>5, <1>6, <1>7, <2>2, <2>3 DEF Ring!Import, Ring!Ends
    <2>5. Ring!Next
        BY <2>4, RingImports
    <2>6. QED BY <1>5, <2>5 DEF Served
<1>9. CASE cmd[p] \in KeyCommands
    <2>1. PICK e : /\ Target(cmd[p], e) /\ ToSet(mem[p]) = ToSet(box0) \ {e}
                   /\ sec = IF DeletesSecret(cmd[p].op) THEN Cleared(e) ELSE sec0
        BY <1>1, <1>3, <1>9 DEF Doing, Handling
    <2>2. DeletesPublic(cmd[p].op)
        BY <1>1, <1>3, <1>9 DEF Doing, Handling
    <2>3. e \in Ring!Named(cmd[p]) /\ Ring!Without(e) = Cleared(e)
        BY <1>6, <2>1, RingMeans
    <2>4. PICK c \in KeyCommands : c = cmd[p]
        BY <1>9
    <2>5. Ring!Delete(p, c) /\ c.op \in Ops
        BY <1>1, <1>5, <1>6, <1>7, <2>1, <2>2, <2>3, <2>4, RingCommands DEF Ring!Delete, Ring!Ends
    <2>6. c.op # "unlock"
        BY <2>2, <2>4 DEF DeletesPublic
    <2>7. Ring!Next
        BY <1>6, <2>5, <2>6, RingKeyUses
    <2>8. QED BY <1>5, <2>7 DEF Served
<1>10. QED BY <1>8, <1>9

-----------------------------------------------------------------------------
(* Commands on a key.                                                       *)

\* The key command that p is in.
LEMMA HandlingFacts ==
    ASSUME Ready, NEW p \in Proc, pc[p] \in {"find", "remove", "probe", "attach"}
    PROVE  /\ Only(p) /\ Doing(p) /\ Handling(p)
           /\ cmd[p] \in KeyCommands /\ cmd[p] \in Given /\ cmd[p].op \in Ops
           /\ cmd[p].op \in Ops_all \ {"gen", "import"}
           /\ box0 \in Seq(Blob) /\ box0 # Torn /\ box = box0
           /\ mem[p] \in Seq(Blob) /\ Unique(mem[p]) /\ ToSet(mem[p]) = ToSet(box0)
           /\ DOMAIN mem[p] = 1..Len(mem[p])
<1>1. Active(p)
    BY DEF Active, Steps
<1>2. Only(p) /\ Doing(p)
    BY <1>1, OnlyActive DEF Ready
<1>3. cmd[p] \in KeyCommands
    BY <1>2 DEF Doing, Importing
<1>4. /\ Handling(p) /\ cmd[p] \in Given /\ cmd[p].op \in Ops /\ box0 # Torn /\ box = box0
      /\ ToSet(mem[p]) = ToSet(box0)
    BY <1>2, <1>3 DEF Doing, Handling
<1>5. box0 \in Seq(Blob) /\ mem[p] \in Seq(Blob) /\ Unique(mem[p])
    BY <1>4 DEF Ready, Serial, TypeOK, SavesApart, OneEntryPerKey
<1>6. cmd[p].op \in Ops_all \ {"gen", "import"}
    BY <1>3 DEF KeyCommands
<1>7. QED BY <1>2, <1>3, <1>4, <1>5, <1>6, LenProperties

\* The entries a query finds are those it names, and it finds at most one.
LEMMA FindTargets ==
    ASSUME Ready, NEW p \in Proc, pc[p] = "find"
    PROVE  /\ \A i \in DOMAIN mem[p] : i \in Matches(p) <=> Target(cmd[p], mem[p][i])
           /\ \A i, j \in Matches(p) : i = j
           /\ \A e : Target(cmd[p], e) => \E i \in DOMAIN mem[p] : e = mem[p][i]
<1>1. /\ mem[p] \in Seq(Blob) /\ Unique(mem[p]) /\ ToSet(mem[p]) = ToSet(box0) /\ sec = sec0
      /\ ToSet(mem[p]) \subseteq Blob
    BY HandlingFacts, SeqFacts DEF Handling
<1>2. \A e : e \in ToSet(box0) <=> \E i \in DOMAIN mem[p] : e = mem[p][i]
    BY <1>1 DEF ToSet
<1>3. ASSUME NEW i \in DOMAIN mem[p] PROVE i \in Matches(p) <=> Target(cmd[p], mem[p][i])
    <2> DEFINE e == mem[p][i]
    <2>1. e \in ToSet(box0) /\ e \in Blob
        BY <1>1, <1>2
    <2>2. i \in Matches(p) <=> /\ e.fpr = cmd[p].fpr /\ e.n > 0
                               /\ cmd[p].op # "delete-keys" => HasSecret(e)
        BY DEF Matches
    <2> HIDE DEF e
    <2>3. HasSecret(e) <=> \E g \in Grips(e) : sec0[g] # Absent
        BY <1>1, <2>1, GripsFacts
    <2>4. i \in Matches(p) <=> Target(cmd[p], e)
        BY <2>1, <2>2, <2>3 DEF Target
    <2>5. QED BY <2>4 DEF e
<1>4. \A i, j \in Matches(p) : i = j
    BY <1>1 DEF Matches, Unique
<1>5. \A e : Target(cmd[p], e) => \E i \in DOMAIN mem[p] : e = mem[p][i]
    BY <1>2 DEF Target
<1>6. QED BY <1>3, <1>4, <1>5

\* A query finds the one entry it names, or nothing happens.
LEMMA FindServes ==
    ASSUME Ready, NEW p \in Proc, Find(p)
    PROVE  Served
<1>1. pc[p] = "find" /\ UNCHANGED <<box, sec, cmd, at, pass, got, unlinked, clash>>
    BY DEF Find, disk, ghost
<1>2. /\ Only(p) /\ cmd[p] \in KeyCommands /\ cmd[p] \in Given /\ cmd[p].op \in Ops
      /\ cmd[p].op \in Ops_all \ {"gen", "import"}
      /\ box0 \in Seq(Blob) /\ box0 # Torn /\ box = box0 /\ sec = sec0 /\ got[p] = {}
      /\ mem[p] \in Seq(Blob) /\ Unique(mem[p]) /\ ToSet(mem[p]) = ToSet(box0)
    BY <1>1, HandlingFacts DEF Handling
<1>3. CASE \E i \in DOMAIN mem[p] : Matches(p) = {i}
    <2>1. PICK i \in DOMAIN mem[p] : Matches(p) = {i}
        BY <1>3
    <2>0. PICK e : e = mem[p][i]
        OBVIOUS
    <2>2. (CHOOSE j \in DOMAIN mem[p] : Matches(p) = {j}) = i
        BY <2>1
    <2>3. Target(cmd[p], e) /\ e \in Blob /\ e \in ToSet(mem[p])
        <3>1. i \in Matches(p)
            BY <2>1
        <3>2. Target(cmd[p], e)
            BY <1>1, <2>0, <3>1, FindTargets
        <3>3. ToSet(mem[p]) \subseteq Blob /\ e \in ToSet(mem[p])
            BY <1>2, <2>0, SeqFacts DEF ToSet
        <3>4. QED BY <3>2, <3>3
    <2>4. IF DeletesSecret(cmd[p].op) \/ cmd[p].op = "unlock"
          THEN /\ todo' = [todo EXCEPT ![p] = KeygripsFor(e)]
               /\ pc' = [pc EXCEPT ![p] = IF DeletesSecret(cmd[p].op) THEN "remove" ELSE "probe"]
               /\ UNCHANGED mem
          ELSE /\ mem' = [mem EXCEPT ![p] = DeletePublic(mem[p], cmd[p].fpr)]
               /\ pc' = [pc EXCEPT ![p] = "save"]
               /\ UNCHANGED todo
        BY <1>3, <2>0, <2>2 DEF Find, Goto
    <2>5. PICK l \in {"remove", "probe", "save"} :
             /\ pc' = [pc EXCEPT ![p] = l]
             /\ l = IF DeletesSecret(cmd[p].op) THEN "remove"
                    ELSE IF cmd[p].op = "unlock" THEN "probe" ELSE "save"
        BY <2>4
    <2>6. l \in Steps /\ pc'[p] = l
        BY <2>5 DEF Steps, Ready, TypeOK
    <2>7. box0' = box0 /\ sec0' = sec0 /\ UNCHANGED Ring!vars
        BY <1>1, <1>2, <2>5, <2>6, GoesOn DEF Ready
    <2>8. Target(cmd[p], e)'
        BY <1>1, <2>3, <2>7 DEF Target
    <2>9. l # "save" => mem'[p] = mem[p] /\ ToSet(todo'[p]) = Grips(e)
        BY <2>3, <2>4, <2>5, GripsFacts DEF Ready, TypeOK
    <2>10. l = "remove" => RemovingKeys(p, e)'
        <3> SUFFICES ASSUME l = "remove" PROVE RemovingKeys(p, e)'
            OBVIOUS
        <3>1. cmd[p].op # "delete-keys" /\ ToSet(todo'[p]) = Grips(e)
            BY <2>5, <2>9 DEF DeletesSecret
        <3>2. \E g \in Grips(e) : sec0[g] # Absent
            BY <2>3, <3>1 DEF Target
        <3>3. QED BY <1>1, <1>2, <2>7, <3>1, <3>2 DEF RemovingKeys
    <2>11. l = "save" => DeletesPublic(cmd[p].op) /\ ToSet(mem'[p]) = ToSet(box0) \ {e}
                         /\ ~DeletesSecret(cmd[p].op)
        <3> SUFFICES ASSUME l = "save" PROVE DeletesPublic(cmd[p].op) /\ ToSet(mem'[p]) = ToSet(box0) \ {e}
                                             /\ ~DeletesSecret(cmd[p].op)
            OBVIOUS
        <3>1. ~DeletesSecret(cmd[p].op) /\ cmd[p].op # "unlock"
            BY <2>5
        <3>2. mem'[p] = DeletePublic(mem[p], e.fpr)
            BY <2>3, <2>4, <3>1 DEF Target, Ready, TypeOK
        <3>3. ToSet(mem'[p]) = ToSet(box0) \ {e}
            BY <1>2, <2>3, <3>2, DeletePublicToSet
        <3>4. cmd[p].op = "delete-keys"
            BY <1>2, <3>1 DEF Ops_all, DeletesSecret
        <3>5. QED BY <3>1, <3>3, <3>4 DEF DeletesPublic
    <2>12. /\ l = "probe" => cmd[p].op = "unlock"
           /\ l = "remove" => DeletesSecret(cmd[p].op)
        BY <2>5
    <2>13. Handling(p)'
        BY <1>1, <1>2, <2>5, <2>6, <2>7, <2>8, <2>9, <2>10, <2>11, <2>12 DEF Handling
    <2>14. Doing(p)'
        BY <1>1, <1>2, <2>5, <2>6, <2>7, <2>13 DEF Doing
    <2>15. Serial'
        BY <1>1, <1>2, <2>5, <2>6, <2>7, <2>14, StaysSerial DEF Ready
    <2>16. QED BY <2>7, <2>15 DEF Served
<1>4. CASE ~\E i \in DOMAIN mem[p] : Matches(p) = {i}
    <2>1. pc' = [pc EXCEPT ![p] = "failed"]
        BY <1>4 DEF Find, Goto
    <2>2. "failed" \in Ended
        BY DEF Ended
    <2>3. Serial' /\ box0' = box' /\ sec0' = sec' /\ Ring!Ends(p, cmd[p], "failed")
        BY <1>1, <1>2, <2>1, <2>2, IsOver DEF Ready
    <2>4. \A e : ~Target(cmd[p], e)
        <3> SUFFICES ASSUME NEW e, Target(cmd[p], e) PROVE FALSE
            OBVIOUS
        <3>1. PICK i \in DOMAIN mem[p] : e = mem[p][i]
            BY <1>1, FindTargets
        <3>2. i \in Matches(p) /\ \A j \in Matches(p) : j = i
            BY <1>1, <3>1, FindTargets
        <3>3. Matches(p) = {i}
            BY <3>2
        <3>4. QED BY <1>4, <3>3
    <2>5. PICK c \in KeyCommands : c = cmd[p]
        BY <1>2
    <2>6. Ring!Named(c) = {}
        <3>1. \A e : e \notin Ring!Named(c)
            BY <1>2, <2>4, <2>5, RingMeans
        <3>2. QED BY <3>1
    <2>7. Ring!Fails(p, c) /\ c.op \in Ops
        BY <1>1, <1>2, <2>3, <2>5, <2>6, RingCommands DEF Ring!Fails, Ring!Ends
    <2>8. Ring!Next
        BY <1>2, <2>7, RingKeyUses
    <2>9. QED BY <2>3, <2>8 DEF Served
<1>5. QED BY <1>3, <1>4

\* One key file less to remove.
LEMMA RemovedOne ==
    ASSUME Ready, NEW p \in Proc, RemoveKey(p), NEW e, RemovingKeys(p, e), Target(cmd[p], e)
    PROVE  /\ ToSet(todo'[p]) \subseteq Grips(e) /\ todo'[p] = Tail(todo[p])
           /\ \A g \in Grip : \/ g \in Grips(e) /\ sec'[g] = Absent
                              \/ (g \in ToSet(todo'[p]) \/ g \notin Grips(e)) /\ sec'[g] = sec0[g]
           /\ got'[p] # {} \/ \E g \in ToSet(todo'[p]) : sec'[g] # Absent
<1> DEFINE h == Head(todo[p])
           t == Tail(todo[p])
<1>1. /\ pc[p] = "remove" /\ sec' = [sec EXCEPT ![h] = Absent]
      /\ got' = [got EXCEPT ![p] = IF sec[h] = Absent THEN @ ELSE @ \union {h}]
      /\ todo' = [todo EXCEPT ![p] = t]
    BY DEF RemoveKey
<1>2. h \in Grip /\ ToSet(todo[p]) = {h} \union ToSet(t) /\ ToSet(t) \subseteq Grip /\ todo'[p] = t
    BY <1>1, TodoTypes, HeadTailFacts, SeqFacts DEF Ready, TypeOK
<1>3. /\ sec'[h] = Absent /\ \A g \in Grip \ {h} : sec'[g] = sec[g]
      /\ got'[p] = IF sec[h] = Absent THEN got[p] ELSE got[p] \union {h}
    BY <1>1, <1>2 DEF Ready, TypeOK
<1> HIDE DEF h, t
<1>4. /\ ToSet(todo[p]) \subseteq Grips(e)
      /\ \A g \in Grip : \/ g \in Grips(e) /\ sec[g] = Absent
                         \/ (g \in ToSet(todo[p]) \/ g \notin Grips(e)) /\ sec[g] = sec0[g]
      /\ got[p] # {} \/ \E g \in ToSet(todo[p]) : sec[g] # Absent
    BY DEF RemovingKeys
<1>5. \A g \in Grip : \/ g \in Grips(e) /\ sec'[g] = Absent
                      \/ (g \in ToSet(t) \/ g \notin Grips(e)) /\ sec'[g] = sec0[g]
    BY <1>2, <1>3, <1>4
<1>6. got'[p] # {} \/ \E g \in ToSet(t) : sec'[g] # Absent
    BY <1>2, <1>3, <1>4
<1>7. QED BY <1>2, <1>4, <1>5, <1>6 DEF t

\* With the last key file a deletion is done, or the entry is still to go.
LEMMA RemoveKeyServes ==
    ASSUME Ready, NEW p \in Proc, RemoveKey(p)
    PROVE  Served
<1>1. /\ pc[p] = "remove" /\ UNCHANGED <<box, cmd, at, pass, clash>>
      /\ \A q \in Proc \ {p} : got'[q] = got[q]
    BY DEF RemoveKey, ghost, Ready, TypeOK
<1>2. /\ Only(p) /\ Doing(p) /\ cmd[p] \in KeyCommands /\ cmd[p] \in Given /\ cmd[p].op \in Ops
      /\ box0 \in Seq(Blob) /\ box0 # Torn /\ box = box0
      /\ mem[p] \in Seq(Blob) /\ Unique(mem[p]) /\ ToSet(mem[p]) = ToSet(box0)
      /\ DeletesSecret(cmd[p].op)
    BY <1>1, HandlingFacts DEF Handling
<1>3. PICK e : Target(cmd[p], e) /\ RemovingKeys(p, e)
    BY <1>1, HandlingFacts DEF Handling
<1>4. /\ ToSet(todo'[p]) \subseteq Grips(e) /\ todo'[p] = Tail(todo[p])
      /\ \A g \in Grip : \/ g \in Grips(e) /\ sec'[g] = Absent
                         \/ (g \in ToSet(todo'[p]) \/ g \notin Grips(e)) /\ sec'[g] = sec0[g]
      /\ got'[p] # {} \/ \E g \in ToSet(todo'[p]) : sec'[g] # Absent
    BY <1>3, RemovedOne
<1>5. CASE Tail(todo[p]) # << >>
    <2>1. pc' = [pc EXCEPT ![p] = "remove"] /\ mem' = mem /\ "remove" \in Steps
        BY <1>5 DEF RemoveKey, Goto, Steps
    <2>2. box0' = box0 /\ sec0' = sec0 /\ UNCHANGED Ring!vars
        BY <1>1, <1>2, <2>1, GoesOn DEF Ready
    <2>3. pc'[p] = "remove"
        BY <2>1 DEF Ready, TypeOK
    <2>4. Target(cmd[p], e)' /\ RemovingKeys(p, e)'
        BY <1>1, <1>3, <1>4, <2>2 DEF Target, RemovingKeys
    <2>5. Doing(p)'
        BY <1>1, <1>2, <2>1, <2>2, <2>3, <2>4 DEF Doing, Handling
    <2>6. Serial'
        BY <1>1, <1>2, <2>1, <2>2, <2>5, StaysSerial DEF Ready
    <2>7. QED BY <2>2, <2>6 DEF Served
<1>6. CASE Tail(todo[p]) = << >>
    <2>1. ToSet(todo'[p]) = {}
        BY <1>4, <1>6, Empty
    <2>2. sec' = Cleared(e) /\ got'[p] # {}
        <3>1. \A g \in Grip : sec'[g] = IF g \in Grips(e) THEN Absent ELSE sec0[g]
            BY <1>4, <2>1
        <3>2. sec' = [g \in Grip |-> sec'[g]]
            BY DEF Ready, TypeOK
        <3>3. sec' = Cleared(e)
            BY <3>1, <3>2 DEF Cleared
        <3>4. QED BY <1>4, <2>1, <3>3
    <2>3. CASE DeletesPublic(cmd[p].op)
        <3>1. /\ mem' = [mem EXCEPT ![p] = DeletePublic(mem[p], cmd[p].fpr)]
              /\ pc' = [pc EXCEPT ![p] = "save"] /\ "save" \in Steps
            BY <1>6, <2>3 DEF RemoveKey, Goto, Steps
        <3>2. box0' = box0 /\ sec0' = sec0 /\ UNCHANGED Ring!vars
            BY <1>1, <1>2, <3>1, GoesOn DEF Ready
        <3>3. pc'[p] = "save" /\ mem'[p] = DeletePublic(mem[p], e.fpr)
            BY <1>3, <3>1 DEF Target, Ready, TypeOK
        <3>4. e \in ToSet(mem[p])
            BY <1>2, <1>3 DEF Target
        <3>5. ToSet(mem'[p]) = ToSet(box0) \ {e}
            BY <1>2, <3>3, <3>4, DeletePublicToSet
        <3>6. Target(cmd[p], e)' /\ Cleared(e)' = Cleared(e)
            BY <1>1, <1>3, <3>2 DEF Target, Cleared
        <3>7. Doing(p)'
            BY <1>1, <1>2, <2>2, <2>3, <3>1, <3>2, <3>3, <3>5, <3>6 DEF Doing, Handling
        <3>8. Serial'
            BY <1>1, <1>2, <3>1, <3>2, <3>7, StaysSerial DEF Ready
        <3>9. QED BY <3>2, <3>8 DEF Served
    <2>4. CASE ~DeletesPublic(cmd[p].op)
        <3>1. pc' = [pc EXCEPT ![p] = "ok"] /\ "ok" \in Ended
            BY <1>6, <2>2, <2>4 DEF RemoveKey, Goto, Ended
        <3>2. Serial' /\ box0' = box' /\ sec0' = sec' /\ Ring!Ends(p, cmd[p], "ok")
            BY <1>1, <1>2, <3>1, IsOver DEF Ready
        <3>3. e \in Ring!Named(cmd[p]) /\ Ring!Without(e) = Cleared(e)
            BY <1>2, <1>3, RingMeans
        <3>4. PICK c \in KeyCommands : c = cmd[p]
            BY <1>2
        <3>5. Ring!Delete(p, c) /\ c.op \in Ops
            BY <1>1, <1>2, <2>2, <2>4, <3>2, <3>3, <3>4, RingCommands DEF Ring!Delete, Ring!Ends
        <3>6. c.op # "unlock"
            BY <1>2, <3>4 DEF DeletesSecret
        <3>7. Ring!Next
            BY <1>2, <3>5, <3>6, RingKeyUses
        <3>8. QED BY <3>2, <3>7 DEF Served
    <2>5. QED BY <2>3, <2>4
<1>7. QED BY <1>5, <1>6

-----------------------------------------------------------------------------
(* Uses of a secret key.                                                    *)

\* A use that ends as KeyRing lets it end.
LEMMA UnlockEnds ==
    ASSUME Ready, NEW p \in Proc, pc[p] \in {"probe", "attach"}, NEW l \in {"ok", "failed"},
           pc' = [pc EXCEPT ![p] = l], UNCHANGED <<box, sec, cmd, clash>>,
           \A q \in Proc \ {p} : got'[q] = got[q],
           NEW e, Target(cmd[p], e),
           l = "ok" => \E g \in Grips(e) : sec[g] \in Pass \union {NoPass},
           l = "failed" => \/ \E g \in Grips(e) : sec[g] \in Pass
                           \/ \A g \in Grips(e) : sec[g] # NoPass
    PROVE  Served
<1>1. /\ Only(p) /\ cmd[p] \in KeyCommands /\ cmd[p].op \in Ops /\ cmd[p].op = "unlock"
      /\ box0 \in Seq(Blob) /\ box0 # Torn /\ box = box0 /\ sec = sec0
    BY HandlingFacts DEF Handling
<1>2. l \in Ended
    BY DEF Ended
<1>3. Serial' /\ box0' = box' /\ sec0' = sec' /\ Ring!Ends(p, cmd[p], l)
    BY <1>1, <1>2, IsOver DEF Ready
<1>4. Grips(e) \subseteq Grip
    <2>1. e \in Blob
        BY <1>1, SeqFacts DEF Target
    <2>2. QED BY <2>1, GripsFacts
<1>5. PICK c \in KeyCommands : c = cmd[p]
    BY <1>1
<1>6. e \in Ring!Named(c) /\ Target(c, e) /\ \A g : Ring!Listed(e, g) <=> g \in Grips(e)
    BY <1>1, <1>5, RingMeans DEF Ring!Listed, Grips
<1>7. box0' = box0 /\ sec0' = sec0 /\ sec0 = sec
    BY <1>1, <1>3
<1>8. Ring!Ends(p, c, l)
    BY <1>3, <1>5 DEF Ring!Ends
<1>9. Ring!Unlock(p, c)
    <2>1. CASE l = "ok"
        <3>1. \E g \in Grip : Ring!Listed(e, g) /\ sec0[g] \in Pass \union {NoPass}
            BY <1>4, <1>6, <1>7, <2>1
        <3>2. QED BY <1>6, <1>7, <1>8, <2>1, <3>1 DEF Ring!Unlock
    <2>2. CASE l = "failed"
        <3>1. \/ \E g \in Grip : Ring!Listed(e, g) /\ sec0[g] \in Pass
              \/ \A g \in Grip : Ring!Listed(e, g) => sec0[g] # NoPass
            BY <1>4, <1>6, <1>7, <2>2
        <3>2. QED BY <1>6, <1>7, <1>8, <2>2, <3>1 DEF Ring!Unlock
    <2>3. QED BY <2>1, <2>2
<1>10. Ring!Next
    BY <1>1, <1>5, <1>9, RingKeyUses
<1>11. QED BY <1>3, <1>10 DEF Served

\* Asking for a passphrase changes nothing; not getting one is a failure KeyRing allows.
LEMMA ProbeServes ==
    ASSUME Ready, NEW p \in Proc, Probe(p)
    PROVE  Served
<1>1. pc[p] = "probe" /\ UNCHANGED <<box, sec, cmd, mem, at, todo, got, unlinked, clash>>
    BY DEF Probe, disk, ghost
<1>2. /\ Only(p) /\ cmd[p] \in KeyCommands /\ cmd[p] \in Given /\ cmd[p].op \in Ops
      /\ cmd[p].op = "unlock" /\ box0 # Torn /\ box = box0 /\ sec = sec0 /\ got[p] = {}
      /\ ToSet(mem[p]) = ToSet(box0)
    BY <1>1, HandlingFacts DEF Handling
<1>3. PICK e : Target(cmd[p], e) /\ ToSet(todo[p]) = Grips(e)
    BY <1>1, HandlingFacts DEF Handling
<1>4. CASE Protected(p) /\ pc' = [pc EXCEPT ![p] = "failed"]
    <2>1. \E g \in Grips(e) : sec[g] \in Pass
        BY <1>3, <1>4 DEF Protected, ToSet
    <2>2. QED BY <1>1, <1>3, <1>4, <2>1, UnlockEnds
<1>5. CASE pc' = [pc EXCEPT ![p] = "attach"]
    <2>1. "attach" \in Steps /\ pc'[p] = "attach"
        BY <1>5 DEF Steps, Ready, TypeOK
    <2>2. box0' = box0 /\ sec0' = sec0 /\ UNCHANGED Ring!vars
        BY <1>1, <1>2, <1>5, <2>1, GoesOn DEF Ready
    <2>3. Target(cmd[p], e)'
        BY <1>1, <1>3, <2>2 DEF Target
    <2>4. Attaching(p, e)'
        <3>1. Usable(p, e)' \subseteq Grips(e)
            BY DEF Usable
        <3>2. QED BY <1>1, <1>2, <1>3, <3>1 DEF Attaching
    <2>5. Doing(p)'
        BY <1>1, <1>2, <2>1, <2>2, <2>3, <2>4 DEF Doing, Handling
    <2>6. Serial'
        BY <1>1, <1>2, <1>5, <2>1, <2>2, <2>5, StaysSerial DEF Ready
    <2>7. QED BY <2>2, <2>6 DEF Served
<1>6. QED BY <1>4, <1>5 DEF Probe, Goto

\* One key file less to attach.
LEMMA AttachedOne ==
    ASSUME Ready, NEW p \in Proc, Attach(p), NEW e, Attaching(p, e)
    PROVE  /\ ToSet(todo'[p]) \subseteq Grips(e) /\ todo'[p] = Tail(todo[p])
           /\ Usable(p, e) \ ToSet(todo'[p]) \subseteq got'[p]
           /\ got'[p] \subseteq Usable(p, e)
           /\ Usable(p, e)' = Usable(p, e)
<1> DEFINE h == Head(todo[p])
           t == Tail(todo[p])
           usable == sec[h] = NoPass \/ (sec[h] \in Pass /\ sec[h] = pass[p])
<1>1. /\ pc[p] = "attach" /\ sec' = sec /\ pass' = pass /\ todo' = [todo EXCEPT ![p] = t]
      /\ got' = [got EXCEPT ![p] = IF usable THEN @ \union {h} ELSE @]
    BY DEF Attach, disk
<1>2. h \in Grip /\ ToSet(todo[p]) = {h} \union ToSet(t) /\ todo'[p] = t
    BY <1>1, TodoTypes, HeadTailFacts DEF Ready, TypeOK
<1>3. got'[p] = IF usable THEN got[p] \union {h} ELSE got[p]
    BY <1>1 DEF Ready, TypeOK
<1>4. usable <=> sec[h] \in {NoPass, pass[p]}
    BY DEF Ready, TypeOK
<1>5. /\ ToSet(todo[p]) \subseteq Grips(e)
      /\ Usable(p, e) \ ToSet(todo[p]) \subseteq got[p] /\ got[p] \subseteq Usable(p, e)
    BY DEF Attaching
<1>6. h \in Usable(p, e) <=> usable
    BY <1>2, <1>4, <1>5 DEF Usable
<1> HIDE DEF h, t, usable
<1>7. Usable(p, e) \ ToSet(t) \subseteq got'[p] /\ got'[p] \subseteq Usable(p, e)
    BY <1>2, <1>3, <1>5, <1>6
<1>8. Usable(p, e)' = Usable(p, e)
    BY <1>1 DEF Usable
<1>9. QED BY <1>2, <1>5, <1>7, <1>8 DEF t

\* With the last key file a use succeeds if one could be unlocked.
LEMMA AttachServes ==
    ASSUME Ready, NEW p \in Proc, Attach(p)
    PROVE  Served
<1>1. /\ pc[p] = "attach" /\ UNCHANGED <<box, sec, cmd, mem, at, pass, unlinked, clash>>
      /\ \A q \in Proc \ {p} : got'[q] = got[q]
    BY DEF Attach, disk, ghost, Ready, TypeOK
<1>2. /\ Only(p) /\ cmd[p] \in KeyCommands /\ cmd[p] \in Given /\ cmd[p].op \in Ops
      /\ cmd[p].op = "unlock" /\ box0 # Torn /\ box = box0 /\ sec = sec0
      /\ ToSet(mem[p]) = ToSet(box0)
    BY <1>1, HandlingFacts DEF Handling
<1>3. PICK e : Target(cmd[p], e) /\ Attaching(p, e)
    BY <1>1, HandlingFacts DEF Handling
<1>4. /\ ToSet(todo'[p]) \subseteq Grips(e) /\ todo'[p] = Tail(todo[p])
      /\ Usable(p, e) \ ToSet(todo'[p]) \subseteq got'[p] /\ got'[p] \subseteq Usable(p, e)
      /\ Usable(p, e)' = Usable(p, e)
    BY <1>3, AttachedOne
<1>5. CASE Tail(todo[p]) # << >>
    <2>1. pc' = [pc EXCEPT ![p] = "attach"]
        BY <1>5 DEF Attach, Goto
    <2>2. "attach" \in Steps /\ pc'[p] = "attach"
        BY <2>1 DEF Steps, Ready, TypeOK
    <2>3. box0' = box0 /\ sec0' = sec0 /\ UNCHANGED Ring!vars
        BY <1>1, <1>2, <2>1, <2>2, GoesOn DEF Ready
    <2>4. Target(cmd[p], e)' /\ Attaching(p, e)'
        BY <1>1, <1>3, <1>4, <2>3 DEF Target, Attaching
    <2>5. Doing(p)'
        BY <1>1, <1>2, <2>2, <2>3, <2>4 DEF Doing, Handling
    <2>6. Serial'
        BY <1>1, <1>2, <2>1, <2>2, <2>3, <2>5, StaysSerial DEF Ready
    <2>7. QED BY <2>3, <2>6 DEF Served
<1>6. CASE Tail(todo[p]) = << >>
    <2>1. got'[p] = Usable(p, e)
        BY <1>4, <1>6, Empty
    <2> DEFINE l == IF got'[p] = {} THEN "failed" ELSE "ok"
    <2>2. pc' = [pc EXCEPT ![p] = l]
        BY <1>6 DEF Attach, Goto
    <2>3. PICK m \in {"ok", "failed"} : m = l
        OBVIOUS
    <2>4. m = "ok" => \E g \in Grips(e) : sec[g] \in Pass \union {NoPass}
        <3>1. pass[p] \in Pass \union {NoPass}
            BY DEF Ready, TypeOK
        <3>2. QED BY <2>1, <2>3, <3>1 DEF Usable
    <2>5. m = "failed" => \A g \in Grips(e) : sec[g] # NoPass
        BY <2>1, <2>3 DEF Usable
    <2>6. QED BY <1>1, <1>3, <2>2, <2>3, <2>4, <2>5, UnlockEnds
<1>7. QED BY <1>5, <1>6

-----------------------------------------------------------------------------
(* Interrupted commands.                                                    *)

\* A key file that an import leaves behind: as it was, in place, or cut off.
Left(p, g, v) ==
    LET s == cmd[p].file
        B == Bringing(s, Len(s), g)
    IN  \/ v = sec0[g]
        \/ \E i \in B : v = s[i].lock
        \/ pc[p] = "fill" /\ g = Head(todo[p]) /\ B # {} /\ v = Torn

\* The blocks of an import store no torn file.
LEMMA BringingFacts ==
    ASSUME NEW s \in Seq(Copy), NEW k \in 0..Len(s), NEW g
    PROVE  /\ Bringing(s, k, g) \subseteq Bringing(s, Len(s), g)
           /\ \A i \in Bringing(s, k, g) : s[i].lock # Torn
<1>1. Len(s) \in Nat
    BY LenProperties
<1>2. 1..k \subseteq 1..Len(s)
    BY <1>1
<1>3. \A i \in 1..k : s[i] \in Copy
    BY <1>2, ElementOfSeq
<1>4. \A c \in Copy : c.lock # Public => c.lock # Torn
    BY SentinelAssumption DEF Copy
<1>5. QED BY <1>2, <1>3, <1>4 DEF Bringing

\* What the blocks taken in leave is what KeyRing lets an import leave.
LEMMA TakenInLeft ==
    ASSUME Ready, NEW p \in Proc, NEW g \in Grip, cmd[p].file \in Seq(Copy),
           NEW k \in 0..Len(cmd[p].file)
    PROVE  Left(p, g, SecWith(sec0, cmd[p].file, k)[g])
<1> DEFINE s == cmd[p].file
           v == SecWith(sec0, s, k)[g]
<1>1. k \in Nat
    BY LenProperties
<1>2. v = sec0[g] \/ \E i \in Bringing(s, k, g) : v = s[i].lock
    BY <1>1, SecWithRange
<1>3. Bringing(s, k, g) \subseteq Bringing(s, Len(s), g)
    BY BringingFacts
<1> HIDE DEF v
<1>4. Left(p, g, v)
    BY <1>2, <1>3 DEF Left
<1>5. QED BY <1>4 DEF v

\* At every point of an import the key files are as it may leave them.
LEMMA ImportLeaves ==
    ASSUME Ready, NEW p \in Proc, Active(p), cmd[p] \notin KeyCommands, NEW g \in Grip
    PROVE  /\ Left(p, g, sec[g])
           /\ pc[p] = "fill" /\ g = Head(todo[p]) => Left(p, g, Torn)
<1>1. /\ Importing(p) /\ cmd[p].file \in Seq(Copy) /\ Len(cmd[p].file) \in Nat
      /\ DOMAIN cmd[p].file = 1..Len(cmd[p].file)
    BY ImportFacts
<1> DEFINE s == cmd[p].file
           n == Len(s)
<1>2. CASE pc[p] \in {"save", "write"}
    <2>1. sec = SecWith(sec0, s, n)
        BY <1>1, <1>2 DEF Importing, TakenIn
    <2>2. n \in 0..n
        BY <1>1
    <2>3. QED BY <1>1, <1>2, <2>1, <2>2, TakenInLeft
<1>3. CASE pc[p] = "next"
    <2>1. sec = SecWith(sec0, s, at[p] - 1)
        BY <1>1, <1>3 DEF Importing, TakenIn
    <2>2. at[p] - 1 \in 0..n
        BY <1>1, <1>3 DEF Ready, TypeOK
    <2>3. QED BY <1>1, <1>3, <2>1, <2>2, TakenInLeft
<1>4. CASE pc[p] \in {"create", "fill"}
    <2> DEFINE b == Block(p)
               comps == ToSet(Components(b))
               before == SecWith(sec0, s, at[p] - 1)
    <2>1. /\ b.lock # Public /\ ToSet(todo[p]) \subseteq comps
          /\ \/ g \in comps /\ sec[g] = b.lock
             \/ sec[g] = before[g]
             \/ pc[p] = "fill" /\ g = Head(todo[p]) /\ sec[g] = Torn
        BY <1>1, <1>4 DEF Importing, WritingKeys
    <2>2. at[p] \in 1..n /\ at[p] - 1 \in 0..n
        BY <1>1, <1>4 DEF Ready, TypeOK
    <2>3. g \in comps => at[p] \in Bringing(s, n, g)
        BY <2>1, <2>2 DEF Bringing, Block
    <2>4. Head(todo[p]) \in ToSet(todo[p])
        BY <1>4, TodoTypes, HeadTailFacts DEF Ready
    <2>5. Left(p, g, before[g])
        BY <1>1, <2>2, TakenInLeft
    <2>6. g \in comps => Left(p, g, b.lock)
        BY <2>3 DEF Left, Block
    <2>7. pc[p] = "fill" /\ g = Head(todo[p]) => Left(p, g, Torn)
        <3>1. g = Head(todo[p]) => Bringing(s, n, g) # {}
            BY <2>1, <2>3, <2>4
        <3>2. QED BY <3>1 DEF Left
    <2> HIDE DEF b, comps, before
    <2>8. QED BY <2>1, <2>5, <2>6, <2>7
<1>5. QED BY <1>1, <1>2, <1>3, <1>4 DEF Importing

\* What a fault leaves of the disk: the keybox, if p is writing it, in part or
\* torn, and the key file that p is filling cut off, or neither touched.
Damage(p) ==
    /\ IF pc[p] = "write"
       THEN box' = Torn \/ (box' \in Seq(Blob) /\ ToSet(box') \subseteq ToSet(mem[p]))
       ELSE box' = box
    /\ sec' = sec \/ (pc[p] = "fill" /\ sec' = [sec EXCEPT ![Head(todo[p])] = Torn])

\* An import that is interrupted anywhere does no other harm than KeyRing says.
LEMMA ImportFaultServes ==
    ASSUME Ready, NEW p \in Proc, Active(p), cmd[p] \notin KeyCommands, NEW l \in {"ioerror", "killed"},
           pc' = [pc EXCEPT ![p] = l], UNCHANGED <<cmd, got, clash>>, Damage(p)
    PROVE  Served
<1>1. /\ Only(p) /\ Importing(p) /\ cmd[p] \in Given /\ cmd[p].op \in Ops
      /\ cmd[p].file \in Seq(Copy) /\ box0 \in Seq(Blob) /\ box0 # Torn
      /\ box = IF pc[p] = "write" THEN << >> ELSE box0
    BY ImportFacts
<1>2. l \in Ended
    BY DEF Ended
<1>3. Serial' /\ box0' = box' /\ sec0' = sec' /\ Ring!Ends(p, cmd[p], l)
    BY <1>1, <1>2, IsOver DEF Ready
<1>4. PICK c \in Given \ KeyCommands : c = cmd[p]
    BY <1>1
<1>5. Ring!Ends(p, c, l)
    BY <1>3, <1>4 DEF Ring!Ends
<1> DEFINE s == c.file
           n == Len(s)
<1>6. ASSUME NEW g \in Grip PROVE Left(p, g, sec'[g])
    <2>1. Left(p, g, sec[g]) /\ (pc[p] = "fill" /\ g = Head(todo[p]) => Left(p, g, Torn))
        BY ImportLeaves
    <2>2. sec'[g] = sec[g] \/ (pc[p] = "fill" /\ g = Head(todo[p]) /\ sec'[g] = Torn)
        <3>1. sec \in [Grip -> KeyFile]
            BY DEF Ready, TypeOK
        <3>2. QED BY <3>1 DEF Damage
    <2>3. QED BY <2>1, <2>2
<1>7. s \in Seq(Copy) /\ \A g \in Grip : \A i \in Bringing(s, n, g) : s[i].lock # Torn
    <2>1. s \in Seq(Copy) /\ n \in 0..n
        BY <1>1, <1>4, LenProperties
    <2>2. QED BY <2>1, BringingFacts
<1>8. \A g \in Grip : \/ sec0'[g] = sec0[g]
                      \/ \E i \in Bringing(s, n, g) : sec0'[g] = s[i].lock
                      \/ g = Head(todo[p]) /\ Bringing(s, n, g) # {} /\ sec0'[g] = Torn
    BY <1>3, <1>4, <1>6 DEF Left
<1>9. Ring!OneTorn
    <2>1. \A g \in Grip : Ring!NewlyTorn(g) => g = Head(todo[p])
        BY <1>7, <1>8 DEF Ring!NewlyTorn
    <2>2. QED BY <2>1 DEF Ring!OneTorn
<1>10. \A g \in Grip : Ring!Bringing(s, n, g) = Bringing(s, n, g)
    BY <1>1, RingMeans
<1>11. \A g \in Grip : sec0'[g] \in {sec0[g]} \union
           (IF Ring!Bringing(s, n, g) = {} THEN {}
            ELSE {s[i].lock : i \in Ring!Bringing(s, n, g)} \union {Torn})
    <2> SUFFICES ASSUME NEW g \in Grip
                 PROVE  sec0'[g] \in {sec0[g]} \union
                          (IF Ring!Bringing(s, n, g) = {} THEN {}
                           ELSE {s[i].lock : i \in Ring!Bringing(s, n, g)} \union {Torn})
        OBVIOUS
    <2> DEFINE B == Bringing(s, n, g)
    <2>1. \/ sec0'[g] = sec0[g]
          \/ \E i \in B : sec0'[g] = s[i].lock
          \/ B # {} /\ sec0'[g] = Torn
        BY <1>8
    <2>2. Ring!Bringing(s, n, g) = B
        BY <1>10
    <2> HIDE DEF B
    <2>3. sec0'[g] \in {sec0[g]} \union (IF B = {} THEN {} ELSE {s[i].lock : i \in B} \union {Torn})
        BY <2>1
    <2>4. QED BY <2>2, <2>3
<1>12. ToSet(box0) # Torn /\ ToSet(box0) = {box0[i] : i \in DOMAIN box0}
    BY <1>1, BoxNotTorn DEF ToSet
<1>13. CASE pc[p] # "write"
    <2>1. box0' = box0
        BY <1>1, <1>3, <1>13 DEF Damage
    <2>2. Ring!ImportInterrupted(p, c)
        BY <1>1, <1>9, <1>11, <1>12, <2>1 DEF Ring!ImportInterrupted
    <2>3. Ring!Interrupted(p, c)
        BY <1>4, <1>5, <2>2, RingCommands DEF Ring!Interrupted
    <2>4. c.op \in Ops
        BY <1>1, <1>4
    <2>5. Ring!Next
        BY <2>3, <2>4, RingImports
    <2>6. QED BY <1>3, <2>5 DEF Served
<1>14. CASE pc[p] = "write"
    <2>1. /\ sec = SecWith(sec0, s, n)
          /\ ToSet(mem[p]) = PubWith(ToSet(box0), s, n)
        BY <1>1, <1>4, <1>14 DEF Importing, TakenIn
    <2>2. sec0' = Ring!SecAfter(s, n) /\ ToSet(mem[p]) = Ring!PubAfter(s)
        BY <1>1, <1>3, <1>7, <1>14, <2>1, RingMeans DEF Damage
    <2>3. box0' = Torn \/ (box0' # Torn /\ {box0'[i] : i \in DOMAIN box0'} \subseteq Ring!PubAfter(s))
        BY <1>3, <1>14, <2>2, BoxNotTorn DEF Damage, ToSet
    <2>4. Ring!ImportInterrupted(p, c)
        BY <1>1, <1>9, <1>11, <1>12, <2>2, <2>3 DEF Ring!ImportInterrupted
    <2>5. Ring!Interrupted(p, c)
        BY <1>4, <1>5, <2>4, RingCommands DEF Ring!Interrupted
    <2>6. c.op \in Ops
        BY <1>1, <1>4
    <2>7. Ring!Next
        BY <2>5, <2>6, RingImports
    <2>8. QED BY <1>3, <2>7 DEF Served
<1>15. QED BY <1>13, <1>14

\* Nor does a key command.
LEMMA KeyFaultServes ==
    ASSUME Ready, NEW p \in Proc, Active(p), cmd[p] \in KeyCommands, NEW l \in {"ioerror", "killed"},
           pc' = [pc EXCEPT ![p] = l], UNCHANGED <<cmd, got, clash>>, Damage(p)
    PROVE  Served
<1>1. Only(p) /\ Doing(p)
    BY OnlyActive DEF Ready
<1>2. /\ Handling(p) /\ cmd[p].op \in Ops /\ box0 \in Seq(Blob) /\ box0 # Torn
      /\ box = IF pc[p] = "write" THEN << >> ELSE box0
    BY <1>1 DEF Doing, Ready, Serial
<1>3. l \in Ended
    BY DEF Ended
<1>4. Serial' /\ box0' = box' /\ sec0' = sec' /\ Ring!Ends(p, cmd[p], l)
    BY <1>1, <1>3, IsOver DEF Ready
<1>5. PICK c \in KeyCommands : c = cmd[p]
    OBVIOUS
<1>6. Ring!Ends(p, c, l)
    BY <1>4, <1>5 DEF Ring!Ends
<1>7. sec0' = sec /\ (pc[p] # "write" => box0' = box0)
    BY <1>2, <1>4 DEF Handling, Damage
<1>8. Ring!Interrupted(p, c)
    <2>1. CASE pc[p] \in {"find", "probe", "attach"}
        <3>1. sec0' = sec0 /\ box0' = box0
            BY <1>2, <1>7, <2>1 DEF Handling
        <3>2. QED BY <1>6, <3>1 DEF Ring!Interrupted
    <2>2. CASE pc[p] \in {"remove", "save", "write"}
        <3>1. PICK e : /\ Target(cmd[p], e)
                       /\ pc[p] = "remove" => RemovingKeys(p, e)
                       /\ pc[p] \in {"save", "write"} =>
                            /\ ToSet(mem[p]) = ToSet(box0) \ {e}
                            /\ sec = IF DeletesSecret(cmd[p].op) THEN Cleared(e) ELSE sec0
            BY <1>2, <2>2 DEF Handling
        <3>2. /\ e \in Ring!Named(c) /\ Ring!Without(e) = Cleared(e)
              /\ \A g : Ring!Listed(e, g) <=> g \in Grips(e)
            BY <1>2, <1>5, <3>1, RingMeans DEF Ring!Listed, Grips
        <3>3. ToSet(box0) # Torn /\ ToSet(box0) = {box0[i] : i \in DOMAIN box0}
            BY <1>2, BoxNotTorn DEF ToSet
        <3>4. /\ pc[p] = "remove" => DeletesSecret(c.op)
              /\ pc[p] \in {"save", "write"} => DeletesPublic(c.op)
            BY <1>2, <1>5 DEF Handling
        <3>5. c.op # "unlock"
            BY <2>2, <3>4 DEF DeletesSecret, DeletesPublic
        <3>6. \A g \in Grip : \/ sec0'[g] = sec0[g]
                              \/ DeletesSecret(c.op) /\ Ring!Listed(e, g) /\ sec0'[g] = Absent
            BY <1>5, <1>7, <2>2, <3>1, <3>2, <3>4 DEF RemovingKeys, Cleared
        <3>7. \/ box0' = box0
              \/ /\ DeletesPublic(c.op) /\ (DeletesSecret(c.op) => sec0' = Ring!Without(e))
                 /\ box0' = Torn \/ (box0' # Torn /\ {box0'[i] : i \in DOMAIN box0'} \subseteq ToSet(box0) \ {e})
            <4>1. CASE pc[p] # "write"
                BY <1>7, <4>1
            <4>2. CASE pc[p] = "write"
                <5>1. box' = Torn \/ (box' # Torn /\ {box'[i] : i \in DOMAIN box'} \subseteq ToSet(mem[p]))
                    BY <4>2, BoxNotTorn DEF Damage, ToSet
                <5>2. DeletesPublic(c.op) /\ (DeletesSecret(c.op) => sec0' = Ring!Without(e))
                    BY <1>5, <1>7, <3>1, <3>2, <3>4, <4>2
                <5>3. QED BY <1>4, <3>1, <4>2, <5>1, <5>2
            <4>3. QED BY <4>1, <4>2
        <3>8. Ring!DeleteInterrupted(p, c)
            BY <1>2, <3>2, <3>3, <3>6, <3>7, RingCommands DEF Ring!DeleteInterrupted
        <3>9. QED BY <1>2, <1>6, <3>3, <3>5, <3>8, RingCommands DEF Ring!Interrupted
    <2>3. QED BY <1>2, <2>1, <2>2 DEF Handling
<1>9. c.op \in Ops
    BY <1>2, <1>5
<1>10. Ring!Next
    BY <1>2, <1>8, <1>9, RingKeyUses
<1>11. QED BY <1>4, <1>10 DEF Served

\* Every fault interrupts a command in one of these ways.
LEMMA FaultServes ==
    ASSUME Ready, NEW p \in Proc, IOError(p) \/ BoxWriteError(p) \/ KeyWriteError(p) \/ Kill(p)
    PROVE  Served
<1>1. Active(p) /\ UNCHANGED <<cmd, got, clash>>
    BY DEF IOError, BoxWriteError, KeyWriteError, Kill, Fault, local
<1>2. \E l \in {"ioerror", "killed"} : pc' = [pc EXCEPT ![p] = l]
    BY DEF IOError, BoxWriteError, KeyWriteError, Kill, Goto
<1>3. pc[p] = "write" => box = << >> /\ mem[p] \in Seq(Blob) /\ << >> # Torn /\ << >> \in Seq(Blob)
    BY <1>1, OnlyActive, EmptySeq, BoxNotTorn DEF Ready, TypeOK, Doing
<1>4. Damage(p)
    <2>1. CASE IOError(p)
        BY <2>1 DEF IOError, disk, Damage
    <2>2. CASE KeyWriteError(p)
        BY <2>2 DEF KeyWriteError, Damage
    <2>3. CASE Kill(p)
        BY <1>3, <2>3, Empty DEF Kill, disk, Damage
    <2>4. CASE BoxWriteError(p)
        <3>1. pc[p] = "write" /\ sec' = sec
            BY <2>4 DEF BoxWriteError
        <3>2. PICK k \in 0..Len(mem[p]) : box' \in Overlay(Prefix(mem[p], k), box) \union {box, Torn}
            BY <2>4 DEF BoxWriteError
        <3>3. box' \in {Prefix(mem[p], k), << >>, Torn}
            BY <1>3, <3>1, <3>2 DEF Overlay
        <3>4. Prefix(mem[p], k) \in Seq(Blob) /\ ToSet(Prefix(mem[p], k)) \subseteq ToSet(mem[p])
            BY <1>3, <3>1, PrefixUnique, PrefixToSet
        <3>5. QED BY <1>3, <3>1, <3>3, <3>4, Empty DEF Damage
    <2>5. QED BY <2>1, <2>2, <2>3, <2>4
<1>5. QED BY <1>1, <1>2, <1>4, ImportFaultServes, KeyFaultServes

-----------------------------------------------------------------------------
(* The theorems about commands that run one after the other.                *)

SerialInv == TypeOK /\ SavesApart /\ Serial

\* Nothing happens, nothing is lost.
LEMMA SerialStutter ==
    ASSUME Serial, UNCHANGED svars
    PROVE  Serial' /\ UNCHANGED Ring!vars
<1> USE DEF svars, vars, disk, local, ghost
<1>1. (\A p \in Proc : Active(p)' = Active(p)) /\ Idle' = Idle
    BY DEF Active, Idle
<1>2. \A p, e : Target(cmd[p], e)' = Target(cmd[p], e) /\ Cleared(e)' = Cleared(e)
    BY DEF Target, Cleared
<1>3. \A p, e : RemovingKeys(p, e)' = RemovingKeys(p, e) /\ Attaching(p, e)' = Attaching(p, e)
    BY DEF RemovingKeys, Attaching, Usable
<1>4. \A p : Importing(p) => Importing(p)'
    BY DEF Importing, TakenIn, WritingKeys, Block
<1>5. \A p : Handling(p) => Handling(p)'
    BY <1>2, <1>3 DEF Handling
<1>6. \A p : Doing(p) => Doing(p)'
    BY <1>4, <1>5 DEF Doing
<1>7. Serial'
    BY <1>1, <1>6 DEF Serial
<1>8. UNCHANGED Ring!vars
    BY DEF Ring!vars
<1>9. QED BY <1>7, <1>8

\* Every step keeps the invariant and is a step of KeyRing or unseen there.
LEMMA SerialStep ==
    ASSUME ~Overlap, SerialInv, [SNext]_svars
    PROVE  SerialInv' /\ [Ring!Next]_(Ring!vars)
<1>1. [Next]_vars
    BY DEF SNext, svars
<1>2. TypeOK' /\ SavesApart'
    BY <1>1, TypeStep, SavesApartStep DEF SerialInv
<1>3. CASE UNCHANGED svars
    BY <1>2, <1>3, SerialStutter DEF SerialInv
<1>4. CASE SNext
    <2>1. Ready
        BY <1>2, <1>4 DEF SerialInv, SNext, Kept, Ready
    <2>2. ASSUME NEW p \in Proc, NEW c \in Commands, Open(p, c) PROVE Served
        BY <2>1, <2>2, OpenServes
    <2>3. ASSUME NEW p \in Proc, Continue(p) PROVE Served
        BY <2>1, <2>3, ImportPublicServes, ImportSecretServes, ImportRefusedServes, CreateKeyServes,
           FillKeyServes, TruncateBoxServes, WriteBoxServes, FindServes, RemoveKeyServes, ProbeServes,
           AttachServes DEF Continue
    <2>4. ASSUME NEW p \in Proc, IOError(p) \/ BoxWriteError(p) \/ KeyWriteError(p) \/ Kill(p)
          PROVE  Served
        BY <2>1, <2>4, FaultServes
    <2>5. ASSUME Finished PROVE Served
        <3>1. Idle /\ Idle'
            BY <2>5 DEF Finished, Idle, Active, Steps, Ended, vars
        <3>2. UNCHANGED vars
            BY <2>5 DEF Finished
        <3>3. UNCHANGED svars
            BY <2>1, <3>1, <3>2 DEF Ready, Kept, Serial, svars, vars, disk
        <3>4. Serial
            BY DEF SerialInv
        <3>5. Serial' /\ UNCHANGED Ring!vars
            BY <3>3, <3>4, SerialStutter
        <3>6. QED BY <3>5 DEF Served
    <2>6. Served
        <3>1. Next
            BY <1>4 DEF SNext
        <3>2. QED BY <2>2, <2>3, <2>4, <2>5, <3>1 DEF Next
    <2>7. QED BY <1>2, <2>6 DEF Served, SerialInv
<1>5. QED BY <1>3, <1>4

\* KeyRing starts where gpg-go starts.
LEMMA SerialInit ==
    ASSUME SInit
    PROVE  SerialInv /\ Ring!Init
<1>1. /\ Init /\ box0 = box /\ sec0 = sec
    BY DEF SInit
<1>2. TypeOK /\ SavesApart
    BY <1>1, InitTypes, InitSavesApart
<1>3. box \in InitBoxes /\ box \in Seq(Blob) /\ box # Torn
    BY <1>1, StoreAssumption, BoxNotTorn DEF Init
<1>4. \A p \in Proc : pc[p] = "start" /\ ~Active(p) /\ got[p] = {}
    BY <1>1 DEF Init, Active, Steps
<1>5. Serial
    BY <1>1, <1>2, <1>3, <1>4 DEF Serial, Idle, TypeOK, Init
<1>6. Ring!Init
    <2>1. (IF box0 = Torn THEN Torn ELSE {box0[i] : i \in DOMAIN box0}) = {box[i] : i \in DOMAIN box}
        BY <1>1, <1>3
    <2>2. {box[i] : i \in DOMAIN box} \in {Ring!EntriesOf(s) : s \in InitBoxes}
        BY <1>3 DEF Ring!EntriesOf
    <2>3. \E C \in SUBSET Cards : sec0 = [g \in Grip |-> IF g \in C THEN Stub ELSE Absent]
        BY <1>1 DEF Init
    <2>4. \A p \in Proc : pc[p] \notin Ended
        BY <1>4 DEF Ended
    <2>5. Ring!NoCmd = NoCmd
        BY DEF Ring!NoCmd, NoCmd
    <2>6. QED BY <2>1, <2>2, <2>3, <2>4, <2>5 DEF Ring!Init
<1>7. QED BY <1>2, <1>5, <1>6 DEF SerialInv

\* Commands run one at a time, with or without faults, behave as KeyRing says:
\* every step of gpg-go is one of its steps or not seen there.
THEOREM RunsKeepPromises ==
    ASSUME ~Overlap
    PROVE  SSpec => KeepsPromises
<1>1. SInit => SerialInv /\ Ring!Init
    BY SerialInit
<1>2. SerialInv /\ [SNext]_svars => SerialInv' /\ [Ring!Next]_(Ring!vars)
    BY SerialStep
<1>3. QED BY <1>1, <1>2, PTL DEF SSpec, KeepsPromises, Ring!Spec

\* The step that ends an unlocking is AttachSecret's.
LEMMA OnlyAttachEnds ==
    ASSUME TypeOK, SNext, NEW p \in Proc, pc[p] = "attach", pc'[p] \in {"ok", "failed"}
    PROVE  Attach(p)
<1>1. ~Finished
    BY DEF Finished, vars
<1>2. PICK q \in Proc : \/ \E c \in Commands : Open(q, c)
                        \/ Continue(q)
                        \/ IOError(q) \/ BoxWriteError(q) \/ KeyWriteError(q) \/ Kill(q)
    BY <1>1 DEF SNext, Next
<1>3. q = p
    <2>1. \E l : pc' = [pc EXCEPT ![q] = l]
        BY <1>2 DEF Open, Continue, ImportPublic, ImportSecret, ImportRefused, CreateKey, FillKey,
           TruncateBox, WriteBox, Find, RemoveKey, Probe, Attach, IOError, BoxWriteError,
           KeyWriteError, Kill, Goto
    <2>2. QED BY <2>1 DEF TypeOK
<1>4. ~Kill(q)
    BY <1>3 DEF Kill, Goto, TypeOK
<1>5. QED
    BY <1>2, <1>3, <1>4 DEF Open, Continue, ImportPublic, ImportSecret, ImportRefused, CreateKey,
       FillKey, TruncateBox, WriteBox, Find, RemoveKey, Probe, IOError, BoxWriteError, KeyWriteError

\* Unlocking attaches exactly the key files that can be used with the
\* passphrase given, whatever else the ring holds.
THEOREM UnlocksExactly ==
    ASSUME ~Overlap
    PROVE  SSpec => UnlockExact
<1> DEFINE Exact(p) == /\ got'[p] = {g \in Grip : /\ \E i \in 1..Used(p).n : Keys[Used(p).fpr][i] = g
                                                 /\ sec[g] \in {NoPass, pass[p]}}
                       /\ pc'[p] = "ok" <=> got'[p] # {}
           A == \A p \in Proc : pc[p] = "attach" /\ pc'[p] \in {"ok", "failed"} => Exact(p)
<1>1. SInit => SerialInv
    BY SerialInit
<1>2. SerialInv /\ [SNext]_svars => SerialInv'
    BY SerialStep
<1>3. SerialInv /\ SerialInv' /\ SNext => A
    <2> SUFFICES ASSUME SerialInv, SerialInv', SNext, NEW p \in Proc,
                        pc[p] = "attach", pc'[p] \in {"ok", "failed"}
                 PROVE  Exact(p)
        OBVIOUS
    <2>1. Attach(p) /\ Ready
        BY OnlyAttachEnds DEF SerialInv, SNext, Ready, Kept
    <2>2. PICK e : Target(cmd[p], e) /\ Attaching(p, e)
        BY <2>1, HandlingFacts DEF Handling
    <2>3. /\ mem[p] \in Seq(Blob) /\ Unique(mem[p]) /\ ToSet(mem[p]) = ToSet(box0)
        BY <2>1, HandlingFacts
    <2>4. Used(p) = e
        <3> DEFINE M == {mem[p][i] : i \in DOMAIN mem[p]}
        <3>1. e \in M /\ e.fpr = cmd[p].fpr
            BY <2>2, <2>3 DEF Target, ToSet
        <3>2. \A b \in M : b.fpr = cmd[p].fpr => b = e
            BY <2>3, <3>1 DEF Unique
        <3> HIDE DEF M
        <3>3. (CHOOSE b \in M : b.fpr = cmd[p].fpr) = e
            BY <3>1, <3>2
        <3>4. QED BY <3>3 DEF M, Used
    <2>5. pc' = [pc EXCEPT ![p] = IF Tail(todo[p]) # << >> THEN "attach"
                                  ELSE IF got'[p] = {} THEN "failed" ELSE "ok"]
        BY <2>1 DEF Attach, Goto
    <2>6. Tail(todo[p]) = << >> /\ (pc'[p] = "ok" <=> got'[p] # {})
        BY <2>5 DEF SerialInv, TypeOK
    <2>7. got'[p] = Usable(p, e)
        <3>1. /\ todo'[p] = Tail(todo[p]) /\ got'[p] \subseteq Usable(p, e)
              /\ Usable(p, e) \ ToSet(todo'[p]) \subseteq got'[p]
            BY <2>1, <2>2, AttachedOne
        <3>2. QED BY <2>6, <3>1, Empty
    <2>8. Usable(p, e) = {g \in Grip : /\ \E i \in 1..e.n : Keys[e.fpr][i] = g
                                       /\ sec[g] \in {NoPass, pass[p]}}
        <3>1. e \in Blob
            BY <2>2, <2>3, SeqFacts DEF Target
        <3>2. Grips(e) \subseteq Grip
            BY <3>1, GripsFacts
        <3>3. QED BY <3>2 DEF Usable, Grips
    <2>9. /\ got'[p] = {g \in Grip : /\ \E i \in 1..e.n : Keys[e.fpr][i] = g
                                      /\ sec[g] \in {NoPass, pass[p]}}
          /\ pc'[p] = "ok" <=> got'[p] # {}
        BY <2>6, <2>7, <2>8
    <2>10. QED BY <2>4, <2>9
<1>4. SerialInv /\ SerialInv' /\ [SNext]_svars => [A]_svars
    BY <1>3
<1> HIDE DEF A
<1>5. SSpec => [][A]_svars
    BY <1>1, <1>2, <1>4, PTL DEF SSpec
<1>6. QED BY <1>5, PTL DEF A, UnlockExact
=============================================================================
