----------------------------- MODULE SignedText -----------------------------
(***************************************************************************)
(* What Seal signed, and what its reader makes of it: what is hashed, what *)
(* is written around it, what may become of it on its way to --verify and  *)
(* --decrypt.                                                              *)
(*                                                                         *)
(* A text is its lines, each [head, word, blank, cr]: what it begins with  *)
(* if that is a dash and a space, the rest, whether blanks come after it,  *)
(* and whether its line feed has a carriage return before it.  The last    *)
(* line has no line feed, and is empty if the text ends with one.  Lines   *)
(* that begin with a dash and no space, or are the armor's own, are left   *)
(* out: readers differ on them.                                            *)
(***************************************************************************)
EXTENDS Seal

CONSTANTS
    Inputs,     \* signing commands with what they sign: [cmd, file, agent, text, prefs, value],
                \* where prefs are the hashes the signer's certificate prefers, and value is
                \* the r and s of the signature the key makes
    Unread,     \* in place of an input: nobody asks what was written
    Words,      \* what a line may say
    MaxChanges  \* bound on changes on the way

VARIABLES
    input,      \* what is signed and how
    tpc,        \* "sign", "mail" and "read"
    sig,        \* the signature: [type, hash, digest], digest being what was hashed
    numbers,    \* its two numbers as they are written
    declared,   \* the hash that is named in front of the text, if any is
    body,       \* the text as it is written, and carried
    changes,    \* how often it was changed on the way
    trims,      \* does the library take blanks off the ends of lines before it hashes them?
    shown,      \* what the reader prints
    good        \* what the reader thinks of the signature

textVars == <<input, tpc, sig, numbers, declared, body, changes, trims, shown, good>>
allVars  == <<vars, textVars>>

Line == [head : {"", "- "}, word : Words, blank : BOOLEAN, cr : BOOLEAN]

ASSUME TextAssumption ==
    /\ Unread \notin Inputs /\ "" \in Words
    /\ \A x \in Inputs : x.text \in Seq(Line) /\ {x.value.r, x.value.s} \subseteq Seq(0..255)

Unsigned  == [type |-> "none", hash |-> 0, digest |-> << >>]
EmptyLine == [head |-> "", word |-> "", blank |-> FALSE, cr |-> FALSE]
Undeclared == 0

-----------------------------------------------------------------------------
(* Texts.                                                                   *)

\* All line feeds with a carriage return, or none.
Endings(text, cr) ==
    [i \in DOMAIN text |-> [text[i] EXCEPT !.cr = cr /\ i < Len(text)]]

Trimmed(text) == [i \in DOMAIN text |-> [text[i] EXCEPT !.blank = FALSE]]

\* What the hash of a text signature, or of any other, is made of.
Hashed(type, text) == IF type = "text" THEN Endings(text, TRUE) ELSE text

DeCanonicalize(text) ==
    LET lf == Endings(text, FALSE)
    IN  IF Len(lf) > 1 /\ Last(lf) = EmptyLine THEN lf ELSE Append(lf, EmptyLine)

\* Readers of cleartext take a dash and a space off a line, and the blanks.
Unescaped(text) ==
    [i \in DOMAIN text |-> [text[i] EXCEPT !.head = "", !.blank = FALSE]]

-----------------------------------------------------------------------------
(* Signatures.                                                              *)

SHA256 == 8
SHA512 == 10
Known  == {1, 2, 3, 8, 9, 10, 11, 12, 14}   \* agentHashIDs
HashNames == {1, 2, 3, 8, 9, 10, 11}        \* hashName
Strong == {8, 9, 10, 11}                    \* GopenPGP's allowedHashes

PickHash(prefs) ==
    IF prefs = << >> \/ SHA256 \in ToSet(prefs) \/ prefs[1] \notin Known THEN SHA256
    ELSE prefs[1]

\* Mistake: the length is that of the bytes as they came.
MPIUnstripped(bytes) ==
    LET rest == SelectInSeq(bytes, LAMBDA b : b # 0)
    IN  <<8 * Len(bytes)>> \o (IF rest = 0 THEN << >> ELSE SubSeq(bytes, rest, Len(bytes)))

\* A number as it is written: its length in bits, then its bytes, the zeros in
\* front of them left out.
MPI(bytes) ==
    LET from == SelectInSeq(bytes, LAMBDA b : b # 0)
        bits == CHOOSE k \in 1..8 : bytes[from] \in 2^(k - 1)..(2^k - 1)
    IN  IF from = 0 THEN <<0>>
        ELSE <<8 * (Len(bytes) - from) + bits>> \o SubSeq(bytes, from, Len(bytes))

\* The two numbers that are read where these were written; nothing if there is
\* not enough to read.
ReadMPIs(written) ==
    LET Bytes(i) == (written[i] + 7) \div 8
        second   == 2 + Bytes(1)
    IN  IF second > Len(written) \/ second + Bytes(second) > Len(written) THEN << >>
        ELSE << SubSeq(written, 2, second - 1), SubSeq(written, second + 1, second + Bytes(second)) >>

Number(bytes) == FoldLeft(LAMBDA n, b : 256 * n + b, 0, bytes)

-----------------------------------------------------------------------------
TextInit ==
    /\ tpc = "sign" /\ sig = Unsigned /\ numbers = << >> /\ declared = Undeclared
    /\ body = << >> /\ changes = 0 /\ shown = << >> /\ good = FALSE
    /\ \/ input = Unread /\ trims = FALSE
       \/ /\ input \in Inputs /\ trims \in BOOLEAN
          /\ cmd = input.cmd /\ file = input.file /\ willing = Certs /\ agent = input.agent
    /\ Init

Clear      == cmd.form = "clearsigned"
ByAgent    == loaded = {}
LineEnds(text) == IF trims THEN Trimmed(text) ELSE text

\* A signature over what type makes of text.
Signs(type, hash, text) ==
    /\ pc = "ok" /\ input # Unread /\ tpc = "sign"
    /\ sig' = [type |-> type, hash |-> hash, digest |-> Hashed(type, text)]
    /\ numbers' = MPI(input.value.r) \o MPI(input.value.s)
    /\ tpc' = "mail"
    /\ UNCHANGED <<vars, input, changes, trims, shown, good>>

\* AgentSignDetached, and AgentSignEmbedded and its like for -se, which name
\* the hash in front of the text.
AgentSignData ==
    /\ ByAgent /\ ~Clear
    /\ Signs("binary", PickHash(input.prefs), input.text)
    /\ declared' = IF cmd.form = "detached" THEN Undeclared ELSE PickHash(input.prefs)
    /\ body' = input.text

\* The text is written as it came.
AgentClearSign ==
    /\ ByAgent /\ Clear
    /\ Signs("text", SHA512, LineEnds(input.text))
    /\ declared' = SHA512 /\ body' = input.text

\* With a key file the library chooses the hash.
SignData ==
    /\ ~ByAgent /\ ~Clear
    /\ \E hash \in {SHA256, SHA512} :
          /\ Signs("binary", hash, input.text)
          /\ declared' = IF cmd.form = "detached" THEN Undeclared ELSE hash
    /\ body' = input.text

\* The library's text message has line feeds with carriage returns, and is
\* what is written.
ClearSign ==
    /\ ~ByAgent /\ Clear
    /\ LET text == Endings(LineEnds(input.text), TRUE)
       IN  Signs("text", SHA512, text) /\ body' = text
    /\ declared' = SHA512

\* What may happen to a text on its way: other line ends, blanks, other words.
Carry ==
    /\ tpc = "mail" /\ cmd.form \in {"detached", "clearsigned"} /\ changes < MaxChanges
    /\ changes' = changes + 1
    /\ \/ \E cr \in BOOLEAN : body' = Endings(body, cr)
       \/ \E i \in DOMAIN body : \/ body' = [body EXCEPT ![i].blank = ~@]
                                 \/ \E w \in Words : body' = [body EXCEPT ![i].word = w]
    /\ UNCHANGED <<vars, input, tpc, sig, numbers, declared, trims, shown, good>>

\* The library: text, hashed as is announced in front of it and as the
\* signature says, with one of the hashes it allows, and the two numbers.
Checked(text) ==
    LET rs == ReadMPIs(numbers)
    IN  /\ declared \in {Undeclared, sig.hash} /\ sig.hash \in Strong
        /\ Hashed(sig.type, text) = sig.digest
        /\ rs # << >>
        /\ <<Number(rs[1]), Number(rs[2])>> = <<Number(input.value.r), Number(input.value.s)>>

\* VerifyDetached, and DecryptMessage for an embedded text.
ReadData ==
    /\ tpc = "mail" /\ ~Clear
    /\ good' = Checked(body) /\ shown' = body
    /\ tpc' = "read"
    /\ UNCHANGED <<vars, input, sig, numbers, declared, body, changes, trims>>

VerifyClearSigned ==
    /\ tpc = "mail" /\ Clear
    /\ LET text == Endings(Unescaped(body), TRUE)
       IN  good' = Checked(text) /\ shown' = DeCanonicalize(text)
    /\ tpc' = "read"
    /\ UNCHANGED <<vars, input, sig, numbers, declared, body, changes, trims>>

TextStep == AgentSignData \/ AgentClearSign \/ SignData \/ ClearSign \/ Carry
            \/ ReadData \/ VerifyClearSigned

\* hashName: the agent is not asked for a signature over a hash without a name.
Unasked == input # Unread /\ pc = "agent" /\ ~Clear /\ PickHash(input.prefs) \notin HashNames

TextNext ==
    \/ TextStep
    \/ Next /\ (Unasked => pc' # "ok") /\ UNCHANGED textVars

TextSpec == TextInit /\ [][TextNext]_allVars

-----------------------------------------------------------------------------
(* Property.                                                                *)

Says(text) == [i \in DOMAIN text |-> <<text[i].head, text[i].word>>]

Plain(text)    == \A i \in DOMAIN text : text[i].head = ""
NoBlanks(text) == \A i \in DOMAIN text : ~text[i].blank

\* Whichever way it was signed, through agentSign or by the library, a text is
\* found good exactly if it should be: a detached or embedded one if it is what
\* was signed to the byte and its hash, the certificate's choice
\* (pickHashForSigning), is not one the reader refuses, a clearsigned one whatever became of its line ends
\* and blanks, but with the same words.  Only with blanks at the ends of its
\* lines, or with a dash and a space in front of one, a clearsigned text may be
\* refused as it was signed.  And of a good clearsigned text one gets back
\* (deCanonicalizeClearsignText) the lines that were signed, with line feeds
\* and exactly one at the end more if there was none.
ReadAsSigned ==
    tpc = "read" =>
        LET text == input.text
        IN  /\ good = IF ~Clear THEN body = text /\ sig.hash \in Strong
                      ELSE Plain(text) /\ Says(body) = Says(text) /\ (trims \/ NoBlanks(text))
            /\ good /\ Clear =>
                  /\ \A i \in DOMAIN shown : ~shown[i].cr /\ ~shown[i].blank
                  /\ Says(shown) = Says(IF Len(text) > 1 /\ Last(text).word = "" THEN text
                                        ELSE Append(text, EmptyLine))
=============================================================================
