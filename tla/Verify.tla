------------------------------- MODULE Verify -------------------------------
(***************************************************************************)
(* gpg-go --verify, and --decrypt of the same input after it.  A detached  *)
(* signature may come with the name of its data, or the data is guessed    *)
(* from the signature's name; it may hold the signatures of two people.    *)
(***************************************************************************)
EXTENDS Decrypt

CONSTANTS
    Inputs,     \* [msg, also, args, named, beside, piped]: a message; who else has
                \* signed it; the number of arguments; what the file named second
                \* holds, the one the signature is named after, and standard input
    NoInput     \* no --verify went before

Content == {"data", "other"}
DataFile == Content \union {"missing"}

ASSUME VerifyAssumption ==
    /\ Inputs \subseteq [msg : Message, also : Certs \union Strangers \union {Nobody}, args : 0..2,
                         named : DataFile, beside : DataFile, piped : Content]
    /\ NoInput \notin Inputs
    /\ Homes # {} /\ \E g \in Agents : ~g.up

VARIABLES
    input,      \* what --verify is run on
    vpc,        \* what --verify does next; "idle" when --decrypt is running
    content,    \* what a detached signature is checked against
    said,       \* what --verify said, and the key it named
    checked     \* history: the signature the library checked

verifyVars == <<input, vpc, content, said, checked>>
allVars == <<vars, verifyVars>>

Verdicts == {"none", "good", "bad", "unknown", "refused"}

\* Its signatures, in order; by the data they are the signatures of.
Signers == IF input.also = Nobody THEN <<msg.signer>> ELSE <<msg.signer, input.also>>

Quiet == input = NoInput /\ vpc = "idle" /\ content = "data"
         /\ said = [verdict |-> "none", id |-> Nobody] /\ checked = 0

\* --verify reads no secret key and asks no agent: one home is as good as another.
VerifyInit ==
    /\ input \in Inputs
    /\ msg = input.msg
    /\ file = CHOOSE f \in Homes : TRUE
    /\ willing = {} /\ agent = CHOOSE g \in Agents : ~g.up
    /\ pc = "start"
    /\ queue = << >> /\ scan = << >>
    /\ left = << >> /\ opened = {} /\ loaded = {}
    /\ report = "none" /\ written = FALSE
    /\ calls = << >> /\ agentError = FALSE /\ faults = 0
    /\ vpc = "verify" /\ content = "data"
    /\ said = [verdict |-> "none", id |-> Nobody] /\ checked = 0

-----------------------------------------------------------------------------
\* deriveDataFilename: the signature's name without its suffix if there is such
\* a file, and standard input if there is not.
Derived(in) == IF in.beside = "missing" THEN in.piped ELSE in.beside

\* readSignedContent: the file named second, if there is one.
Given(in) == IF in.args = 2 THEN in.named ELSE Derived(in)

Say(verdict, id) == said' = [verdict |-> verdict, id |-> id] /\ vpc' = "told"

\* cmdVerify: with two arguments the first is taken for a detached signature,
\* with one if it is one, and on standard input never.
Arguments ==
    /\ vpc = "verify"
    /\ vpc' = IF input.args = 2 \/ (input.args = 1 /\ msg.form = "detached")
              THEN "content" ELSE "contained"
    /\ UNCHANGED <<vars, input, content, said, checked>>

ReadContent ==
    /\ vpc = "content"
    /\ IF Given(input) = "missing"
       THEN Say("refused", Nobody) /\ UNCHANGED content
       ELSE /\ content' = Given(input)
            /\ vpc' = "detached"
            /\ UNCHANGED said
    /\ UNCHANGED <<vars, input, checked>>

\* The library takes the first signature of a key it is given.
FirstKnown ==
    LET known == {i \in DOMAIN Signers : Signers[i] \in Certs}
    IN  IF known = {} THEN 0 ELSE CHOOSE i \in known : \A j \in known : i <= j

\* VerifyDetached: the key that is named is that of the first signature.
CheckDetached ==
    /\ vpc = "detached"
    /\ IF msg.form = "detached"
       THEN /\ checked' = FirstKnown
            /\ Say(IF FirstKnown # 0 /\ msg.intact /\ content = "data" THEN "good" ELSE "bad",
                   Signers[1])
       ELSE Say("bad", Nobody) /\ UNCHANGED checked
    /\ UNCHANGED <<vars, input, content>>

\* VerifyClearSigned.
CheckClear ==
    /\ vpc = "contained" /\ msg.form = "clearsigned"
    /\ checked' = FirstKnown
    /\ Say(IF FirstKnown # 0 /\ msg.intact THEN "good" ELSE "bad", Signers[1])
    /\ UNCHANGED <<vars, input, content>>

\* Mistake: the keys of the first signature only.
VerifyKeysFirst == ToSet(SubSeq(Signers, 1, 1)) \intersect Certs

\* The keys the message's signatures name, as keystore.Find has them.
VerifyKeys == ToSet(Signers) \intersect Certs

\* verifySelfContained: without secret keys, so nothing encrypted.  Which of two
\* signatures decides is the library's business.
CheckMessage ==
    /\ vpc = "contained" /\ msg.form # "clearsigned"
    /\ IF msg.form # "message" \/ msg.to # << >> \/ ~msg.legible
       THEN Say("refused", Nobody) /\ UNCHANGED checked
       ELSE IF msg.signer = Nobody THEN Say("unknown", Nobody) /\ UNCHANGED checked
       ELSE \E i \in DOMAIN Signers :
              /\ checked' = i
              /\ IF Signers[i] \notin VerifyKeys
                 THEN Say("unknown", Nobody) \/ Say("bad", Signers[1])
                 ELSE Say(IF msg.intact THEN "good" ELSE "bad", Signers[1])
    /\ UNCHANGED <<vars, input, content>>

\* Mistake: --decrypt takes the file named second for the data, too.
ThenDecryptNamed ==
    /\ vpc = "told"
    /\ vpc' = "idle"
    /\ msg' = [msg EXCEPT !.intact =
                 @ /\ (msg.form = "detached" => input.args > 0 /\ Given(input) = "data")]
    /\ UNCHANGED <<home, agent, pc, queue, scan, locals, results, ghost, input, content, said, checked>>

\* --decrypt of the same first argument, whatever is named second, or of the same
\* standard input: then the signature has used that up, and nothing is left for
\* its data.
ThenDecrypt ==
    /\ vpc = "told"
    /\ vpc' = "idle"
    /\ msg' = [msg EXCEPT !.intact = @ /\ (msg.form = "detached" =>
                                             input.args > 0 /\ Derived(input) = "data")]
    /\ UNCHANGED <<home, agent, pc, queue, scan, locals, results, ghost, input, content, said, checked>>

VerifyStep == Arguments \/ ReadContent \/ CheckDetached \/ CheckClear \/ CheckMessage \/ ThenDecrypt

ReadInit == (Init /\ Quiet) \/ VerifyInit

ReadNext ==
    \/ VerifyStep
    \/ vpc = "idle" /\ Next /\ UNCHANGED verifyVars

ReadSpec == ReadInit /\ [][ReadNext]_allVars

-----------------------------------------------------------------------------
\* The input is given the way its kind asks for.
AsMeant ==
    \/ msg.form = "detached" /\ input.args > 0 /\ Given(input) # "missing"
    \/ msg.form = "clearsigned" /\ input.args < 2
    \/ msg.form = "message" /\ msg.to = << >> /\ msg.legible /\ input.args < 2

\* What --verify says rests on a signature by a key of the keybox over the data
\* it was given: "good" for nothing else, and for every such signature on the
\* data signed.  It says "bad" of all other signatures apart from their text, those
\* of strangers among them, and of those inside a message, whose signers are
\* all known, only on other data.  The key it names is that of the first signature,
\* and of one apart from its text the key that was checked, if it is known
\* (verify.go:15-135).
VerdictSound ==
    vpc = "told" =>
        LET fits  == msg.intact /\ content = "data"
            known == ToSet(Signers) \intersect Certs
            apart == msg.form # "message"
        IN  /\ said.verdict = "good" =>
                 /\ checked # 0 /\ Signers[checked] \in Certs /\ fits
                 /\ said.id = Signers[1]
                 /\ apart /\ said.id \in Certs => Signers[checked] = said.id
            /\ AsMeant /\ apart =>
                 said.verdict = IF fits /\ known # {} THEN "good" ELSE "bad"
            /\ AsMeant /\ ~apart /\ ToSet(Signers) \subseteq Certs =>
                 said.verdict = IF fits THEN "good" ELSE "bad"

\* The two commands contradict each other on a signature that is given the way
\* its kind asks for, one calling good what the other calls bad, in one case
\* only: a known signer's detached signature with the file of its data named
\* second.  --decrypt does not look at that, and what it takes for the data
\* instead, the file the signature is named after or standard input, is what was
\* signed where the named file is not, or the other way round
\* (verify.go:15-127, decrypt.go:46-66).
VerdictsAgree ==
    pc \in Ended /\ input # NoInput /\ input.also = Nobody /\ AsMeant =>
        ({said.verdict, report} = {"good", "bad"} <=>
            /\ msg.form = "detached" /\ msg.signer \in Certs /\ input.msg.intact
            /\ input.args = 2 /\ (input.named = "data") # (Derived(input) = "data"))
=============================================================================
