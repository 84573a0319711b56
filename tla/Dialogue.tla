------------------------------ MODULE Dialogue ------------------------------
(***************************************************************************)
(* The commands that ask: --gen-key, --quick-gen-key and --symmetric, once *)
(* their options are known.  Each question reads standard input through a  *)
(* buffered reader of its own, which takes all that has arrived and gives  *)
(* out one line.  A passphrase may come from a file or an option instead,  *)
(* and a file in the way of the output is asked about.                     *)
(***************************************************************************)
EXTENDS Options

CONSTANTS
    Inputs,     \* Inputs[op]: standard inputs [tty, bursts]; a burst is lines that arrive
                \* together
    Days,       \* Days[text]: the days in an expiration, for texts that are one
    Sizes,      \* Sizes[text]: the number, for texts that are one
    Files       \* Files[name]: the passphrase in a file, where there is one

VARIABLES
    dpc,        \* the question, or what is done next
    tty,        \* is standard input a terminal?
    stdin,      \* what the user has typed and nobody read
    answers,    \* the answers so far, by their questions
    pass,       \* the passphrase
    made,       \* the key that is generated
    target,     \* the file the output goes to: "absent", "old", "new" or "replaced"
    typed,      \* history: the first lines of what has arrived together
    late        \* history: the file appeared after it was looked for

dialogueVars == <<dpc, tty, stdin, answers, pass, made, target, typed, late>>
talk  == <<stdin, answers>>
allVars == <<vars, dialogueVars>>

Over == {"generated", "written", "failed"}
Question == {"selection", "size", "expire", "name", "email", "comment", "confirm", "pass1", "pass2",
             "quickpass", "passphrase", "repeat", "overwrite"}
\* What arrives together is a line at least, and a number of days is no less
\* than none.
Texts  == UNION {UNION {UNION {ToSet(b) : b \in ToSet(in.bursts)} : in \in Inputs[op]} : op \in DOMAIN Inputs}
Bursts == Seq(Seq(Texts) \ {<< >>})

ASSUME DialogueAssumption ==
    /\ \A op \in {"symmetric", "gen-key", "quick-gen-key"} : \A in \in Inputs[op] : in.bursts \in Bursts
    /\ \A text \in DOMAIN Days : Days[text] \in Nat

NoKey == [algo |-> "none", bits |-> 0, life |-> 0, uid |-> << >>]

DialogueInit ==
    /\ Init
    /\ dpc = "idle" /\ tty = FALSE /\ stdin = << >> /\ answers = << >> /\ pass = None
    /\ made = NoKey /\ target = "absent" /\ typed = << >> /\ late = FALSE

-----------------------------------------------------------------------------
(* Conversions.                                                             *)

\* ParseExpire: the 32 bits that are left of the seconds, in units of 128 of
\* them, which a day is 675 of; 32 bits are 2 ^ 25 units.
Units == 33554432

Lifetime(text) == (675 * Days[text]) % Units

\* NormalizeAlgo, of the algorithms' names; a size of 0 is the default.
NormalizeAlgo(text) ==
    CASE text \in {"default", "ed25519"} -> <<"ed25519", 0>>
      [] text = "rsa"     -> <<"rsa", 3072>>
      [] text = "rsa2048" -> <<"rsa", 2048>>
      [] text = "rsa4096" -> <<"rsa", 4096>>
      [] OTHER            -> <<"none", 0>>

SizeOf(text) == IF text \in DOMAIN Sizes /\ Sizes[text] # 0 THEN Sizes[text] ELSE 3072

-----------------------------------------------------------------------------
(* Standard input.                                                          *)

\* The line a question is answered with: the rest of what has arrived goes with
\* its reader.
NextLine == Head(Head(stdin))

Read == stdin # << >> /\ stdin' = Tail(stdin)

AnswerTo(q) == (CHOOSE r \in ToSet(answers) : r.question = q).line
WasAsked(q) == \E r \in ToSet(answers) : r.question = q

-----------------------------------------------------------------------------
(* The commands begin.                                                      *)

Begin ==
    /\ pc = "done" /\ dpc = "idle" /\ o.op \in {"symmetric", "gen-key", "quick-gen-key"}
    /\ \E in \in Inputs[o.op] :
          /\ tty' = in.tty /\ stdin' = in.bursts
          /\ typed' = [k \in DOMAIN in.bursts |-> Head(in.bursts[k])]
    /\ target' \in {"absent", "old"}
    /\ dpc' = o.op
    /\ UNCHANGED <<vars, answers, pass, made, late>>

\* cmdGenKey: there is nothing to ask in batch mode.
GenKey ==
    /\ dpc = "gen-key"
    /\ dpc' = IF o.batch THEN "failed" ELSE "selection"
    /\ UNCHANGED <<vars, tty, talk, pass, made, target, typed, late>>

\* ResolvePassphrase: a file, then the option, then, unless in batch mode, the
\* user, with the question q.
ResolvePassphrase(q, next) ==
    \/ /\ o.passphraseFile # None
       /\ IF o.passphraseFile \in DOMAIN Files
          THEN pass' = Files[o.passphraseFile] /\ dpc' = next
          ELSE dpc' = "failed" /\ UNCHANGED pass
    \/ /\ o.passphraseFile = None /\ o.passphraseSet
       /\ pass' = o.passphrase /\ dpc' = next
    \/ /\ o.passphraseFile = None /\ ~o.passphraseSet
       /\ dpc' = (IF o.batch THEN "failed" ELSE q) /\ UNCHANGED pass

\* The optional arguments of --quick-gen-key.
ArgOr(n, default) == IF Len(o.args) >= n THEN o.args[n] ELSE default

\* cmdQuickGenKey: in batch mode the key has no passphrase.
QuickGenKey ==
    /\ dpc = "quick-gen-key"
    /\ \/ /\ Len(o.args) = 0 \/ ArgOr(4, "0") \notin DOMAIN Days
          /\ dpc' = "failed" /\ UNCHANGED pass
       \/ /\ Len(o.args) > 0 /\ ArgOr(4, "0") \in DOMAIN Days
          /\ IF o.batch /\ ~o.passphraseSet /\ o.passphraseFile = None
             THEN pass' = None /\ dpc' = "generate"
             ELSE ResolvePassphrase("quickpass", "generate")
    /\ UNCHANGED <<vars, tty, talk, made, target, typed, late>>

\* cmdSymmetric reads its input first: without an argument, all there is in a
\* pipe, or what comes before the end the user gives on a terminal.
Symmetric ==
    /\ dpc = "symmetric"
    /\ stdin' = IF o.args = << >> /\ ~tty THEN << >> ELSE stdin
    /\ ResolvePassphrase("passphrase", "output")
    /\ UNCHANGED <<vars, tty, answers, made, target, typed, late>>

-----------------------------------------------------------------------------
(* Questions and answers.                                                   *)

\* Mistake: no second passphrase is as good as the first one again.
SameOrNone(line) == line \in {pass, None}

Same(line) == line = pass

\* What comes after a question, by its answer.
After(q, line) ==
    CASE q = "selection" -> IF line = "2" THEN "size" ELSE "expire"
      [] q = "size"      -> "expire"
      [] q = "expire"    -> IF line \in DOMAIN Days THEN "name" ELSE "failed"
      [] q = "name"      -> "email"
      [] q = "email"     -> "comment"
      [] q = "comment"   -> "confirm"
      [] q = "confirm"   -> IF line = "Q" THEN "failed" ELSE "pass1"
      [] q = "pass1"     -> IF line = None THEN "generate" ELSE "pass2"
      [] q = "pass2"     -> IF Same(line) THEN "generate" ELSE "failed"
      [] q = "quickpass" -> "generate"
      [] q = "passphrase" -> "repeat"
      [] q = "repeat"    -> IF Same(line) THEN "output" ELSE "failed"
      [] q = "overwrite" -> IF line \in {"y", "yes"} THEN "write" ELSE "failed"

\* prompt, readPassphraseInteractive.
Answer ==
    /\ dpc \in Question
    /\ Read
    /\ answers' = Append(answers, [question |-> dpc, line |-> NextLine])
    /\ dpc' = After(dpc, NextLine)
    /\ pass' = IF dpc \in {"pass1", "quickpass", "passphrase"} THEN NextLine ELSE pass
    /\ UNCHANGED <<vars, tty, made, target, typed, late>>

\* The end of the input instead of an answer.
AnswerMissing ==
    /\ dpc \in Question /\ stdin = << >>
    /\ dpc' = "failed"
    /\ UNCHANGED <<vars, tty, talk, pass, made, target, typed, late>>

\* generateAndStore, up to the store.
Generate ==
    /\ dpc = "generate"
    /\ IF o.op = "gen-key"
       THEN made' = [algo |-> IF AnswerTo("selection") = "2" THEN "rsa" ELSE "ed25519",
                     bits |-> IF AnswerTo("selection") = "2" THEN SizeOf(AnswerTo("size")) ELSE 0,
                     life |-> Lifetime(AnswerTo("expire")),
                     uid  |-> <<AnswerTo("name"), AnswerTo("email"), AnswerTo("comment")>>]
       ELSE made' = [algo |-> NormalizeAlgo(ArgOr(2, "default"))[1],
                     bits |-> NormalizeAlgo(ArgOr(2, "default"))[2],
                     life |-> Lifetime(ArgOr(4, "0")), uid |-> <<o.args[1]>>]
    /\ dpc' = IF made'.algo = "none" THEN "failed" ELSE "generated"
    /\ UNCHANGED <<vars, tty, talk, pass, target, typed, late>>

-----------------------------------------------------------------------------
(* Output files.                                                            *)

ToStdout == o.output = None /\ (o.args = << >>)

\* Mistake: an existing file is asked about in batch mode, too.
LookAsks ==
    /\ dpc = "output"
    /\ dpc' = IF ToStdout THEN "written"
              ELSE IF o.yes \/ target = "absent" THEN "write" ELSE "overwrite"
    /\ UNCHANGED <<vars, tty, talk, pass, made, target, typed, late>>

\* writeOutput and confirmOverwrite: batch mode is a no.
Look ==
    /\ dpc = "output"
    /\ dpc' = IF ToStdout THEN "written"
              ELSE IF o.yes \/ target = "absent" THEN "write"
              ELSE IF o.batch THEN "failed" ELSE "overwrite"
    /\ UNCHANGED <<vars, tty, talk, pass, made, target, typed, late>>

\* Somebody else makes a file of that name.
Appear ==
    /\ dpc \in {"output", "write"} /\ target = "absent"
    /\ target' = "old" /\ late' = (dpc = "write")
    /\ UNCHANGED <<vars, dpc, tty, talk, pass, made, typed>>

Write ==
    /\ dpc = "write"
    /\ dpc' = "written" /\ target' = IF target = "absent" THEN "new" ELSE "replaced"
    /\ UNCHANGED <<vars, tty, talk, pass, made, typed, late>>

Talk ==
    \/ Begin \/ GenKey \/ QuickGenKey \/ Symmetric \/ Answer \/ AnswerMissing \/ Generate
    \/ Look \/ Appear \/ Write

Told == dpc \in Over /\ UNCHANGED allVars

DialogueNext == (dpc = "idle" /\ Next /\ UNCHANGED dialogueVars) \/ Talk \/ Told

DialogueSpec == DialogueInit /\ [][DialogueNext]_allVars

-----------------------------------------------------------------------------
\* A key that is generated is the one that was typed in, whichever questions
\* there were, under a passphrase that was typed twice.  Of lines that arrive
\* together the first is an answer and the others are nothing: each answer is
\* the first line of what arrived next, neither what the answer before left over
\* nor what belongs to the answer after.  The lifetime is the one typed if 32
\* bits of seconds hold it, and is another one if they do not
\* (genkey.go:13-87, passphrase.go:35-63, keygen.go:54-83).
TypedRSA == typed[1] = "2"
TypedAt(n) == typed[IF TypedRSA THEN n + 1 ELSE n]
Fits(days) == days < 49711

KeyAsTyped ==
    dpc = "generated" /\ o.op = "gen-key" =>
        /\ made.algo = IF TypedRSA THEN "rsa" ELSE "ed25519"
        /\ TypedRSA /\ typed[2] \in DOMAIN Sizes => Sizes[typed[2]] \in {0, made.bits}
        /\ made.life = 675 * Days[TypedAt(2)] <=> Fits(Days[TypedAt(2)])
        /\ made.uid = <<TypedAt(3), TypedAt(4), TypedAt(5)>>
        /\ TypedAt(6) # "Q" /\ pass = TypedAt(7)
        /\ pass # None => TypedAt(8) = pass

\* Nobody's file is replaced without their word, in an answer or as --yes, but
\* one that appeared after the look; nothing is asked in batch mode; and the
\* passphrase is the contents of the file named last, in gpg.conf or on the
\* command line, or, where no file is named, the passphrase named last
\* (io.go:37-71, passphrase.go:14-33).
NamedLast(k, name) == seen[k].name = name /\ \A n \in DOMAIN seen : seen[n].name = name => n <= k
FileNamed(k) == NamedLast(k, "passphrase-file") /\ seen[k].val # None

UserDecides ==
    /\ target = "replaced" =>
         o.yes \/ late \/ (WasAsked("overwrite") /\ AnswerTo("overwrite") \in {"y", "yes"})
    /\ o.batch => answers = << >>
    /\ dpc = "written" \/ (dpc = "generated" /\ o.op = "quick-gen-key") =>
         \A k \in DOMAIN seen :
             /\ FileNamed(k) => seen[k].val \in DOMAIN Files /\ pass = Files[seen[k].val]
             /\ NamedLast(k, "passphrase") =>
                    pass = seen[k].val \/ \E f \in DOMAIN seen : FileNamed(f)
=============================================================================
