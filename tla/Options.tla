------------------------------- MODULE Options -------------------------------
(***************************************************************************)
(* How gpg-go makes its options of gpg.conf and of the command line.  The  *)
(* command line is first looked through for the place of gpg.conf, then    *)
(* gpg.conf is applied, then the command line, a word or a line at a step. *)
(***************************************************************************)
EXTENDS Integers, SequencesExt

CONSTANTS
    Argvs,      \* command lines: sequences of words [lex, names, val]
    Confs,      \* what gpg.conf may say: functions from a directory, or a file
                \* of --options, to sequences of [name, val]; or to Unreadable
    Unreadable,
    Default,    \* the home directory without --homedir
    Odd,        \* the text of a word that looks like an option
    None        \* the empty string

VARIABLES
    argv,       \* the command line
    conf,       \* gpg.conf, where it exists
    pc,         \* "prescan", "config", "parse", "done" or "error"
    i,          \* the next word, or the next line of gpg.conf
    found,      \* what the first look found
    o,          \* the options so far
    seen        \* history: the options applied, as records [from, name, val]

given == <<argv, conf>>
vars  == <<argv, conf, pc, i, found, o, seen>>

-----------------------------------------------------------------------------
(* Options, by their long names: the commands, and the options that make a  *)
(* command of their own only when there is none yet.                        *)

Command == {"encrypt", "detach-sign", "symmetric", "decrypt", "list-keys", "gen-key",
            "quick-gen-key"}
Listing == {"fingerprint", "with-fingerprint", "with-keygrip"}
Arg     == {"homedir", "output", "recipient", "hidden-recipient", "local-user", "passphrase",
            "passphrase-file"}
Flag    == {"armor", "batch", "yes"}
Known   == Command \union Listing \union Arg \union Flag \union {"sign"}

IgnoredNoArg   == {"no-options", "no-tty"}
IgnoredWithArg == {"options", "trust-model"}

OpNone == [op |-> None, sign |-> FALSE, armor |-> FALSE, homedir |-> None, output |-> None,
           user |-> None, specs |-> << >>, args |-> << >>, batch |-> FALSE, yes |-> FALSE,
           passphrase |-> None, passphraseSet |-> FALSE, passphraseFile |-> None]

\* Mistake: -s is a command like the others.
ApplySignCommands(opts, name, v) ==
    CASE name \in Command    -> [opts EXCEPT !.op = name]
      [] name = "sign"       -> [opts EXCEPT !.sign = TRUE, !.op = "sign"]
      [] name \in Listing    -> [opts EXCEPT !.op = IF @ = None THEN "list-keys" ELSE @]
      [] name = "armor"      -> [opts EXCEPT !.armor = TRUE]
      [] name = "batch"      -> [opts EXCEPT !.batch = TRUE]
      [] name = "yes"        -> [opts EXCEPT !.yes = TRUE]
      [] name = "passphrase" -> [opts EXCEPT !.passphrase = v, !.passphraseSet = TRUE]
      [] name = "passphrase-file" -> [opts EXCEPT !.passphraseFile = v]
      [] name = "homedir"    -> [opts EXCEPT !.homedir = v]
      [] name = "output"     -> [opts EXCEPT !.output = v]
      [] name = "local-user" -> [opts EXCEPT !.user = v]
      [] name \in {"recipient", "hidden-recipient"} ->
            [opts EXCEPT !.specs = Append(@, [query |-> v, hidden |-> name = "hidden-recipient"])]
      [] OTHER               -> opts

Apply(opts, name, v) ==
    CASE name \in Command    -> [opts EXCEPT !.op = name]
      [] name = "sign"       -> [opts EXCEPT !.sign = TRUE, !.op = IF @ = None THEN "sign" ELSE @]
      [] name \in Listing    -> [opts EXCEPT !.op = IF @ = None THEN "list-keys" ELSE @]
      [] name = "armor"      -> [opts EXCEPT !.armor = TRUE]
      [] name = "batch"      -> [opts EXCEPT !.batch = TRUE]
      [] name = "yes"        -> [opts EXCEPT !.yes = TRUE]
      [] name = "passphrase" -> [opts EXCEPT !.passphrase = v, !.passphraseSet = TRUE]
      [] name = "passphrase-file" -> [opts EXCEPT !.passphraseFile = v]
      [] name = "homedir"    -> [opts EXCEPT !.homedir = v]
      [] name = "output"     -> [opts EXCEPT !.output = v]
      [] name = "local-user" -> [opts EXCEPT !.user = v]
      [] name \in {"recipient", "hidden-recipient"} ->
            [opts EXCEPT !.specs = Append(@, [query |-> v, hidden |-> name = "hidden-recipient"])]
      [] OTHER               -> opts

\* The options one after the other.  (A fold does this, but the prover knows
\* nothing of it.)
ApplyAll(opts, options) ==
    LET after[n \in 0 .. Len(options)] ==
            IF n = 0 THEN opts ELSE Apply(after[n - 1], options[n].name, options[n].val)
    IN  after[Len(options)]

\* A word of the command line is a "long" option, an "assigned" one (with its
\* value after =), a "short" cluster (its last option's value perhaps attached),
\* "end" (--), or "plain".  As a value it is a text.
Text(w) == IF w.lex = "plain" THEN w.val ELSE Odd

HomeOf(v) == IF v # None THEN v ELSE Default

\* What a word is, from its spelling: there is no short form of --homedir.
ASSUME OptionsAssumption ==
    /\ None \notin Known
    /\ \A a \in Argvs : a \in Seq(ToSet(a)) /\ \A w \in ToSet(a) :
          /\ w.lex \in {"long", "assigned", "short", "end", "plain"}
          /\ w.names \in Seq(STRING)
          /\ w.lex \in {"long", "assigned"} => Len(w.names) = 1
          /\ w.lex = "short" => w.names # << >> /\ "homedir" \notin ToSet(w.names)
          /\ w.lex \in {"end", "plain"} => w.names = << >>
    /\ \A c \in Confs : \A d \in DOMAIN c :
          c[d] = Unreadable \/ (c[d] \in Seq(ToSet(c[d])) /\ \A l \in ToSet(c[d]) : l.name \in STRING)

-----------------------------------------------------------------------------
Init ==
    /\ argv \in Argvs
    /\ conf \in Confs
    /\ pc = "prescan" /\ i = 1
    /\ found = [homedir |-> None, file |-> None, none |-> FALSE]
    /\ o = OpNone /\ seen = << >>

Word == argv[i]
IsOption(name) == Word.lex \in {"long", "assigned"} /\ Word.names = <<name>>

\* prescanForConfig: the next word is --homedir, --options or --no-options, or
\* none of the three.  It does not know which words are other options' values.
PrescanField(name, field) ==
    /\ IsOption(name)
    /\ \/ Word.lex = "assigned" /\ found' = [found EXCEPT ![field] = Word.val] /\ i' = i + 1
       \/ /\ Word.lex = "long" /\ i < Len(argv)
          /\ found' = [found EXCEPT ![field] = Text(argv[i + 1])] /\ i' = i + 2
       \/ Word.lex = "long" /\ i = Len(argv) /\ i' = i + 1 /\ UNCHANGED found

\* Mistake: --homedir=dir is not recognized.
PrescanWordSpaced ==
    /\ pc = "prescan" /\ i \in DOMAIN argv
    /\ \/ Word.lex = "long" /\ PrescanField("homedir", "homedir")
       \/ PrescanField("options", "file")
       \/ /\ IsOption("no-options") /\ Word.lex = "long"
          /\ found' = [found EXCEPT !.none = TRUE] /\ i' = i + 1
       \/ /\ Word.lex = "long" => Word.names[1] \notin {"homedir", "options", "no-options"}
          /\ i' = i + 1 /\ UNCHANGED found
    /\ UNCHANGED <<given, pc, o, seen>>

PrescanWord ==
    /\ pc = "prescan" /\ i \in DOMAIN argv
    /\ \/ PrescanField("homedir", "homedir")
       \/ PrescanField("options", "file")
       \/ /\ IsOption("no-options") /\ Word.lex = "long"
          /\ found' = [found EXCEPT !.none = TRUE] /\ i' = i + 1
       \/ /\ ~IsOption("homedir") /\ ~IsOption("options")
          /\ ~(IsOption("no-options") /\ Word.lex = "long")
          /\ i' = i + 1 /\ UNCHANGED found
    /\ UNCHANGED <<given, pc, o, seen>>

\* The file that is read; a file that does not exist is an empty one.
Place == IF found.file # None THEN found.file ELSE HomeOf(found.homedir)
Lines == IF Place \in DOMAIN conf THEN conf[Place] ELSE << >>

OpenConfig ==
    /\ pc = "prescan" /\ i \notin DOMAIN argv
    /\ i' = 1
    /\ pc' = IF found.none THEN "parse" ELSE IF Lines = Unreadable THEN "error" ELSE "config"
    /\ UNCHANGED <<given, found, o, seen>>

\* A line of gpg.conf: an option gpg-go has is applied, any other is skipped.
ConfigLine ==
    /\ pc = "config" /\ i \in DOMAIN Lines
    /\ LET line == Lines[i]
       IN  /\ o' = Apply(o, line.name, line.val)
           /\ seen' = IF line.name \in Known
                      THEN Append(seen, [from |-> "conf", name |-> line.name, val |-> line.val])
                      ELSE seen
    /\ i' = i + 1
    /\ UNCHANGED <<given, pc, found>>

\* Mistake: the command line is not parsed from its first word.
ConfigEndKeeps ==
    /\ pc = "config" /\ i \notin DOMAIN Lines
    /\ pc' = "parse"
    /\ UNCHANGED <<given, i, found, o, seen>>

ConfigEnd ==
    /\ pc = "config" /\ i \notin DOMAIN Lines
    /\ pc' = "parse" /\ i' = 1
    /\ UNCHANGED <<given, found, o, seen>>

-----------------------------------------------------------------------------
(* parseInto                                                                *)

\* The word's options with their values: v is that of the last one.
Options(w, v) ==
    [k \in DOMAIN w.names |->
        [from |-> "argv", name |-> w.names[k], val |-> IF k = Len(w.names) THEN v ELSE None]]

UseOptions(w, v) ==
    /\ o' = ApplyAll(o, Options(w, v))
    /\ seen' = seen \o Options(w, v)

\* Does the last option of a word take the word after it?
TakesNext(w) ==
    \/ w.lex = "long" /\ w.names[1] \in Arg \union IgnoredWithArg
    \/ w.lex = "short" /\ Last(w.names) \in Arg /\ w.val = None

Recognized(w) == \A k \in DOMAIN w.names : w.names[k] \in Known
Ignored(w)    == w.lex \in {"long", "assigned"} /\ w.names[1] \in IgnoredNoArg \union IgnoredWithArg
Parsing       == pc = "parse" /\ i \in DOMAIN argv

ParseEnd ==
    /\ Parsing /\ Word.lex = "end"
    /\ o' = [o EXCEPT !.args = @ \o [k \in 1 .. (Len(argv) - i) |-> Text(argv[i + k])]]
    /\ i' = Len(argv) + 1
    /\ UNCHANGED <<given, pc, found, seen>>

ParseArg ==
    /\ Parsing /\ Word.lex = "plain"
    /\ o' = [o EXCEPT !.args = Append(@, Word.val)]
    /\ i' = i + 1
    /\ UNCHANGED <<given, pc, found, seen>>

ParseOption ==
    /\ Parsing /\ Word.names # << >> /\ Recognized(Word) /\ ~Ignored(Word)
    /\ IF TakesNext(Word)
       THEN i < Len(argv) /\ UseOptions(Word, Text(argv[i + 1])) /\ i' = i + 2
       ELSE UseOptions(Word, Word.val) /\ i' = i + 1
    /\ UNCHANGED <<given, pc, found>>

\* Mistake: an ignored option's value is left to be an argument.
ParseIgnoredAlone ==
    /\ Parsing /\ Ignored(Word)
    /\ i' = i + 1
    /\ UNCHANGED <<given, pc, found, o, seen>>

ParseIgnored ==
    /\ Parsing /\ Ignored(Word)
    /\ i' = IF TakesNext(Word) THEN i + 2 ELSE i + 1
    /\ UNCHANGED <<given, pc, found, o, seen>>

\* An option nobody knows, or one whose value is missing.
ParseError ==
    /\ Parsing /\ Word.names # << >> /\ ~Ignored(Word)
    /\ ~Recognized(Word) \/ (TakesNext(Word) /\ i = Len(argv))
    /\ pc' = "error"
    /\ UNCHANGED <<given, i, found, o, seen>>

Parsed ==
    /\ pc = "parse" /\ i \notin DOMAIN argv
    /\ pc' = "done"
    /\ UNCHANGED <<given, i, found, o, seen>>

Stopped == pc \in {"done", "error"} /\ UNCHANGED vars

Next ==
    \/ PrescanWord \/ OpenConfig \/ ConfigLine \/ ConfigEnd
    \/ ParseEnd \/ ParseArg \/ ParseOption \/ ParseIgnored \/ ParseError \/ Parsed
    \/ Stopped

Spec == Init /\ [][Next]_vars

-----------------------------------------------------------------------------
(* Properties                                                               *)

\* The phases are gone through in their order, the index stays close to the
\* input (an ignored option may skip a value that is not there), and the
\* operation is one of the commands the dispatcher knows.
TypeOK ==
    /\ pc \in {"prescan", "config", "parse", "done", "error"}
    /\ i \in 1 .. (Len(IF pc = "config" THEN Lines ELSE argv) + 2)
    /\ pc = "prescan" => o = OpNone /\ seen = << >>
    /\ o.op \in Command \union {"sign", None}
    /\ o.op = "sign" => o.sign
    /\ o.op = None => \A k \in DOMAIN seen : seen[k].name \in Arg \union Flag

\* A definition of what the words of a command line are that does not go through
\* them in order: the value of the one before it, if that is in `takers` and none
\* of `ends` comes first.
Values(takers, ends) ==
    LET value[k \in Nat] == /\ k > 1 /\ ~value[k - 1] /\ (k - 1) \in takers
                            /\ \A j \in 1 .. (k - 1) : j \in ends => value[j]
    IN  value

Takers  == {k \in DOMAIN argv : TakesNext(argv[k])}
Ends    == {k \in DOMAIN argv : argv[k].lex = "end"}
IsValue == Values(Takers, Ends)
AfterEnd(k) == \E j \in 1 .. (k - 1) : j \in Ends /\ ~IsValue[j]

\* What the first look takes for a value, of a --homedir or --options only.
Guessed ==
    Values({k \in DOMAIN argv : argv[k].lex = "long" /\ argv[k].names \in {<<"homedir">>, <<"options">>}}, {})

\* The arguments (files and user IDs) are the plain words that are not values
\* and everything behind --, in their order: none is lost or taken twice, by an
\* option gpg-go ignores either.
ArgsKept ==
    pc = "done" =>
        LET Places == {k \in DOMAIN argv : AfterEnd(k) \/ (argv[k].lex = "plain" /\ ~IsValue[k])}
        IN  /\ Len(o.args) = Cardinality(Places)
            /\ \A k \in Places : o.args[Cardinality({j \in Places : j <= k})] = Text(argv[k])

\* -s and -e are one command, sign and encrypt, whichever comes first and
\* whether it comes from gpg.conf or the command line.
CommandsCombine ==
    LET names == {seen[k].name : k \in DOMAIN seen}
    IN  pc = "done" /\ "sign" \in names /\ names \intersect Command = {"encrypt"} =>
            o.op = "encrypt" /\ o.sign

\* The words that name a home directory, and the one they name.
Homes == {k \in DOMAIN argv : /\ argv[k].lex \in {"long", "assigned"} /\ argv[k].names = <<"homedir">>
                              /\ argv[k].lex = "long" => k < Len(argv)}
HomeAt(k) == HomeOf(IF argv[k].lex = "assigned" THEN argv[k].val ELSE Text(argv[k + 1]))
LastNames(ks, d) == IF ks = {} THEN d = Default
                    ELSE \E k \in ks : d = HomeAt(k) /\ \A j \in ks : j <= k

\* Without --options and --no-options, gpg.conf is read in the directory of the
\* last --homedir that is not itself the value of a --homedir or an --options,
\* wherever on the command line; and the keys that are used are those of the last
\* --homedir that is no option's value and not behind --, if there is one or
\* gpg.conf names none.  So the two are one directory unless another option takes
\* a --homedir for its value, or -- one for an argument (config.go:83-118,
\* parse.go:157-259).
HomeAgrees ==
    pc = "done" =>
        LET used == {k \in Homes : ~IsValue[k] /\ ~AfterEnd(k)}
        IN  /\ ~found.none /\ found.file = None =>
                 LastNames({k \in Homes : ~Guessed[k]}, Place)
            /\ used # {} \/ (\A k \in DOMAIN seen : seen[k].from = "conf" => seen[k].name # "homedir") =>
                 LastNames(used, HomeOf(o.homedir))

\* What the command line alone would do is what is done: the last value of an
\* option is the command line's, and so is the operation, unless the command line
\* only asks for one if there is none (-s and the listing options): then it is
\* gpg.conf's, of whichever kind that is, if gpg.conf has one (config.go:13-73,
\* parse.go:48-93).
CommandLineWins ==
    pc = "done" =>
        LET mine  == SelectSeq(seen, LAMBDA r : r.from = "argv")
            alone == ApplyAll(OpNone, mine)
            theirs == ApplyAll(OpNone, SelectSeq(seen, LAMBDA r : r.from = "conf"))
        IN  /\ \A f \in {"homedir", "output", "user"} : alone[f] # None => o[f] = alone[f]
            /\ o.op = IF theirs.op = None \/ \E k \in DOMAIN mine : mine[k].name \in Command
                      THEN alone.op ELSE theirs.op
=============================================================================
