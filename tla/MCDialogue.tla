----------------------------- MODULE MCDialogue -----------------------------
(* The command lines of MCOptions, and those that ask: with and without      *)
(* --batch, --yes, a passphrase or its file, an output and an input.         *)
EXTENDS Dialogue, MCOptions

Opt(name) == Wd("long", <<name>>, None)
Opts(names) == {<< >>} \union {<<Opt(n)>> : n \in names}
Plain(texts) == [k \in DOMAIN texts |-> Wd("plain", << >>, texts[k])]

Secrecy == {<< >>, <<Wd("assigned", <<"passphrase">>, x)>>,
            <<Wd("assigned", <<"passphrase-file">>, "file")>>,
            <<Wd("assigned", <<"passphrase-file">>, "missing")>>}

MCDialogueArgvs ==
    MCArgvs \union
    {<<Opt("symmetric")>> \o b \o y \o s \o out \o in :
        b \in Opts({"batch"}), y \in Opts({"yes"}), s \in Secrecy,
        out \in {<< >>, <<Wd("assigned", <<"output">>, x)>>}, in \in {<< >>, Plain(<<x>>)}} \union
    {<<Opt("quick-gen-key")>> \o b \o s \o args :
        b \in Opts({"batch"}), s \in Secrecy,
        args \in {<< >>, Plain(<<"uid">>), Plain(<<"uid", "rsa4096">>), Plain(<<"uid", "dsa">>),
                  Plain(<<"uid", "rsa", "sign", "2y">>), Plain(<<"uid", "rsa", "sign", "soon">>)}} \union
    {<<Opt("gen-key")>> \o b : b \in Opts({"batch"})}

MCDays == None :> 0 @@ "0" :> 0 @@ "1" :> 1 @@ "2" :> 2 @@ "30d" :> 30 @@ "2y" :> 730 @@ "137y" :> 50005 @@
          "4096" :> 4096
MCSizes == "0" :> 0 @@ "1" :> 1 @@ "2" :> 2 @@ "4096" :> 4096
MCFiles == "file" :> "secret"

KeyScripts ==
    {<<"1", "2y", "N", "E", "C", "O", "pw", "pw">>, <<None, None, "N", None, None, None, None>>,
     <<"2", "4096", "137y", "N", "E", "C", "O", "pw", "pw">>, <<"2", "big", "30d", "N", "E", "C", "O", None>>,
     <<"1", "0", "N", "E", "C", "O", "pw", "other">>, <<"1", "0", "N", "E", "C", "O", "pw", None>>,
     <<"1", "0", "N", "E", "C", "Q">>, <<"1", "soon">>}

OtherScripts ==
    {<<"pw", "pw", "y">>, <<"pw", "pw", None>>, <<"pw", "other">>, <<"pw">>, <<"pw", None>>}

\* The lines cut into bursts behind the places of `cuts`.
Burst(lines, cuts) ==
    LET ends == SelectSeq([k \in DOMAIN lines |-> k], LAMBDA k : k \in cuts \union {Len(lines)})
    IN  [k \in DOMAIN ends |-> SubSeq(lines, IF k = 1 THEN 1 ELSE ends[k - 1] + 1, ends[k])]

InputsOf(scripts) ==
    {[tty |-> TRUE, bursts |-> Burst(l, DOMAIN l)] : l \in scripts} \union
    UNION {{[tty |-> FALSE, bursts |-> Burst(l, cuts)] : cuts \in SUBSET (1 .. Len(l) - 1)} : l \in scripts}

MCKeyInputs   == InputsOf(KeyScripts)
MCOtherInputs == InputsOf(OtherScripts)
MCInputs == [op \in {"gen-key", "quick-gen-key", "symmetric"} |->
                IF op = "gen-key" THEN MCKeyInputs ELSE MCOtherInputs]
=============================================================================
