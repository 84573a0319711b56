---------------------------- MODULE MCSignedText ----------------------------
(* Every text of up to three lines, and numbers with all kinds of ends.      *)
EXTENDS SignedText, MCSeal

MCWords == {"", "a", "b"}

Lines == {l \in [head : {"", "- "}, word : {"", "a"}, blank : BOOLEAN, cr : BOOLEAN] :
            l.head # "" => l.word # ""}
LastLines == {l \in Lines : ~l.cr}

Texts == {<<l>> : l \in LastLines} \union
         {<<k, l>> : k \in Lines, l \in LastLines} \union
         {<<k, [EmptyLine EXCEPT !.word = w, !.cr = cr], EmptyLine>> :
             k \in Lines, w \in {"", "a"}, cr \in BOOLEAN}

Ordinary == [r |-> <<129, 0, 3>>, s |-> <<1, 2>>]

Numbers == {<<0>>, <<0, 0, 7>>, <<1>>, <<127, 0>>, <<128, 0>>, <<0, 128>>, <<255, 255>>}

LockedHome ==
    [k \in Key |-> CASE k = c0 -> "absent" [] k = s1 -> "open" [] OTHER -> "locked"]
NoAgent  == [up |-> FALSE, holds |-> {}, ready |-> {}, cached |-> {}]
Holder   == [up |-> TRUE, holds |-> {s1, b0}, ready |-> {s1, b0}, cached |-> {b0}]

SigningCommands ==
    {Command(f, FALSE, TRUE, << >>, qa) : f \in {"embedded", "detached", "clearsigned"}} \union
    {Command("encrypted", TRUE, TRUE, <<Show(qa)>>, qa)}

MCInputs ==
    [cmd : SigningCommands, file : {LockedHome}, agent : {NoAgent, Holder},
     text : Texts, prefs : {<<10>>}, value : {Ordinary}] \union
    [cmd : SigningCommands, file : {LockedHome}, agent : {Holder},
     text : {<<EmptyLine>>}, prefs : {<< >>, <<10, 8>>, <<9, 2>>, <<99, 10>>, <<2, 9>>, <<12>>},
     value : [r : Numbers, s : Numbers]]
=============================================================================
