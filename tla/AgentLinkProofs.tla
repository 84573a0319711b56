--------------------------- MODULE AgentLinkProofs ---------------------------
(***************************************************************************)
(* AgentLink implements AgentService, for any keys and data, any number of *)
(* operations on a connection, and an agent that goes away at any point.   *)
(***************************************************************************)
EXTENDS AgentLink, SequenceTheorems, TLAPS

-----------------------------------------------------------------------------
(* What is on the connection, for each thing the client may be doing.       *)

OK  == Say("OK")
ERR == Say("ERR")

Piece(v, i) == Line("D", <<v, i>>)

\* The operation's key is selected, its data given to the agent, once the first
\* n commands have succeeded.
Prepared(n) ==
    /\ call.op \in {"sign", "puresign", "decrypt"} /\ n >= 2 => agent.sel = call.grip
    /\ call.op \in {"sign", "puresign"} /\ n >= 4 => agent.hash = call.data

\* The command under way is the one that makes the product, and which.
Final   == call.op \notin {"open", "have"} /\ step = Len(Script(call))
Product == IF call.op = "decrypt" THEN Decrypted(call.grip, call.data)
                                  ELSE Signed(call.grip, call.data)

\* lines bring what is missing of a value's pieces, and then end.
Completes(lns, v, pieces, end) ==
    \/ pieces = << >> /\ lns = << Piece(v, 1), Piece(v, 2), end >>
    \/ pieces = << <<v, 1>> >> /\ lns = << Piece(v, 2), end >>
    \/ pieces = << <<v, 1>>, <<v, 2>> >> /\ lns = << end >>

\* The agent has been asked nothing yet.
Awaiting ==
    /\ toAgent = << Command >> /\ toClient = << >> /\ agent.asking = "nothing"
    /\ data = << >> /\ prompts = 0 /\ Prepared(step - 1)

\* What is left of the answer to the command under way.
Success ==
    IF Final
    THEN \/ data = << >> /\ toClient = << Say("S"), Piece(Product, 1), Piece(Product, 2), OK >>
         \/ Completes(toClient, Product, data, OK)
    ELSE /\ toClient = << OK >> /\ data = << >> /\ prompts = 0 /\ Prepared(step)
         /\ call.op = "have" => call.grip \in Held
Replying ==
    /\ toAgent = << >> /\ agent.asking = "nothing"
    /\ toClient = << ERR >> \/ Success

\* What the agent may ask in which command.
Inquiry(keyword) ==
    /\ data = << >> /\ Prepared(step - 1)
    /\ \/ keyword = "SOMETHING" /\ prompts = 0
       \/ keyword = "TBSDATA" /\ call.op = "puresign" /\ step = 4 /\ prompts = 0
       \/ keyword = "CIPHERTEXT" /\ call.op = "decrypt" /\ step = 4 /\ prompts = 0
       \/ keyword = "PASSPHRASE" /\ Final /\ agent.product = Product /\ agent.sel = call.grip
Asking ==
    /\ toAgent = << >> /\ toClient = << Line("INQUIRE", agent.asking) >>
    /\ Inquiry(agent.asking) /\ agent.got = << >>
    /\ agent.asking = "PASSPHRASE" => prompts = 0 /\ call.grip \in locked
Answering ==
    /\ toClient = << >> /\ Inquiry(agent.asking)
    /\ \/ toAgent = Can
       \/ /\ agent.asking \in {"TBSDATA", "CIPHERTEXT"}
          /\ Completes(toAgent, call.data, agent.got, Say("END"))
       \/ /\ agent.asking = "PASSPHRASE"
          /\ \E v \in {"right", "wrong"} : Completes(toAgent, v, agent.got, Say("END"))
    /\ agent.asking = "PASSPHRASE" => prompts = 1

\* Of an answer that was cut off only lines before its last are left.
CutOff == toAgent = << >> /\ toClient \in Seq({Say("S"), Piece(Product, 1), Piece(Product, 2)})

Quiet == toAgent = << >> /\ toClient = << >> /\ agent.asking = "nothing"

Conversation ==
    /\ mode = "dial" => link = "none" /\ call = Open /\ step = 1 /\ Quiet
    /\ mode = "greeting" =>
          /\ link # "none" /\ call = Open /\ step = 1 /\ toAgent = << >> /\ agent.asking = "nothing"
          /\ toClient \in {<< OK >>, << ERR >>} \/ (link = "cut" /\ toClient = << >>)
    /\ mode \in {"write", "idle", "closed"} /\ link = "up" => Quiet
    /\ mode \in {"write", "idle"} => link # "none" /\ toAgent = << >> /\ toClient = << >>
    /\ mode = "write" /\ link = "up" => Prepared(step - 1)
    /\ mode = "read" /\ link = "up" => Awaiting \/ Replying \/ Asking \/ Answering
    /\ mode = "read" /\ link # "up" => link = "cut" /\ (Replying \/ Asking \/ CutOff)
    /\ mode # "read" => prompts = 0

IInv ==
    /\ TypeOK
    /\ DOMAIN agent = {"sel", "hash", "asking", "got", "product"}
    /\ Conversation

-----------------------------------------------------------------------------
(* Lines and commands.                                                      *)

LEMMA Concat3 ==
    ASSUME NEW a, NEW b, NEW c
    PROVE  << a, b >> \o << c >> = << a, b, c >>
<1> DEFINE S == {a, b, c}
<1>1. << a, b >> \in Seq(S) /\ << c >> \in Seq(S) /\ << a, b, c >> \in Seq(S)
    OBVIOUS
<1> HIDE DEF S
<1>2. << a, b >> \o << c >> \in Seq(S) /\ Len(<< a, b >> \o << c >>) = 3
    BY <1>1, ConcatProperties
<1>3. \A i \in 1..3 : (<< a, b >> \o << c >>)[i] = << a, b, c >>[i]
    BY <1>1, ConcatProperties
<1>4. QED BY <1>1, <1>2, <1>3, SeqEqual

LEMMA Concat4 ==
    ASSUME NEW a, NEW b, NEW c, NEW d
    PROVE  (<< a >> \o << b, c >>) \o << d >> = << a, b, c, d >>
<1> DEFINE S == {a, b, c, d}
           t == << a >> \o << b, c >>
<1>1. /\ << a >> \in Seq(S) /\ << b, c >> \in Seq(S) /\ << d >> \in Seq(S)
      /\ << a, b, c, d >> \in Seq(S)
    OBVIOUS
<1> HIDE DEF S
<1>2. t \in Seq(S) /\ Len(t) = 3 /\ \A i \in 1..3 : t[i] = << a, b, c >>[i]
    BY <1>1, ConcatProperties
<1> DEFINE u == << d >>
<1>3. u \in Seq(S) /\ Len(u) = 1 /\ u[1] = d
    BY <1>1
<1> HIDE DEF t, u
<1>4. /\ t \o u \in Seq(S) /\ Len(t \o u) = 4
      /\ \A i \in 1..4 : (t \o u)[i] = IF i <= 3 THEN t[i] ELSE u[i - 3]
    <2>1. /\ t \o u \in Seq(S) /\ Len(t \o u) = Len(t) + Len(u)
          /\ \A i \in 1..(Len(t) + Len(u)) :
                (t \o u)[i] = IF i <= Len(t) THEN t[i] ELSE u[i - Len(t)]
        BY <1>2, <1>3, ConcatProperties, Zenon
    <2>2. QED BY <1>2, <1>3, <2>1
<1>5. \A i \in 1..4 : (t \o u)[i] = << a, b, c, d >>[i]
    BY <1>2, <1>3, <1>4
<1>6. t \o u = << a, b, c, d >>
    BY <1>1, <1>4, <1>5, SeqEqual
<1>7. QED BY <1>6 DEF t, u

\* What travels for a value, either way.
LEMMA Travels ==
    ASSUME NEW v
    PROVE  /\ Pieces(v) = << Piece(v, 1), Piece(v, 2) >>
           /\ Sent(v) = << Piece(v, 1), Piece(v, 2), Say("END") >>
           /\ << Say("S") >> \o Pieces(v) \o << OK >>
                 = << Say("S"), Piece(v, 1), Piece(v, 2), OK >>
<1>1. /\ Len(Parts(v)) = 2
      /\ [i \in 1..Len(Parts(v)) |-> Line("D", Parts(v)[i])] = << Piece(v, 1), Piece(v, 2) >>
    BY DEF Parts, Piece
<1>2. QED BY <1>1, Concat3, Concat4 DEF Pieces, Sent

\* The commands of the operations, one by one.
LEMMA CommandFacts ==
    ASSUME TypeOK, call # None
    PROVE  /\ call.op \in Op /\ call \in Calls \union {Open}
           /\ call.op = "open" <=> call = Open
           /\ call.op \notin {"open", "have"} => call.grip \in Grips /\ call.data \in Payloads
           /\ call.op = "have" => call.grip \in Grips
           /\ Len(Script(call)) \in 1..5 /\ step \in 1..Len(Script(call))
           /\ call.op \in {"open", "have"} => Len(Script(call)) = 1
           /\ call.op \in {"sign", "puresign"} => Len(Script(call)) = 5
           /\ call.op = "decrypt" => Len(Script(call)) = 4
           /\ Command.tag \in {"OPTION", "HAVEKEY", "RESET", "SIGKEY", "SETKEY", "SETKEYDESC",
                                "SETHASH", "SETHASH--inquire", "PKSIGN", "PKDECRYPT"}
           /\ Command.tag = "OPTION" => call = Open
           /\ Command.tag = "HAVEKEY" => call.op = "have" /\ Command.arg = call.grip
           /\ call.op = "have" => Command.tag = "HAVEKEY"
           /\ Command.tag = "RESET" => step = 1
           /\ Command.tag \in {"SIGKEY", "SETKEY"} =>
                 step = 2 /\ Command.arg = call.grip /\ call.grip \in Grips
           /\ call.op \notin {"open", "have"} /\ step = 2 => Command.tag \in {"SIGKEY", "SETKEY"}
           /\ Command.tag = "SETKEYDESC" => step = 3
           /\ Command.tag = "SETHASH" => call.op = "sign" /\ step = 4 /\ Command.arg = call.data
           /\ call.op = "sign" /\ step = 4 => Command.tag = "SETHASH"
           /\ Command.tag = "SETHASH--inquire" <=> call.op = "puresign" /\ step = 4
           /\ Command.tag = "PKSIGN" <=> call.op \in {"sign", "puresign"} /\ step = 5
           /\ Command.tag = "PKDECRYPT" <=> call.op = "decrypt" /\ step = 4
           /\ Final <=> Command.tag \in {"PKSIGN", "PKDECRYPT"}
<1>1. call \in Calls \union {Open} /\ step \in 1..Len(Script(call))
    BY DEF TypeOK
<1>2. CASE call = Open
    <2>1. call.op = "open" /\ Script(call) = << Say("OPTION") >>
        BY <1>2 DEF Open, Script
    <2>2. step = 1
        BY <1>1, <2>1
    <2>3. QED BY <1>1, <1>2, <2>1, <2>2 DEF Op, Command, Say, Line, Final
<1>3. CASE call.op = "have" /\ call \in Calls
    <2>1. Script(call) = << Line("HAVEKEY", call.grip) >> /\ call.grip \in Grips
        BY <1>3 DEF Script, Calls
    <2>2. step = 1 /\ call # Open
        BY <1>1, <1>3, <2>1 DEF Open
    <2>3. QED BY <1>1, <1>3, <2>1, <2>2 DEF Op, Command, Say, Line, Final
<1>4. CASE call.op \in {"sign", "puresign", "decrypt"} /\ call \in Calls
    <2>1. call.grip \in Grips /\ call.data \in Payloads /\ call # Open
        BY <1>4 DEF Calls, Open
    <2>2. CASE call.op = "sign"
        <3>1. Script(call) = << Say("RESET"), Line("SIGKEY", call.grip), Say("SETKEYDESC"),
                                Line("SETHASH", call.data), Say("PKSIGN") >>
            BY <2>2 DEF Script
        <3>2. step \in {1, 2, 3, 4, 5} /\ Len(Script(call)) = 5
            BY <1>1, <3>1
        <3>3. QED BY <1>1, <2>1, <2>2, <3>1, <3>2 DEF Op, Command, Say, Line, Final
    <2>3. CASE call.op = "puresign"
        <3>1. Script(call) = << Say("RESET"), Line("SIGKEY", call.grip), Say("SETKEYDESC"),
                                Say("SETHASH--inquire"), Say("PKSIGN") >>
            BY <2>3 DEF Script
        <3>2. step \in {1, 2, 3, 4, 5} /\ Len(Script(call)) = 5
            BY <1>1, <3>1
        <3>3. QED BY <1>1, <2>1, <2>3, <3>1, <3>2 DEF Op, Command, Say, Line, Final
    <2>4. CASE call.op = "decrypt"
        <3>1. Script(call) = << Say("RESET"), Line("SETKEY", call.grip), Say("SETKEYDESC"),
                                Say("PKDECRYPT") >>
            BY <2>4 DEF Script
        <3>2. step \in {1, 2, 3, 4} /\ Len(Script(call)) = 4
            BY <1>1, <3>1
        <3>3. QED BY <1>1, <2>1, <2>4, <3>1, <3>2 DEF Op, Command, Say, Line, Final
    <2>5. QED BY <1>4, <2>2, <2>3, <2>4
<1>5. QED BY <1>1, <1>2, <1>3, <1>4 DEF Calls

-----------------------------------------------------------------------------
(* The invariant is kept.                                                   *)

LEMMA InitInv == Init => IInv
<1> SUFFICES ASSUME Init PROVE IInv
    OBVIOUS
<1>1. Len(Script(Open)) = 1 /\ Open # None
    BY LinkAssumption DEF Script, Open
<1>2. TypeOK
    BY <1>1, LinkAssumption DEF Init, TypeOK
<1>3. Conversation
    BY DEF Init, Conversation, Quiet
<1>4. QED BY <1>2, <1>3 DEF Init, IInv

\* An operation that ends leaves nothing behind on the connection.
LEMMA EndsKeepsInv ==
    ASSUME IInv, call # None, NEW r, Ends(r),
           UNCHANGED locked, agent' = agent,
           link' \in {"none", "up", "cut"}, toAgent' = << >>, toClient' = << >>,
           link' = "none" => call.op = "open" /\ r = Failed,
           link' = "up" => agent.asking = "nothing"
    PROVE  IInv'
<1>1. /\ call' = None /\ step' = 1 /\ data' = << >> /\ prompts' = 0 /\ calls' = calls
      /\ mode' \in {"idle", "closed"} /\ (link' = "none" => mode' = "closed")
    BY DEF Ends
<1>2. TypeOK'
    BY <1>1 DEF IInv, TypeOK
<1>3. Conversation'
    BY <1>1 DEF Conversation, Quiet
<1>4. QED BY <1>2, <1>3 DEF IInv

\* What the client may find to read.
LEMMA Reading ==
    ASSUME IInv, mode = "read", toClient # << >>
    PROVE  /\ link \in {"up", "cut"} /\ toAgent = << >> /\ call # None
           /\ Replying \/ Asking \/ (link = "cut" /\ CutOff)
BY DEF IInv, TypeOK, Conversation, Awaiting, Answering, Replying, Asking, CutOff

\* Of an answer that was cut off the client can read status and data lines only.
LEMMA ReadingCutOff ==
    ASSUME CutOff, toClient # << >>
    PROVE  /\ Head(toClient).tag \in {"S", "D"}
           /\ UNCHANGED <<toAgent, call>> /\ toClient' = Tail(toClient) => CutOff'
<1> DEFINE T == {Say("S"), Piece(Product, 1), Piece(Product, 2)}
<1>1. Head(toClient) \in T /\ Tail(toClient) \in Seq(T)
    BY HeadTailProperties DEF CutOff
<1>2. Head(toClient).tag \in {"S", "D"}
    BY <1>1 DEF Piece, Say, Line
<1>3. UNCHANGED call => Product' = Product
    BY DEF Product
<1>4. ASSUME UNCHANGED <<toAgent, call>>, toClient' = Tail(toClient)
      PROVE  CutOff'
    BY <1>1, <1>3, <1>4 DEF CutOff
<1>5. QED BY <1>2, <1>4

\* An OK is read when the command has been answered in full.
LEMMA ReadsOK ==
    ASSUME IInv, ReadOK
    PROVE  /\ mode = "read" /\ link \in {"up", "cut"} /\ call # None /\ Replying /\ Success
           /\ toAgent = << >> /\ toClient = << OK >> /\ toClient' = << >>
           /\ UNCHANGED <<link, agent, locked, toAgent>>
<1>1. /\ mode = "read" /\ toClient # << >> /\ Head(toClient).tag = "OK"
      /\ toClient' = Tail(toClient) /\ UNCHANGED <<link, agent, locked, toAgent>>
    BY DEF ReadOK, Incoming
<1>2. /\ link \in {"up", "cut"} /\ toAgent = << >> /\ call # None
      /\ Replying \/ Asking \/ CutOff
    BY <1>1, Reading
<1>3. Replying
    BY <1>1, <1>2, ReadingCutOff DEF Asking, Line
<1>4. Success /\ toClient = << OK >> /\ toClient' = << >>
    BY <1>1, <1>3 DEF Replying, Success, Completes, OK, ERR, Say, Line, Piece
<1>5. QED BY <1>1, <1>2, <1>3, <1>4

LEMMA ReadOKKeepsInv == IInv /\ ReadOK => IInv'
<1> SUFFICES ASSUME IInv, ReadOK PROVE IInv'
    OBVIOUS
<1>1. /\ mode = "read" /\ link \in {"up", "cut"} /\ call # None /\ Replying /\ Success
      /\ toAgent = << >> /\ toClient' = << >> /\ UNCHANGED <<link, agent, locked, toAgent>>
    BY ReadsOK
<1>2. CASE Ends(Succeeded)
    BY <1>1, <1>2, EndsKeepsInv DEF Replying
<1>3. CASE step # Len(Script(call))
    <2>1. /\ step' = step + 1 /\ mode' = "write"
          /\ UNCHANGED <<call, data, result, prompts, calls>>
        BY <1>3 DEF ReadOK
    <2>2. prompts = 0 /\ Prepared(step)
        BY <1>1, <1>3 DEF Success, Final
    <2>3. step' \in 1..Len(Script(call)) /\ step' - 1 = step
        BY <1>1, <1>3, <2>1, CommandFacts DEF IInv
    <2>4. TypeOK'
        BY <1>1, <2>1, <2>3 DEF IInv, TypeOK
    <2>5. Prepared(step - 1)'
        BY <1>1, <2>1, <2>2, <2>3 DEF Prepared
    <2>6. Conversation'
        BY <1>1, <2>1, <2>2, <2>5 DEF Conversation, Quiet, Replying
    <2>7. QED BY <1>1, <2>4, <2>6 DEF IInv
<1>4. QED BY <1>2, <1>3 DEF ReadOK

LEMMA ReadERRKeepsInv == IInv /\ ReadERR => IInv'
<1> SUFFICES ASSUME IInv, ReadERR PROVE IInv'
    OBVIOUS
<1>1. /\ mode = "read" /\ toClient # << >> /\ Head(toClient).tag = "ERR" /\ Ends(Refused)
      /\ toClient' = Tail(toClient) /\ UNCHANGED <<link, agent, locked, toAgent>>
    BY DEF ReadERR, Incoming
<1>2. /\ link \in {"up", "cut"} /\ toAgent = << >> /\ call # None
      /\ Replying \/ Asking \/ CutOff
    BY <1>1, Reading
<1>3. ~Asking
    BY <1>1 DEF Asking, Line
<1>4. ~CutOff
    BY <1>1, ReadingCutOff
<1>5. Replying /\ toClient = << ERR >>
    BY <1>1, <1>2, <1>3, <1>4 DEF Replying, Success, Completes, OK, ERR, Say, Line, Piece
<1>6. QED BY <1>1, <1>2, <1>5, EndsKeepsInv DEF Replying

LEMMA ReadEndKeepsInv == IInv /\ ReadEnd => IInv'
<1> SUFFICES ASSUME IInv, ReadEnd PROVE IInv'
    OBVIOUS
<1>1. /\ mode \in {"greeting", "read"} /\ link = "cut" /\ toClient = << >> /\ Ends(Failed)
      /\ UNCHANGED <<link, toAgent, toClient, agent, locked>>
    BY DEF ReadEnd, lines
<1>2. call # None /\ toAgent = << >>
    BY <1>1 DEF IInv, TypeOK, Conversation, Replying, Asking, CutOff
<1>3. QED BY <1>1, <1>2, EndsKeepsInv

\* Two data lines.
LEMMA Append2 ==
    ASSUME NEW a, NEW b
    PROVE  Append(<< a >>, b) = << a, b >>
<1> DEFINE S == {a, b}
<1>1. << a >> \in Seq(S) /\ << a, b >> \in Seq(S) /\ b \in S
    OBVIOUS
<1> HIDE DEF S
<1>2. /\ Append(<< a >>, b) \in Seq(S) /\ Len(Append(<< a >>, b)) = 2
      /\ Append(<< a >>, b)[1] = a /\ Append(<< a >>, b)[2] = b
    BY <1>1, AppendProperties
<1>3. \A i \in 1..2 : Append(<< a >>, b)[i] = << a, b >>[i]
    BY <1>2
<1>4. QED BY <1>1, <1>2, <1>3, SeqEqual

\* Of the lines that bring a value, each is the next one due.
LEMMA NextPiece ==
    ASSUME NEW lns, NEW v, NEW pieces, NEW end, Completes(lns, v, pieces, end),
           Head(lns).tag = "D", end.tag # "D"
    PROVE  Completes(Tail(lns), v, Append(pieces, Head(lns).arg), end)
<1>1. CASE pieces = << >> /\ lns = << Piece(v, 1), Piece(v, 2), end >>
    <2>1. /\ Tail(lns) = << Piece(v, 2), end >> /\ Head(lns).arg = <<v, 1>>
          /\ Append(pieces, <<v, 1>>) = << <<v, 1>> >>
        BY <1>1 DEF Piece, Line
    <2>2. QED BY <2>1 DEF Completes
<1>2. CASE pieces = << <<v, 1>> >> /\ lns = << Piece(v, 2), end >>
    <2>1. /\ Tail(lns) = << end >> /\ Head(lns).arg = <<v, 2>>
          /\ Append(pieces, <<v, 2>>) = << <<v, 1>>, <<v, 2>> >>
        BY <1>2, Append2 DEF Piece, Line
    <2>2. QED BY <2>1 DEF Completes
<1>3. QED BY <1>1, <1>2 DEF Completes

LEMMA ReadDataKeepsInv == IInv /\ (ReadData \/ ReadOther) => IInv'
<1> SUFFICES ASSUME IInv, ReadData \/ ReadOther PROVE IInv'
    OBVIOUS
<1>1. /\ mode = "read" /\ toClient # << >> /\ Head(toClient).tag \in {"D", "S"}
      /\ toClient' = Tail(toClient)
      /\ UNCHANGED <<link, agent, locked, toAgent, call, step, mode, result, prompts, calls>>
    BY DEF ReadData, ReadOther, Incoming, client
<1>2. /\ link \in {"up", "cut"} /\ toAgent = << >> /\ call # None
      /\ Replying \/ (link = "cut" /\ CutOff)
    BY <1>1, Reading DEF Asking, Line
<1>3. link = "cut" /\ CutOff => CutOff'
    BY <1>1, ReadingCutOff
<1>4. Replying => Replying'
    <2> SUFFICES ASSUME Replying
                 PROVE  Completes(toClient, Product, data, OK)' /\ Final
        BY <1>1, <1>2 DEF Replying, Success, Final, Product
    <2>1. Final /\ Success
        BY <1>1 DEF Replying, Success, OK, ERR, Say, Line
    <2>2. CASE Head(toClient).tag = "S"
        <3>1. data' = data
            BY <2>2 DEF ReadData, ReadOther, Incoming, client
        <3>2. /\ data = << >>
              /\ toClient = << Say("S"), Piece(Product, 1), Piece(Product, 2), OK >>
            BY <2>1, <2>2 DEF Success, Completes, Piece, OK, Say, Line
        <3>3. toClient' = << Piece(Product, 1), Piece(Product, 2), OK >>
            BY <1>1, <3>2
        <3>4. Completes(toClient', Product, data', OK)
            BY <3>1, <3>2, <3>3 DEF Completes
        <3>5. QED BY <1>1, <2>1, <3>4 DEF Completes, Product
    <2>3. CASE Head(toClient).tag = "D"
        <3>1. Completes(toClient, Product, data, OK)
            BY <2>1, <2>3 DEF Success, Say, Line
        <3>2. data' = Append(data, Head(toClient).arg)
            BY <2>3 DEF ReadData, ReadOther, Incoming
        <3>3. Completes(toClient', Product, data', OK)
            BY <1>1, <2>3, <3>1, <3>2, NextPiece DEF OK, Say, Line
        <3>4. QED BY <1>1, <2>1, <3>3 DEF Completes, Product
    <2>4. QED BY <1>1, <2>2, <2>3
<1>5. TypeOK'
    BY <1>1 DEF IInv, TypeOK
<1>6. Conversation'
    BY <1>1, <1>2, <1>3, <1>4 DEF Conversation
<1>7. QED BY <1>1, <1>5, <1>6 DEF IInv

LEMMA ReadInquireKeepsInv == IInv /\ ReadInquire => IInv'
<1> SUFFICES ASSUME IInv, ReadInquire PROVE IInv'
    OBVIOUS
<1> DEFINE keyword == Head(toClient).arg
<1>1. /\ mode = "read" /\ toClient # << >> /\ Head(toClient).tag = "INQUIRE"
      /\ toClient' = Tail(toClient) /\ UNCHANGED <<link, agent, locked>>
    BY DEF ReadInquire, Incoming
<1>2. Asking /\ link \in {"up", "cut"} /\ toAgent = << >> /\ call # None
    BY <1>1, Reading, ReadingCutOff
    DEF Replying, Success, Completes, OK, ERR, Say, Line, Piece
<1>3. keyword = agent.asking /\ toClient' = << >>
    BY <1>1, <1>2 DEF Asking, Line
<1>4. CASE link = "cut" /\ Ends(Failed) /\ UNCHANGED toAgent
    BY <1>1, <1>2, <1>3, <1>4, EndsKeepsInv
<1>5. ASSUME NEW answer \in Answers(keyword),
             toAgent' = IF link = "up" THEN toAgent \o answer ELSE toAgent,
             prompts' = prompts + (IF HasHandler /\ keyword = "PASSPHRASE" THEN 1 ELSE 0),
             UNCHANGED <<call, step, mode, data, result, calls>>
      PROVE  IInv'
    <2>1. /\ agent.asking = "PASSPHRASE" => Final /\ HasHandler /\ prompts = 0
          /\ agent.asking # "PASSPHRASE" => prompts = 0
          /\ agent.asking = "TBSDATA" => HasHandler /\ call.op # "decrypt"
          /\ agent.asking = "CIPHERTEXT" => HasHandler /\ call.op = "decrypt"
        BY <1>2, CommandFacts DEF IInv, Asking, Inquiry, HasHandler
    <2>2. prompts' = IF agent.asking = "PASSPHRASE" THEN 1 ELSE 0
        BY <1>3, <1>5, <2>1
    <2>3. TypeOK'
        BY <1>1, <1>5, <2>2 DEF IInv, TypeOK
    <2>4. Inquiry(agent.asking)'
        BY <1>1, <1>2, <1>5, <2>2 DEF Asking, Inquiry, Final, Product, Prepared
    <2>5. link = "up" => Answering'
        <3>1. SUFFICES ASSUME link = "up" PROVE Answering'
            OBVIOUS
        <3>2. toAgent' = answer
            <4>1. << >> \o answer = answer
                BY Travels DEF Answers, Can
            <4>2. QED BY <1>2, <1>5, <3>1, <4>1
        <3>3. CASE answer = Can
            BY <1>3, <2>2, <2>4, <3>2, <3>3, <1>1 DEF Answering
        <3>4. CASE agent.asking \in {"TBSDATA", "CIPHERTEXT"} /\ answer = Sent(call.data)
            BY <1>1, <1>2, <1>3, <1>5, <2>2, <2>4, <3>2, <3>4, Travels
            DEF Answering, Asking, Completes
        <3>5. CASE agent.asking = "PASSPHRASE" /\ answer \in {Sent("right"), Sent("wrong")}
            BY <1>1, <1>2, <1>3, <2>2, <2>4, <3>2, <3>5, Travels
            DEF Answering, Asking, Completes
        <3>6. QED BY <1>3, <1>5, <2>1, <3>3, <3>4, <3>5 DEF Answers
    <2>6. link = "cut" => CutOff'
        BY <1>2, <1>3, <1>5, EmptySeq DEF CutOff
    <2>7. Conversation'
        BY <1>1, <1>2, <1>5, <2>5, <2>6 DEF Conversation
    <2>8. QED BY <1>1, <2>3, <2>7 DEF IInv
<1>6. QED BY <1>4, <1>5 DEF ReadInquire

LEMMA ReadKeepsInv ==
    IInv /\ (ReadOK \/ ReadERR \/ ReadData \/ ReadOther \/ ReadInquire \/ ReadEnd) => IInv'
BY ReadOKKeepsInv, ReadERRKeepsInv, ReadDataKeepsInv, ReadInquireKeepsInv, ReadEndKeepsInv

LEMMA ClientKeepsInv == IInv /\ ClientStep => IInv'
<1> SUFFICES ASSUME IInv, ClientStep PROVE IInv'
    OBVIOUS
<1>1. TypeOK /\ Conversation
    BY DEF IInv
<1>2. CASE Dial
    <2>1. mode = "dial" /\ link = "none" /\ call = Open /\ step = 1 /\ Quiet /\ call # None
        BY <1>1, <1>2 DEF Dial, Conversation, TypeOK
    <2>2. CASE Ends(Failed) /\ UNCHANGED <<link, toClient>>
        BY <1>2, <2>1, <2>2, EndsKeepsInv DEF Dial, Quiet, Open
    <2>3. CASE mode' = "greeting"
        <3>1. /\ link' = "up" /\ toClient' \in {<< OK >>, << ERR >>}
              /\ UNCHANGED <<call, step, data, result, prompts, calls, toAgent, agent, locked>>
            BY <1>2, <2>3 DEF Dial, OK, ERR, Ends
        <3>2. TypeOK'
            BY <1>1, <2>1, <2>3, <3>1 DEF TypeOK
        <3>3. Conversation'
            BY <1>1, <2>1, <2>3, <3>1 DEF Conversation, Quiet
        <3>4. QED BY <3>1, <3>2, <3>3 DEF IInv
    <2>4. QED BY <1>2, <2>2, <2>3 DEF Dial
<1>3. CASE Greeting
    <2>1. /\ mode = "greeting" /\ link # "none" /\ call = Open /\ step = 1 /\ prompts = 0
          /\ toAgent = << >> /\ agent.asking = "nothing" /\ toClient \in {<< OK >>, << ERR >>}
          /\ call # None /\ call.op = "open"
        BY <1>1, <1>3 DEF Greeting, Conversation, TypeOK, Open
    <2>2. toClient' = << >>
        BY <1>3, <2>1 DEF Greeting
    <2>3. CASE Head(toClient).tag = "OK"
        <3>1. /\ mode' = "write"
              /\ UNCHANGED <<link, call, step, data, result, prompts, calls, toAgent, agent, locked>>
            BY <1>3, <2>3 DEF Greeting
        <3>2. TypeOK'
            BY <1>1, <2>1, <3>1 DEF TypeOK
        <3>3. Prepared(step - 1)'
            BY <2>1, <3>1 DEF Prepared
        <3>4. Conversation'
            BY <2>1, <2>2, <3>1, <3>3 DEF Conversation, Quiet, Prepared
        <3>5. QED BY <3>1, <3>2, <3>4 DEF IInv
    <2>4. CASE Head(toClient).tag # "OK"
        BY <1>3, <2>1, <2>2, <2>4, EndsKeepsInv DEF Greeting
    <2>5. QED BY <2>3, <2>4
<1>4. CASE Write
    <2>1. /\ mode = "write" /\ link \in {"up", "cut"} /\ toAgent = << >> /\ toClient = << >>
          /\ call # None /\ prompts = 0 /\ (link = "up" => agent.asking = "nothing")
        BY <1>1, <1>4 DEF Write, Conversation, Quiet, TypeOK
    <2>2. CASE Ends(Failed) /\ UNCHANGED toAgent
        <3>1. UNCHANGED <<link, toAgent, toClient, agent, locked>>
            BY <1>4, <2>2 DEF Write
        <3>2. QED BY <2>1, <2>2, <3>1, EndsKeepsInv
    <2>3. CASE mode' = "read"
        <3>1. /\ data' = << >> /\ toAgent' = IF link = "up" THEN << Command >> ELSE << >>
              /\ UNCHANGED <<call, step, result, prompts, calls, link, toClient, agent, locked>>
            BY <1>4, <2>1, <2>3 DEF Write, Ends
        <3>2. TypeOK'
            BY <1>1, <2>1, <2>3, <3>1 DEF TypeOK
        <3>3. link = "up" => Awaiting'
            BY <1>1, <2>1, <3>1 DEF Awaiting, Conversation, Quiet, Prepared, Command
        <3>4. link = "cut" => CutOff'
            BY <2>1, <3>1, EmptySeq DEF CutOff
        <3>5. Conversation'
            BY <2>1, <2>3, <3>1, <3>3, <3>4 DEF Conversation
        <3>6. QED BY <3>1, <3>2, <3>5 DEF IInv
    <2>4. QED BY <1>4, <2>2, <2>3 DEF Write
<1>5. QED BY <1>2, <1>3, <1>4, ReadKeepsInv DEF ClientStep

\* The agent has something to take only while the client reads: the command,
\* or data for what the agent has asked.
LEMMA Taking ==
    ASSUME IInv, NEW tag, Takes(tag)
    PROVE  /\ mode = "read" /\ link = "up" /\ call # None /\ toClient = << >>
           /\ Head(toAgent).tag = tag /\ toAgent' = Tail(toAgent)
           /\ UNCHANGED <<link, call, step, mode, data, result, prompts, calls>>
           /\ Awaiting \/ Answering
           /\ agent.asking = "nothing" => Awaiting /\ toAgent' = << >> /\ Command.tag = tag
                                                   /\ Head(toAgent) = Command
           /\ agent.asking # "nothing" => Answering
<1>1. /\ link = "up" /\ toAgent # << >> /\ Head(toAgent).tag = tag /\ toAgent' = Tail(toAgent)
      /\ UNCHANGED <<link, call, step, mode, data, result, prompts, calls>>
    BY DEF Takes, client
<1>2. mode = "read"
    BY <1>1 DEF IInv, TypeOK, Conversation, Quiet
<1>3. (Awaiting \/ Answering) /\ call # None
    BY <1>1, <1>2 DEF IInv, TypeOK, Conversation, Replying, Asking
<1>4. toClient = << >>
    BY <1>3 DEF Awaiting, Answering
<1>5. agent.asking = "nothing" => Awaiting
    BY <1>3 DEF Answering, Inquiry
<1>6. Awaiting => agent.asking = "nothing" /\ toAgent = << Command >>
    BY DEF Awaiting
<1>7. QED BY <1>1, <1>2, <1>3, <1>4, <1>5, <1>6

\* After a step of the agent's the client goes on reading.
LEMMA TakingKeepsInv ==
    ASSUME IInv, NEW tag, Takes(tag),
           DOMAIN agent' = DOMAIN agent,
           agent'.sel \in Grips \union {None}, agent'.hash \in Payloads \union {None},
           agent'.asking \in {"nothing", "TBSDATA", "CIPHERTEXT", "PASSPHRASE", "SOMETHING"},
           locked' \subseteq Held,
           Replying' \/ Asking' \/ Answering'
    PROVE  IInv'
<1>1. /\ mode = "read" /\ link = "up" /\ call # None
      /\ UNCHANGED <<link, call, step, mode, data, result, prompts, calls>>
    BY Taking
<1>2. TypeOK'
    BY <1>1 DEF IInv, TypeOK
<1>3. Conversation'
    BY <1>1 DEF Conversation
<1>4. QED BY <1>2, <1>3 DEF IInv

LEMMA AgentSetsKeepsInv == IInv /\ AgentSets => IInv'
<1> SUFFICES ASSUME IInv, AgentSets PROVE IInv'
    OBVIOUS
<1>1. PICK tag \in {"OPTION", "SETKEYDESC", "RESET", "SIGKEY", "SETKEY", "SETHASH"} :
         TakesCommand(tag)
    BY DEF AgentSets
<1>2. Takes(tag) /\ agent.asking = "nothing"
    BY <1>1 DEF TakesCommand
<1>3. /\ Awaiting /\ Command.tag = tag /\ Head(toAgent) = Command /\ toAgent' = << >>
      /\ call # None /\ toClient = << >> /\ locked' = locked
      /\ UNCHANGED <<link, call, step, mode, data, result, prompts, calls>>
    BY <1>2, Taking DEF AgentSets
<1>4. toClient' = << OK >>
    BY <1>3 DEF AgentSets, Reply, OK
<1>5. /\ tag \in {"OPTION", "SETKEYDESC"} => agent' = agent
      /\ tag = "RESET" => agent' = [agent EXCEPT !.sel = None, !.hash = None]
      /\ tag \in {"SIGKEY", "SETKEY"} => agent' = [agent EXCEPT !.sel = Command.arg]
      /\ tag = "SETHASH" => agent' = [agent EXCEPT !.hash = Command.arg]
    BY <1>2, <1>3 DEF AgentSets, TakesCommand, Takes
<1>6. /\ DOMAIN agent' = DOMAIN agent /\ agent'.asking = "nothing"
      /\ agent'.sel \in Grips \union {None} /\ agent'.hash \in Payloads \union {None}
    <2>1. /\ tag \in {"SIGKEY", "SETKEY"} => Command.arg \in Grips
          /\ tag = "SETHASH" => Command.arg \in Payloads
        BY <1>3, CommandFacts DEF IInv
    <2>2. /\ DOMAIN agent = {"sel", "hash", "asking", "got", "product"}
          /\ agent.sel \in Grips \union {None} /\ agent.hash \in Payloads \union {None}
        BY DEF IInv, TypeOK
    <2>3. QED BY <1>1, <1>2, <1>5, <2>1, <2>2
<1>7. Prepared(step)'
    BY <1>1, <1>3, <1>5, CommandFacts DEF IInv, Prepared, Awaiting
<1>8. ~Final /\ call.op # "have"
    BY <1>1, <1>3, CommandFacts DEF IInv
<1>9. Replying'
    BY <1>3, <1>4, <1>6, <1>7, <1>8 DEF Replying, Success, Awaiting, Final
<1>10. QED BY <1>2, <1>3, <1>6, <1>9, TakingKeepsInv DEF IInv, TypeOK

\* A step of the agent's that only changes what it asks.
LEMMA AnswerKeepsInv ==
    ASSUME IInv, NEW tag, Takes(tag), locked' \subseteq Held,
           agent' = agent \/ agent' = [agent EXCEPT !.asking = "nothing"],
           Replying'
    PROVE  IInv'
<1>1. /\ DOMAIN agent' = DOMAIN agent /\ agent'.sel = agent.sel /\ agent'.hash = agent.hash
      /\ agent'.asking \in {agent.asking, "nothing"}
    BY DEF IInv
<1>2. QED BY <1>1, TakingKeepsInv DEF IInv, TypeOK

LEMMA AgentHasKeepsInv == IInv /\ AgentHas => IInv'
<1> SUFFICES ASSUME IInv, AgentHas PROVE IInv'
    OBVIOUS
<1>1. Takes("HAVEKEY") /\ agent.asking = "nothing" /\ UNCHANGED <<agent, locked>>
    BY DEF AgentHas, TakesCommand
<1>2. /\ Awaiting /\ Command.tag = "HAVEKEY" /\ Head(toAgent) = Command /\ toAgent' = << >>
      /\ call # None /\ toClient = << >>
      /\ UNCHANGED <<link, call, step, mode, data, result, prompts, calls>>
    BY <1>1, Taking
<1>3. call.op = "have" /\ Command.arg = call.grip
    BY <1>2, CommandFacts DEF IInv
<1>4. toClient' = IF call.grip \in Held THEN << OK >> ELSE << ERR >>
    BY <1>2, <1>3 DEF AgentHas, Reply, OK, ERR
<1>5. Prepared(step)'
    BY <1>2, <1>3 DEF Prepared
<1>6. Replying'
    BY <1>1, <1>2, <1>3, <1>4, <1>5 DEF Replying, Success, Awaiting, Final
<1>7. QED BY <1>1, <1>6, AnswerKeepsInv DEF IInv, TypeOK

LEMMA AgentAsksKeepsInv == IInv /\ AgentAsks => IInv'
<1> SUFFICES ASSUME IInv, AgentAsks PROVE IInv'
    OBVIOUS
<1>1. PICK tag, keyword :
         /\ TakesCommand(tag) /\ Asks(keyword)
         /\ \/ tag = "SETHASH--inquire" /\ keyword = "TBSDATA"
            \/ tag = "PKDECRYPT" /\ keyword = "CIPHERTEXT"
            \/ keyword = "SOMETHING"
    BY DEF AgentAsks
<1>2. Takes(tag) /\ agent.asking = "nothing" /\ UNCHANGED locked
    BY <1>1 DEF TakesCommand, AgentAsks
<1>3. /\ Awaiting /\ Command.tag = tag /\ toAgent' = << >> /\ call # None /\ toClient = << >>
      /\ UNCHANGED <<link, call, step, mode, data, result, prompts, calls>>
    BY <1>2, Taking
<1>4. /\ agent'.asking = keyword /\ agent'.got = << >> /\ DOMAIN agent' = DOMAIN agent
      /\ agent'.sel = agent.sel /\ agent'.hash = agent.hash
      /\ toClient' = << Line("INQUIRE", keyword) >>
    BY <1>1, <1>3 DEF Asks, Reply, IInv
<1>5. Inquiry(keyword)'
    BY <1>1, <1>3, <1>4, CommandFacts DEF IInv, Inquiry, Awaiting, Prepared
<1>6. Asking'
    BY <1>1, <1>3, <1>4, <1>5 DEF Asking, Inquiry
<1>7. QED BY <1>1, <1>2, <1>4, <1>6, TakingKeepsInv DEF IInv, TypeOK

\* The agent delivers the product of the operation's own key and data, or asks
\* for the passphrase first.
LEMMA DeliversProduct ==
    ASSUME IInv, NEW tag, Takes(tag), Final, toAgent' = << >>, data = << >>,
           Delivers(Product), locked' \subseteq Held,
           agent' = [agent EXCEPT !.asking = "nothing"]
    PROVE  IInv'
<1>1. toClient = << >> /\ UNCHANGED <<call, step, data>>
    BY Taking
<1>2. << >> \o << Say("S"), Piece(Product, 1), Piece(Product, 2), OK >>
          = << Say("S"), Piece(Product, 1), Piece(Product, 2), OK >>
    OBVIOUS
<1>3. toClient' = << Say("S"), Piece(Product, 1), Piece(Product, 2), OK >>
    BY <1>1, <1>2, Travels DEF Delivers, Reply, OK
<1>4. Final' /\ Product' = Product /\ agent'.asking = "nothing"
    BY <1>1 DEF Final, Product, IInv
<1>5. Replying'
    BY <1>1, <1>3, <1>4 DEF Replying, Success
<1>6. QED BY <1>5, AnswerKeepsInv

LEMMA ProducesProduct ==
    ASSUME IInv, NEW tag, Takes(tag), Final, toAgent' = << >>, data = << >>, prompts = 0,
           Prepared(step - 1), agent.sel = call.grip, Produces(Product), UNCHANGED locked
    PROVE  IInv'
<1>1. toClient = << >> /\ UNCHANGED <<link, call, step, mode, data, result, prompts, calls>>
    BY Taking
<1>2. CASE agent.sel \notin Held
    <2>1. toClient' = << ERR >> /\ agent' = [agent EXCEPT !.asking = "nothing"]
        <3>1. Reply(<< Say("ERR") >>) /\ agent' = [agent EXCEPT !.asking = "nothing"]
            BY <1>2 DEF Produces, IInv, TypeOK
        <3>2. QED BY <1>1, <3>1 DEF Reply, ERR
    <2>2. Replying'
        BY <2>1 DEF Replying, IInv
    <2>3. QED BY <2>1, <2>2, AnswerKeepsInv DEF IInv, TypeOK
<1>3. CASE agent.sel \in Held /\ agent.sel \in locked
    <2>1. /\ toClient' = << Line("INQUIRE", "PASSPHRASE") >>
          /\ agent' = [agent EXCEPT !.asking = "PASSPHRASE", !.got = << >>, !.product = Product]
        BY <1>1, <1>3 DEF Produces, Reply
    <2>2. /\ agent'.asking = "PASSPHRASE" /\ agent'.got = << >> /\ agent'.product = Product
          /\ agent'.sel = agent.sel /\ agent'.hash = agent.hash /\ DOMAIN agent' = DOMAIN agent
        BY <2>1 DEF IInv
    <2>3. Final' /\ Product' = Product /\ Prepared(step - 1)'
        BY <1>1, <2>2 DEF Final, Product, Prepared
    <2>4. Asking'
        BY <1>1, <1>3, <2>1, <2>2, <2>3 DEF Asking, Inquiry
    <2>5. QED BY <2>2, <2>4, TakingKeepsInv DEF IInv, TypeOK
<1>4. CASE agent.sel \in Held /\ agent.sel \notin locked
    BY <1>4, DeliversProduct DEF Produces, IInv, TypeOK
<1>5. QED BY <1>2, <1>3, <1>4

LEMMA AgentSignsKeepsInv == IInv /\ AgentSigns => IInv'
<1> SUFFICES ASSUME IInv, AgentSigns PROVE IInv'
    OBVIOUS
<1>1. Takes("PKSIGN") /\ agent.asking = "nothing" /\ UNCHANGED locked
    BY DEF AgentSigns, TakesCommand
<1>2. /\ Awaiting /\ Command.tag = "PKSIGN" /\ toAgent' = << >> /\ call # None
    BY <1>1, Taking
<1>3. /\ call.op \in {"sign", "puresign"} /\ step = 5 /\ Final
      /\ agent.sel = call.grip /\ agent.hash = call.data
    BY <1>2, CommandFacts DEF IInv, Awaiting, Prepared
<1>4. Produces(Product)
    BY <1>3 DEF AgentSigns, Product
<1>5. QED BY <1>1, <1>2, <1>3, <1>4, ProducesProduct DEF Awaiting

LEMMA AgentGetsKeepsInv == IInv /\ AgentGets => IInv'
<1> SUFFICES ASSUME IInv, AgentGets PROVE IInv'
    OBVIOUS
<1>1. /\ Takes("D") /\ agent.asking # "nothing" /\ UNCHANGED <<toClient, locked>>
      /\ agent' = [agent EXCEPT !.got = Append(@, Head(toAgent).arg)]
    BY DEF AgentGets
<1>2. /\ Answering /\ Head(toAgent).tag = "D" /\ toAgent' = Tail(toAgent) /\ toClient = << >>
      /\ UNCHANGED <<link, call, step, mode, data, result, prompts, calls>>
    BY <1>1, Taking
<1>3. /\ agent'.got = Append(agent.got, Head(toAgent).arg) /\ agent'.asking = agent.asking
      /\ agent'.sel = agent.sel /\ agent'.hash = agent.hash /\ agent'.product = agent.product
      /\ DOMAIN agent' = DOMAIN agent
    BY <1>1 DEF IInv
<1>4. \A v : Completes(toAgent, v, agent.got, Say("END"))
                 => Completes(toAgent', v, agent'.got, Say("END"))
    BY <1>2, <1>3, NextPiece DEF Say, Line
<1>5. toAgent # Can
    BY <1>2 DEF Can, Say, Line
<1>6. Inquiry(agent.asking)'
    BY <1>2, <1>3 DEF Answering, Inquiry, Prepared, Final, Product
<1>7. Answering'
    BY <1>1, <1>2, <1>3, <1>4, <1>5, <1>6 DEF Answering
<1>8. QED BY <1>1, <1>3, <1>7, TakingKeepsInv DEF IInv, TypeOK

\* The agent puts together what it was sent.
LEMMA GatheredIs ==
    ASSUME NEW v \in Payloads \union {"right", "wrong"}, agent.got = Parts(v)
    PROVE  Gathered = v
<1>1. \A w : Parts(w) = Parts(v) => w = v
    BY DEF Parts
<1>2. QED BY <1>1 DEF Gathered

LEMMA GotAll ==
    ASSUME IInv, AgentGotAll
    PROVE  /\ Takes("END") /\ Answering /\ toAgent' = << >>
           /\ agent.asking \in {"TBSDATA", "CIPHERTEXT", "PASSPHRASE"}
           /\ agent.asking # "PASSPHRASE" =>
                 Gathered = call.data /\ call.data \in Payloads /\ prompts = 0
           /\ agent.asking = "PASSPHRASE" =>
                 prompts = 1 /\ agent.product = Product /\ agent.sel = call.grip /\ Final
<1>1. Takes("END")
    BY DEF AgentGotAll
<1>2. /\ Answering \/ Awaiting
      /\ Head(toAgent).tag = "END" /\ toAgent' = Tail(toAgent) /\ call # None
      /\ agent.asking = "nothing" => Command.tag = "END"
      /\ agent.asking # "nothing" => Answering
    BY <1>1, Taking
<1>3. Command.tag # "END"
    BY <1>2, CommandFacts DEF IInv
<1>4. Answering /\ toAgent # Can
    BY <1>2, <1>3 DEF Can, Say, Line
<1>5. \A v : Completes(toAgent, v, agent.got, Say("END"))
                => agent.got = Parts(v) /\ toAgent = << Say("END") >>
    BY <1>2 DEF Completes, Parts, Piece, Say, Line
<1>6. CASE agent.asking = "PASSPHRASE"
    <2>1. /\ prompts = 1 /\ agent.product = Product /\ agent.sel = call.grip /\ Final
          /\ \E v \in {"right", "wrong"} : Completes(toAgent, v, agent.got, Say("END"))
        BY <1>4, <1>6 DEF Answering, Inquiry
    <2>2. toAgent = << Say("END") >>
        BY <1>5, <2>1
    <2>3. QED BY <1>1, <1>2, <1>4, <1>6, <2>1, <2>2
<1>7. CASE agent.asking # "PASSPHRASE"
    <2>1. /\ agent.asking \in {"TBSDATA", "CIPHERTEXT"} /\ prompts = 0
          /\ agent.got = Parts(call.data) /\ toAgent = << Say("END") >>
          /\ call.op \notin {"open", "have"}
        BY <1>4, <1>5, <1>7 DEF Answering, Inquiry
    <2>2. call.data \in Payloads
        BY <1>2, <2>1, CommandFacts DEF IInv
    <2>3. QED BY <1>1, <1>2, <1>4, <1>7, <2>1, <2>2, GatheredIs
<1>8. QED BY <1>6, <1>7

LEMMA AgentGotAllKeepsInv == IInv /\ AgentGotAll => IInv'
<1> SUFFICES ASSUME IInv, AgentGotAll PROVE IInv'
    OBVIOUS
<1>1. /\ Takes("END") /\ Answering /\ toAgent' = << >> /\ toClient = << >> /\ data = << >>
      /\ Prepared(step - 1) /\ Inquiry(agent.asking)
      /\ agent.asking \in {"TBSDATA", "CIPHERTEXT", "PASSPHRASE"} /\ call # None
      /\ UNCHANGED <<link, call, step, mode, data, result, prompts, calls>>
    BY GotAll, Taking DEF Answering, Inquiry
<1>2. CASE agent.asking = "TBSDATA"
    <2>1. /\ Reply(<< Say("OK") >>) /\ UNCHANGED locked
          /\ agent' = [agent EXCEPT !.hash = Gathered, !.asking = "nothing"]
        BY <1>2 DEF AgentGotAll
    <2>2. Gathered = call.data /\ call.data \in Payloads /\ prompts = 0
        BY <1>2, GotAll
    <2>3. call.op = "puresign" /\ step = 4 /\ ~Final
        BY <1>1, <1>2, CommandFacts DEF IInv, Inquiry
    <2>4. /\ agent'.hash = call.data /\ agent'.asking = "nothing" /\ agent'.sel = agent.sel
          /\ DOMAIN agent' = DOMAIN agent
        BY <2>1, <2>2 DEF IInv
    <2>5. toClient' = << OK >>
        BY <1>1, <2>1 DEF Reply, OK
    <2>6. Prepared(step)' /\ ~Final'
        BY <1>1, <2>3, <2>4 DEF Prepared, Final
    <2>7. Replying'
        BY <1>1, <2>2, <2>3, <2>4, <2>5, <2>6 DEF Replying, Success
    <2>8. QED BY <1>1, <2>1, <2>2, <2>4, <2>7, TakingKeepsInv DEF IInv, TypeOK
<1>3. CASE agent.asking = "CIPHERTEXT"
    <2>1. Produces(Decrypted(agent.sel, Gathered)) /\ UNCHANGED locked
        BY <1>3 DEF AgentGotAll
    <2>2. Gathered = call.data /\ prompts = 0
        BY <1>3, GotAll
    <2>3. call.op = "decrypt" /\ step = 4 /\ Final /\ agent.sel = call.grip
        BY <1>1, <1>3, CommandFacts DEF IInv, Inquiry, Prepared
    <2>4. QED BY <1>1, <2>1, <2>2, <2>3, ProducesProduct DEF Product
<1>4. CASE agent.asking = "PASSPHRASE"
    <2>1. /\ agent' = [agent EXCEPT !.asking = "nothing"]
          /\ \/ Delivers(agent.product) /\ locked' = locked \ {agent.sel}
             \/ Reply(<< Say("ERR") >>) /\ UNCHANGED locked
        BY <1>4 DEF AgentGotAll
    <2>2. CASE Delivers(agent.product) /\ locked' = locked \ {agent.sel}
        BY <1>1, <1>4, <2>1, <2>2, GotAll, DeliversProduct DEF IInv, TypeOK
    <2>3. CASE Reply(<< Say("ERR") >>) /\ UNCHANGED locked
        <3>1. toClient' = << ERR >> /\ agent'.asking = "nothing"
            BY <1>1, <2>1, <2>3 DEF Reply, ERR, IInv
        <3>2. Replying'
            BY <1>1, <3>1 DEF Replying
        <3>3. QED BY <1>1, <2>1, <2>3, <3>2, AnswerKeepsInv DEF IInv, TypeOK
    <2>4. QED BY <2>1, <2>2, <2>3
<1>5. QED BY <1>1, <1>2, <1>3, <1>4

LEMMA AgentStopsKeepsInv == IInv /\ (AgentCancelled \/ AgentRefuses) => IInv'
<1> SUFFICES ASSUME IInv, AgentCancelled \/ AgentRefuses PROVE IInv'
    OBVIOUS
<1>1. PICK tag : Takes(tag)
    BY DEF AgentCancelled, AgentRefuses
<1>2. /\ Reply(<< Say("ERR") >>) /\ UNCHANGED locked
      /\ agent' = agent \/ agent' = [agent EXCEPT !.asking = "nothing"]
    BY DEF AgentCancelled, AgentRefuses
<1>3. agent'.asking = "nothing"
    BY DEF AgentCancelled, AgentRefuses, IInv
<1>4. toClient = << >> /\ toAgent' = << >>
    <2>1. CASE agent.asking = "nothing"
        BY <1>1, <2>1, Taking
    <2>2. CASE agent.asking # "nothing"
        <3>1. Takes("CAN")
            BY <2>2 DEF AgentCancelled, AgentRefuses
        <3>2. /\ Answering /\ Head(toAgent).tag = "CAN" /\ toAgent' = Tail(toAgent)
              /\ toClient = << >>
            BY <2>2, <3>1, Taking
        <3>3. toAgent = Can
            BY <3>2 DEF Answering, Completes, Piece, Say, Line
        <3>4. QED BY <3>2, <3>3 DEF Can
    <2>3. QED BY <2>1, <2>2
<1>5. toClient' = << ERR >>
    BY <1>2, <1>4 DEF Reply, ERR
<1>6. Replying'
    BY <1>3, <1>4, <1>5 DEF Replying
<1>7. QED BY <1>1, <1>2, <1>6, AnswerKeepsInv DEF IInv, TypeOK

LEMMA AgentKeepsInv == IInv /\ AgentStep => IInv'
BY AgentSetsKeepsInv, AgentHasKeepsInv, AgentAsksKeepsInv, AgentSignsKeepsInv,
   AgentGetsKeepsInv, AgentGotAllKeepsInv, AgentStopsKeepsInv
DEF AgentStep

\* Close, Begin, Forget, and an agent that goes away.
LEMMA CloseKeepsInv == IInv /\ Close => IInv'
<1> SUFFICES ASSUME IInv, Close PROVE IInv'
    OBVIOUS
<1>1. TypeOK'
    BY DEF Close, IInv, TypeOK
<1>2. Conversation'
    BY DEF Close, IInv, Conversation
<1>3. QED BY <1>1, <1>2 DEF Close, IInv

LEMMA BeginKeepsInv == ASSUME IInv, NEW c \in Calls, Begin(c) PROVE IInv'
<1>1. /\ mode = "idle" /\ calls < MaxCalls /\ call' = c /\ step' = 1 /\ mode' = "write"
      /\ calls' = calls + 1
      /\ UNCHANGED <<link, toAgent, toClient, data, result, prompts, agent, locked>>
    BY DEF Begin, lines
<1>2. c # None /\ Len(Script(c)) \in 1..5
    BY LinkAssumption DEF Calls, Script
<1>3. TypeOK'
    <2>1. calls' \in 0..MaxCalls
        BY <1>1, LinkAssumption DEF IInv, TypeOK
    <2>2. step' \in 1..(IF call' = None THEN 1 ELSE Len(Script(call')))
        BY <1>1, <1>2
    <2>3. (call' = None) = (mode' \in {"idle", "closed"}) /\ call' \in Calls
        BY <1>1, <1>2
    <2>4. QED BY <1>1, <2>1, <2>2, <2>3 DEF IInv, TypeOK
<1>4. Prepared(step - 1)'
    BY <1>1 DEF Prepared
<1>5. Conversation'
    BY <1>1, <1>4 DEF IInv, Conversation, Quiet
<1>6. QED BY <1>1, <1>3, <1>5 DEF IInv

LEMMA ForgetKeepsInv == IInv /\ Forget => IInv'
<1> SUFFICES ASSUME IInv, Forget PROVE IInv'
    OBVIOUS
<1>1. /\ link = "up" /\ locked \subseteq locked' /\ locked' \subseteq Held
      /\ UNCHANGED <<link, toAgent, toClient, call, step, mode, data, result, prompts, calls, agent>>
    BY DEF Forget, lines, client, IInv, TypeOK
<1>2. TypeOK'
    BY <1>1 DEF IInv, TypeOK
<1>3. /\ Quiet' = Quiet /\ Prepared(step - 1)' = Prepared(step - 1) /\ Awaiting' = Awaiting
      /\ Replying' = Replying /\ Answering' = Answering /\ (Asking => Asking')
    BY <1>1 DEF Quiet, Prepared, Awaiting, Command, Replying, Success, Final, Product,
                Answering, Inquiry, Asking
<1>4. Conversation'
    BY <1>1, <1>3 DEF IInv, Conversation
<1>5. QED BY <1>1, <1>2, <1>4 DEF IInv

\* What is left of lines when only the first n arrive: all, or none of the last.
LEMMA Shortened ==
    ASSUME NEW U, NEW T, NEW t \in Seq(U), NEW n \in 0..Len(t),
           \A i \in 1..(Len(t) - 1) : t[i] \in T
    PROVE  SubSeq(t, 1, n) = t \/ SubSeq(t, 1, n) \in Seq(T)
<1>1. Len(t) \in Nat
    BY LenProperties
<1>2. CASE n = Len(t)
    BY <1>2, SubSeqFull
<1>3. CASE n # Len(t)
    <2>1. n \in Int /\ 1 \in Int /\ \A i \in 1..n : t[i] \in T
        BY <1>1, <1>3
    <2>2. QED BY <2>1, SubSeqProperties, Zenon
<1>4. QED BY <1>2, <1>3

LEMMA AllButLast ==
    ASSUME NEW T, NEW last, NEW t,
           \/ \E a \in T, b \in T, c \in T : t = << a, b, c, last >>
           \/ \E a \in T, b \in T : t = << a, b, last >>
           \/ \E a \in T : t = << a, last >>
           \/ t = << last >>
    PROVE  /\ t \in Seq(T \union {last})
           /\ \A i \in 1..(Len(t) - 1) : t[i] \in T
<1> DEFINE U == T \union {last}
<1>1. T \subseteq U /\ last \in U
    OBVIOUS
<1> HIDE DEF U
<1>2. ASSUME NEW a \in T, NEW b \in T, NEW c \in T, t = << a, b, c, last >>
      PROVE  t \in Seq(U) /\ \A i \in 1..(Len(t) - 1) : t[i] \in T
    <2>1. a \in U /\ b \in U /\ c \in U
        BY <1>1
    <2>2. t \in Seq(U) /\ Len(t) = 4
        BY <1>1, <1>2, <2>1
    <2>3. \A i \in 1..3 : t[i] \in T
        BY <1>2
    <2>4. QED BY <2>2, <2>3
<1>3. ASSUME NEW a \in T, NEW b \in T, t = << a, b, last >>
      PROVE  t \in Seq(U) /\ \A i \in 1..(Len(t) - 1) : t[i] \in T
    BY <1>1, <1>3
<1>4. ASSUME NEW a \in T, t = << a, last >>
      PROVE  t \in Seq(U) /\ \A i \in 1..(Len(t) - 1) : t[i] \in T
    BY <1>1, <1>4
<1>5. ASSUME t = << last >>
      PROVE  t \in Seq(U) /\ \A i \in 1..(Len(t) - 1) : t[i] \in T
    BY <1>1, <1>5
<1>6. QED BY <1>2, <1>3, <1>4, <1>5 DEF U

LEMMA CutKeepsInv == IInv /\ Cut => IInv'
<1> SUFFICES ASSUME IInv, Cut PROVE IInv'
    OBVIOUS
<1>1. PICK n \in 0..Len(toClient) : toClient' = SubSeq(toClient, 1, n)
    BY DEF Cut
<1>2. /\ link = "up" /\ link' = "cut" /\ toAgent' = << >>
      /\ UNCHANGED <<call, step, mode, data, result, prompts, calls, agent, locked>>
    BY DEF Cut, client
<1>3. TypeOK'
    BY <1>2 DEF IInv, TypeOK
<1>4. toClient = << >> => toClient' = << >>
    BY <1>1, SubSeqEmpty
<1>5. \A l : toClient = << l >> => toClient' = << >> \/ toClient' = toClient
    <2> SUFFICES ASSUME NEW l, toClient = << l >>
                 PROVE  toClient' = << >> \/ toClient' = toClient
        OBVIOUS
    <2>1. toClient \in Seq({l}) /\ Len(toClient) = 1
        OBVIOUS
    <2>2. \A i \in 1..(Len(toClient) - 1) : toClient[i] \in {}
        BY <2>1
    <2>3. toClient' = toClient \/ toClient' \in Seq({})
        BY <1>1, <2>1, <2>2, Shortened
    <2>4. QED BY <2>3, EmptySeq, LenProperties, ElementOfSeq
<1>6. ASSUME mode = "read" PROVE (Replying \/ Asking \/ CutOff)'
    <2>1. Awaiting \/ Replying \/ Asking \/ Answering
        BY <1>2, <1>6 DEF IInv, Conversation
    <2>2. toClient' = << >> => CutOff'
        BY <1>2, EmptySeq DEF CutOff
    <2>3. Replying /\ toClient' = toClient => Replying'
        BY <1>2 DEF Replying, Success, Final, Product, Prepared
    <2>4. Asking /\ toClient' = toClient => Asking'
        BY <1>2 DEF Asking, Inquiry, Final, Product, Prepared
    <2>5. CASE Awaiting \/ Answering
        BY <1>4, <2>2, <2>5 DEF Awaiting, Answering
    <2>6. CASE Asking
        BY <1>5, <2>2, <2>4, <2>6 DEF Asking
    <2>7. CASE Replying /\ (toClient = << ERR >> \/ ~Final)
        BY <1>5, <2>2, <2>3, <2>7 DEF Replying, Success
    <2>8. CASE Replying /\ Final /\ toClient # << ERR >>
        <3> DEFINE T == {Say("S"), Piece(Product, 1), Piece(Product, 2)}
        <3>1. /\ toClient \in Seq(T \union {OK})
              /\ \A i \in 1..(Len(toClient) - 1) : toClient[i] \in T
            <4>1. \/ toClient = << Say("S"), Piece(Product, 1), Piece(Product, 2), OK >>
                  \/ toClient = << Piece(Product, 1), Piece(Product, 2), OK >>
                  \/ toClient = << Piece(Product, 2), OK >>
                  \/ toClient = << OK >>
                BY <2>8 DEF Replying, Success, Completes
            <4>2. /\ Say("S") \in T /\ Piece(Product, 1) \in T /\ Piece(Product, 2) \in T
                OBVIOUS
            <4> HIDE DEF T
            <4>3. QED BY <4>1, <4>2, AllButLast
        <3>2. toClient' = toClient \/ toClient' \in Seq(T)
            BY <1>1, <3>1, Shortened
        <3>3. Product' = Product
            BY <1>2 DEF Product
        <3>4. QED BY <1>2, <2>3, <2>8, <3>2, <3>3 DEF CutOff
    <2>9. QED BY <2>1, <2>5, <2>6, <2>7, <2>8
<1>7. Conversation'
    BY <1>2, <1>4, <1>5, <1>6 DEF IInv, Conversation, Quiet
<1>8. QED BY <1>2, <1>3, <1>7 DEF IInv

LEMMA NextKeepsInv == IInv /\ [Next]_vars => IInv'
<1> SUFFICES ASSUME IInv, [Next]_vars PROVE IInv'
    OBVIOUS
<1>1. CASE UNCHANGED vars
    <2>1. UNCHANGED <<link, toAgent, toClient, call, step, mode, data, result, prompts, calls,
                      agent, locked>>
        BY <1>1 DEF vars, lines, client
    <2>2. TypeOK' = TypeOK
        BY <2>1 DEF TypeOK
    <2>3. /\ Quiet' = Quiet /\ Prepared(step - 1)' = Prepared(step - 1) /\ Awaiting' = Awaiting
          /\ Replying' = Replying /\ Answering' = Answering /\ Asking' = Asking
          /\ CutOff' = CutOff
        BY <2>1 DEF Quiet, Prepared, Awaiting, Command, Replying, Success, Final, Product,
                    Answering, Inquiry, Asking, CutOff
    <2>4. Conversation'
        BY <2>1, <2>3 DEF IInv, Conversation
    <2>5. QED BY <2>1, <2>2, <2>4 DEF IInv
<1>2. CASE Next /\ ~UNCHANGED vars
    BY <1>2, ClientKeepsInv, AgentKeepsInv, BeginKeepsInv, CloseKeepsInv, CutKeepsInv,
       ForgetKeepsInv DEF Next, Closed
<1>3. QED BY <1>1, <1>2

LEMMA Invariance == Spec => []IInv
BY InitInv, NextKeepsInv, PTL DEF Spec

\* The connection, the script and the agent's side stay within their types.
THEOREM TypeCorrect == Spec => []TypeOK
<1>1. IInv => TypeOK
    BY DEF IInv
<1>2. QED BY <1>1, Invariance, PTL

\* Whatever the agent asks, the user cancels or the connection loses, between two
\* operations nothing is left on a connection that is up (readResponse,
\* inquireHandler): the next operation reads its own answer.
THEOREM AnswersInStep == Spec => []InStep
<1>1. IInv => InStep
    BY DEF IInv, InStep, Conversation, Quiet
<1>2. QED BY <1>1, Invariance, PTL

-----------------------------------------------------------------------------
(* What the caller may rely on.                                             *)

\* A command without an error returns what the call asks for.
LEMMA SucceedsAsWanted ==
    ASSUME IInv, ReadOK, step = Len(Script(call))
    PROVE  call # None /\ Succeeded = Wanted(call)
<1>1. Success /\ call # None /\ toClient = << OK >>
    BY ReadsOK
<1>2. CASE call.op = "open"
    BY <1>1, <1>2 DEF Success, Final, Succeeded, Wanted
<1>3. CASE call.op = "have"
    BY <1>1, <1>3 DEF Success, Final, Succeeded, Wanted
<1>4. CASE call.op \notin {"open", "have"}
    <2>1. data = Parts(Product)
        BY <1>1, <1>4 DEF Success, Final, Completes, Parts, OK, Say, Line, Piece
    <2>2. Succeeded = Outcome("done", data)
        BY <1>4 DEF Succeeded
    <2>3. QED BY <1>1, <1>4, <2>1, <2>2 DEF Wanted, Product
<1>5. QED BY <1>2, <1>3, <1>4

LEMMA EndsReturns ==
    ASSUME call # None, NEW r, Ends(r), UNCHANGED locked,
           r \in {Failed, Wanted(call)} \union (IF call.op = "have" THEN {Missing} ELSE {})
    PROVE  Service!Return
<1>1. Service!Failed = Failed /\ Service!Missing = Missing
    BY DEF Service!Failed, Failed, Service!Missing, Missing, Service!Outcome, Outcome
<1>2. Service!Wanted(call) = Wanted(call)
    BY <1>1 DEF Service!Wanted, Wanted, Service!Outcome, Outcome, Service!Parts, Parts,
                Service!Decrypted, Decrypted, Service!Signed, Signed
<1>3. QED BY <1>1, <1>2 DEF Ends, Service!Return

LEMMA ClientServes == IInv /\ ClientStep => [Service!Next]_(Service!vars)
<1> SUFFICES ASSUME IInv, ClientStep PROVE Service!Next \/ UNCHANGED Service!vars
    OBVIOUS
<1>1. Service!Return => Service!Next
    BY DEF Service!Next
<1>2. UNCHANGED <<call, result, prompts, locked>> => UNCHANGED Service!vars
    BY DEF Service!vars
<1>3. mode \in {"dial", "greeting", "write", "read"} => call # None
    BY DEF IInv, TypeOK
<1>4. CASE Dial \/ Greeting \/ Write \/ ReadEnd
    BY <1>1, <1>2, <1>3, <1>4, EndsReturns DEF Dial, Greeting, Write, ReadEnd
<1>5. CASE ReadOK
    BY <1>1, <1>2, <1>5, SucceedsAsWanted, EndsReturns DEF ReadOK, Incoming
<1>6. CASE ReadERR
    BY <1>1, <1>3, <1>6, EndsReturns DEF ReadERR, Incoming, Refused
<1>7. CASE ReadData \/ ReadOther
    BY <1>2, <1>7 DEF ReadData, ReadOther, Incoming, client
<1>8. CASE ReadInquire
    <2>1. /\ mode = "read" /\ toClient # << >> /\ Head(toClient).tag = "INQUIRE"
          /\ UNCHANGED locked
        BY <1>8 DEF ReadInquire, Incoming
    <2>2. CASE Ends(Failed)
        BY <1>1, <1>3, <2>1, <2>2, EndsReturns
    <2>3. CASE UNCHANGED <<call, result>>
              /\ prompts' = prompts + (IF HasHandler /\ Head(toClient).arg = "PASSPHRASE"
                                       THEN 1 ELSE 0)
        <3>1. Asking
            BY <2>1, Reading, ReadingCutOff
            DEF Replying, Success, Completes, OK, ERR, Say, Line, Piece
        <3>2. Head(toClient).arg = agent.asking
            BY <3>1 DEF Asking, Line
        <3>3. CASE HasHandler /\ agent.asking = "PASSPHRASE"
            <4>1. prompts = 0 /\ call.grip \in locked /\ Final
                BY <3>1, <3>3 DEF Asking, Inquiry
            <4>2. Service!Prompt
                BY <1>3, <2>1, <2>3, <3>2, <3>3, <4>1 DEF Service!Prompt, Final
            <4>3. QED BY <4>2 DEF Service!Next
        <3>4. CASE ~(HasHandler /\ agent.asking = "PASSPHRASE")
            BY <1>2, <2>1, <2>3, <3>2, <3>4 DEF IInv, TypeOK
        <3>5. QED BY <3>3, <3>4
    <2>4. QED BY <1>8, <2>2, <2>3 DEF ReadInquire
<1>9. QED BY <1>4, <1>5, <1>6, <1>7, <1>8 DEF ClientStep

LEMMA AgentServes == IInv /\ AgentStep => [Service!Next]_(Service!vars)
<1> SUFFICES ASSUME IInv, AgentStep PROVE Service!Next \/ UNCHANGED Service!vars
    OBVIOUS
<1>1. UNCHANGED <<call, result, prompts>>
    BY DEF AgentStep, AgentSets, AgentHas, AgentAsks, AgentSigns, AgentGets, AgentGotAll,
           AgentCancelled, AgentRefuses, TakesCommand, Takes, client
<1>2. CASE UNCHANGED locked
    BY <1>1, <1>2 DEF Service!vars
<1>3. CASE ~UNCHANGED locked
    <2>1. AgentGotAll
        BY <1>3 DEF AgentStep, AgentSets, AgentHas, AgentAsks, AgentSigns, AgentGets,
                    AgentCancelled, AgentRefuses
    <2>2. agent.asking \in {"TBSDATA", "CIPHERTEXT", "PASSPHRASE"}
        BY <2>1, GotAll
    <2>3. agent.asking = "PASSPHRASE" /\ locked' = locked \ {agent.sel}
        BY <1>3, <2>1, <2>2 DEF AgentGotAll
    <2>4. Service!Unlock
        BY <1>1, <2>1, <2>3, GotAll DEF Service!Unlock
    <2>5. QED BY <2>4 DEF Service!Next
<1>4. QED BY <1>2, <1>3

\* gpgagent.Client keeps the promise its callers rely on: an operation returns what
\* the agent made of that operation's own key and data, or fails; it asks for one
\* passphrase at most, and only for a locked key.
THEOREM ServesFaithfully == Spec => Faithful
<1>1. Init => Service!Init
    BY CallsAssumption DEF Init, Service!Init, Service!Open, Service!Outcome, Open, Outcome
<1>2. IInv /\ [Next]_vars => [Service!Next]_(Service!vars)
    <2> SUFFICES ASSUME IInv, [Next]_vars PROVE Service!Next \/ UNCHANGED Service!vars
        OBVIOUS
    <2>1. CASE UNCHANGED vars \/ Close \/ Cut \/ Closed
        BY <2>1 DEF vars, client, Close, Cut, Closed, Service!vars
    <2>2. ASSUME NEW c \in Calls, Begin(c) PROVE Service!Next
        <3>1. call = None /\ prompts = 0
            BY <2>2 DEF Begin, IInv, TypeOK, Conversation
        <3>2. Service!Begin
            BY <2>2, <3>1 DEF Begin, Service!Begin, Service!Calls, Calls
        <3>3. QED BY <3>2 DEF Service!Next
    <2>3. CASE Forget
        <3>1. Service!Forget
            BY <2>3, CallsAssumption DEF Forget, client, Service!Forget
        <3>2. QED BY <3>1 DEF Service!Next
    <2>4. QED BY <2>1, <2>2, <2>3, ClientServes, AgentServes DEF Next
<1>3. QED BY <1>1, <1>2, Invariance, PTL DEF Spec, Faithful, Service!Spec
=============================================================================
