------------------------------ MODULE AgentLink ------------------------------
(***************************************************************************)
(* The Assuan conversation of a gpgagent.Client with gpg-agent: commands   *)
(* and answers are lines on a socket, the agent may ask back in the middle *)
(* of a command, and either answer, refuse, or be gone, at any point.      *)
(***************************************************************************)
EXTENDS AgentCalls

CONSTANT MaxCalls   \* bound on the operations of one connection

ASSUME LinkAssumption == MaxCalls \in Nat /\ None \notin Calls \union {Open}

VARIABLES
    link,       \* the connection: "none", "up", or "cut" by the agent's end
    toAgent,    \* lines on their way to the agent
    toClient,   \* lines on their way to the client
    call,       \* the operation under way, or None
    step,       \* the command of its script that is next or under way
    mode,       \* what the client does: "idle", "dial", "greeting", "write" or "read"
    data,       \* the data lines of the command under way
    result,     \* the result of the last operation
    prompts,    \* passphrase prompts in this operation
    calls,      \* how many operations there have been
    agent,      \* the agent's side: [sel, hash, asking, got, product]
    locked      \* keys whose passphrase the agent does not know

lines  == <<toAgent, toClient>>
client == <<call, step, mode, data, result, prompts, calls>>
vars   == <<link, lines, client, agent, locked>>

Line(tag, arg) == [tag |-> tag, arg |-> arg]
Say(tag)       == Line(tag, None)

-----------------------------------------------------------------------------
(* The client.                                                              *)

\* The commands of an operation, in order; every caller gives a description
\* for SETKEYDESC.
Script(c) ==
    CASE c.op = "open" -> << Say("OPTION") >>
      [] c.op = "have" -> << Line("HAVEKEY", c.grip) >>
      [] c.op = "sign" ->
            << Say("RESET"), Line("SIGKEY", c.grip), Say("SETKEYDESC"),
               Line("SETHASH", c.data), Say("PKSIGN") >>
      [] c.op = "puresign" ->
            << Say("RESET"), Line("SIGKEY", c.grip), Say("SETKEYDESC"),
               Say("SETHASH--inquire"), Say("PKSIGN") >>
      [] c.op = "decrypt" ->
            << Say("RESET"), Line("SETKEY", c.grip), Say("SETKEYDESC"), Say("PKDECRYPT") >>

Command == Script(call)[step]

Init ==
    /\ link = "none" /\ toAgent = << >> /\ toClient = << >>
    /\ call = Open /\ step = 1 /\ mode = "dial"
    /\ data = << >> /\ result = Outcome("none", << >>) /\ prompts = 0 /\ calls = 0
    /\ agent = [sel |-> None, hash |-> None, asking |-> "nothing", got |-> << >>,
                product |-> None]
    /\ locked \in SUBSET Held

\* Mistake: the passphrase is asked for before the agent wants it.
BeginEager(c) ==
    /\ mode = "idle" /\ calls < MaxCalls
    /\ call' = c /\ step' = 1 /\ mode' = "write"
    /\ calls' = calls + 1
    /\ prompts' = IF c.op = "have" THEN 0 ELSE 1
    /\ UNCHANGED <<link, lines, data, result, agent, locked>>

\* The caller starts an operation.
Begin(c) ==
    /\ mode = "idle" /\ calls < MaxCalls
    /\ call' = c /\ step' = 1 /\ mode' = "write"
    /\ calls' = calls + 1
    /\ UNCHANGED <<link, lines, data, result, prompts, agent, locked>>

\* The operation returns r.
Ends(r) ==
    /\ call' = None /\ step' = 1
    /\ mode' = IF call.op = "open" /\ r = Failed THEN "closed" ELSE "idle"
    /\ data' = << >>
    /\ result' = r
    /\ prompts' = 0
    /\ UNCHANGED calls

\* Dial: the agent is there and greets the client, or it is not.
Dial ==
    /\ mode = "dial"
    /\ \/ /\ link' = "up"
          /\ \E greeting \in {"OK", "ERR"} : toClient' = << Say(greeting) >>
          /\ mode' = "greeting"
          /\ UNCHANGED <<call, step, data, result, prompts, calls>>
       \/ Ends(Failed) /\ UNCHANGED <<link, toClient>>
    /\ UNCHANGED <<toAgent, agent, locked>>

\* newConn: the greeting comes before the first command; after any other one
\* the client hangs up.
Greeting ==
    /\ mode = "greeting" /\ toClient # << >>
    /\ toClient' = Tail(toClient)
    /\ IF Head(toClient).tag = "OK"
       THEN mode' = "write" /\ UNCHANGED <<link, call, step, data, result, prompts, calls>>
       ELSE Ends(Failed) /\ link' = "cut"
    /\ UNCHANGED <<toAgent, agent, locked>>

\* Conn.Command: one line; on a connection that has been cut it may be lost
\* silently or be an error. hashName knows no name for some hashes: the
\* operation then ends before SETHASH is written.
Write ==
    /\ mode = "write"
    /\ \/ /\ mode' = "read" /\ data' = << >>
          /\ toAgent' = IF link = "up" THEN Append(toAgent, Command) ELSE toAgent
          /\ UNCHANGED <<call, step, result, prompts, calls>>
       \/ (link = "cut" \/ Command.tag = "SETHASH") /\ Ends(Failed) /\ UNCHANGED toAgent
    /\ UNCHANGED <<link, toClient, agent, locked>>

\* What a command without an error returns, and HaveKey's error.
Succeeded == CASE call.op = "open" -> Outcome("opened", data)
               [] call.op = "have" -> Outcome("held", << >>)
               [] OTHER            -> Outcome("done", data)
Refused   == IF call.op = "have" THEN Missing ELSE Failed

Incoming(tag) ==
    /\ mode = "read" /\ toClient # << >> /\ Head(toClient).tag = tag
    /\ toClient' = Tail(toClient)
    /\ UNCHANGED <<link, agent, locked>>

\* Mistake: the command after the last one.
ReadOKOneMore ==
    /\ Incoming("OK")
    /\ step' = step + 1 /\ mode' = "write" /\ UNCHANGED <<call, data, result, prompts, calls>>
    /\ UNCHANGED toAgent

\* readResponse, line by line.
ReadOK ==
    /\ Incoming("OK")
    /\ IF step = Len(Script(call)) THEN Ends(Succeeded)
       ELSE step' = step + 1 /\ mode' = "write" /\ UNCHANGED <<call, data, result, prompts, calls>>
    /\ UNCHANGED toAgent

ReadERR ==
    /\ Incoming("ERR")
    /\ Ends(Refused)
    /\ UNCHANGED toAgent

\* Mistake: only the last data line is kept.
ReadDataLast ==
    /\ Incoming("D")
    /\ data' = << Head(toClient).arg >>
    /\ UNCHANGED <<toAgent, call, step, mode, result, prompts, calls>>

ReadData ==
    /\ Incoming("D")
    /\ data' = Append(data, Head(toClient).arg)
    /\ UNCHANGED <<toAgent, call, step, mode, result, prompts, calls>>

\* Status lines, comments and lines of unknown kinds.
ReadOther ==
    /\ Incoming("S")
    /\ UNCHANGED <<toAgent, client>>

\* sendData: data lines, then END.
Sent(v) == [i \in 1..Len(Parts(v)) |-> Line("D", Parts(v)[i])] \o << Say("END") >>
Can     == << Say("CAN") >>

\* inquireHandler: the passphrase if the user gives one, the one piece of data
\* the command is about; Command has no handler for the other commands.
HasHandler == Command.tag \in {"SETHASH--inquire", "PKSIGN", "PKDECRYPT"}
Answers(keyword) ==
    CASE ~HasHandler            -> {Can}
      [] keyword = "PASSPHRASE" -> {Sent("right"), Sent("wrong"), Can}
      [] keyword = "TBSDATA"    -> {IF call.op = "decrypt" THEN Can ELSE Sent(call.data)}
      [] keyword = "CIPHERTEXT" -> {IF call.op = "decrypt" THEN Sent(call.data) ELSE Can}
      [] OTHER                  -> {Can}

\* Mistake: a cancelled inquiry ends the command at once.
ReadInquireReturns ==
    /\ Incoming("INQUIRE")
    /\ \E answer \in Answers(Head(toClient).arg) :
          /\ toAgent' = IF link = "up" THEN toAgent \o answer ELSE toAgent
          /\ IF answer = Can THEN Ends(Failed)
             ELSE /\ prompts' = prompts + (IF Head(toClient).arg = "PASSPHRASE" THEN 1 ELSE 0)
                  /\ UNCHANGED <<call, step, mode, data, result, calls>>

ReadInquire ==
    /\ Incoming("INQUIRE")
    /\ LET keyword == Head(toClient).arg
       IN  \/ /\ \E answer \in Answers(keyword) :
                    toAgent' = IF link = "up" THEN toAgent \o answer ELSE toAgent
              /\ prompts' = prompts + (IF HasHandler /\ keyword = "PASSPHRASE" THEN 1 ELSE 0)
              /\ UNCHANGED <<call, step, mode, data, result, calls>>
           \/ link = "cut" /\ Ends(Failed) /\ UNCHANGED toAgent

\* Mistake: the end of the connection is taken for a pause.
ReadEndWaits ==
    /\ mode \in {"greeting", "read"} /\ link = "cut" /\ toClient = << >>
    /\ UNCHANGED vars

\* Nothing more comes over a connection that has been cut.
ReadEnd ==
    /\ mode \in {"greeting", "read"} /\ link = "cut" /\ toClient = << >>
    /\ Ends(Failed)
    /\ UNCHANGED <<link, lines, agent, locked>>

ClientStep ==
    \/ Dial \/ Greeting \/ Write
    \/ ReadOK \/ ReadERR \/ ReadData \/ ReadOther \/ ReadInquire \/ ReadEnd

\* Client.Close.
Close ==
    /\ mode = "idle"
    /\ mode' = "closed" /\ link' = "cut"
    /\ toAgent' = << >> /\ toClient' = << >>
    /\ UNCHANGED <<call, step, data, result, prompts, calls, agent, locked>>

-----------------------------------------------------------------------------
(* gpg-agent, as far as the client depends on it: a key and a hash that stay *)
(* selected until the next RESET, inquiries, and passphrases it remembers.  *)

Takes(tag) ==
    /\ link = "up" /\ toAgent # << >> /\ Head(toAgent).tag = tag
    /\ toAgent' = Tail(toAgent)
    /\ UNCHANGED <<link, client>>

TakesCommand(tag) == Takes(tag) /\ agent.asking = "nothing"

Reply(answer) == toClient' = toClient \o answer
Pieces(v)     == [i \in 1..Len(Parts(v)) |-> Line("D", Parts(v)[i])]
Gathered      == CHOOSE v \in Payloads \union {"right", "wrong"} : Parts(v) = agent.got

\* The agent asks back.
Asks(keyword) ==
    /\ Reply(<< Line("INQUIRE", keyword) >>)
    /\ agent' = [agent EXCEPT !.asking = keyword, !.got = << >>]

\* The agent delivers v, the product of the selected key, or asks for the
\* passphrase first.
Delivers(v) == Reply(<< Say("S") >> \o Pieces(v) \o << Say("OK") >>)
Produces(v) ==
    CASE agent.sel \notin Held ->
            Reply(<< Say("ERR") >>) /\ agent' = [agent EXCEPT !.asking = "nothing"]
      [] agent.sel \in locked ->
            /\ Reply(<< Line("INQUIRE", "PASSPHRASE") >>)
            /\ agent' = [agent EXCEPT !.asking = "PASSPHRASE", !.got = << >>, !.product = v]
      [] OTHER -> Delivers(v) /\ agent' = [agent EXCEPT !.asking = "nothing"]

AgentSets ==
    /\ \/ TakesCommand("OPTION") /\ UNCHANGED agent
       \/ TakesCommand("SETKEYDESC") /\ UNCHANGED agent
       \/ TakesCommand("RESET") /\ agent' = [agent EXCEPT !.sel = None, !.hash = None]
       \/ /\ TakesCommand("SIGKEY") \/ TakesCommand("SETKEY")
          /\ agent' = [agent EXCEPT !.sel = Head(toAgent).arg]
       \/ TakesCommand("SETHASH") /\ agent' = [agent EXCEPT !.hash = Head(toAgent).arg]
    /\ Reply(<< Say("OK") >>)
    /\ UNCHANGED locked

AgentHas ==
    /\ TakesCommand("HAVEKEY")
    /\ Reply(<< Say(IF Head(toAgent).arg \in Held THEN "OK" ELSE "ERR") >>)
    /\ UNCHANGED <<agent, locked>>

AgentAsks ==
    /\ \/ TakesCommand("SETHASH--inquire") /\ Asks("TBSDATA")
       \/ TakesCommand("PKDECRYPT") /\ Asks("CIPHERTEXT")
       \/ (TakesCommand("PKSIGN") \/ TakesCommand("OPTION")) /\ Asks("SOMETHING")
    /\ UNCHANGED locked

AgentSigns ==
    /\ TakesCommand("PKSIGN") /\ agent.hash # None
    /\ Produces(Signed(agent.sel, agent.hash))
    /\ UNCHANGED locked

\* Data for an inquiry, line by line.
AgentGets ==
    /\ Takes("D") /\ agent.asking # "nothing"
    /\ agent' = [agent EXCEPT !.got = Append(@, Head(toAgent).arg)]
    /\ UNCHANGED <<toClient, locked>>

AgentGotAll ==
    /\ Takes("END")
    /\ CASE agent.asking = "TBSDATA" ->
              /\ Reply(<< Say("OK") >>)
              /\ agent' = [agent EXCEPT !.hash = Gathered, !.asking = "nothing"]
              /\ UNCHANGED locked
        [] agent.asking = "CIPHERTEXT" ->
              Produces(Decrypted(agent.sel, Gathered)) /\ UNCHANGED locked
        [] agent.asking = "PASSPHRASE" ->
              /\ IF Gathered = "right"
                 THEN Delivers(agent.product) /\ locked' = locked \ {agent.sel}
                 ELSE Reply(<< Say("ERR") >>) /\ UNCHANGED locked
              /\ agent' = [agent EXCEPT !.asking = "nothing"]

AgentCancelled ==
    /\ Takes("CAN") /\ agent.asking # "nothing"
    /\ Reply(<< Say("ERR") >>)
    /\ agent' = [agent EXCEPT !.asking = "nothing"]
    /\ UNCHANGED locked

\* The agent refuses a command, because it cannot or does not know it.
AgentRefuses ==
    /\ agent.asking = "nothing"
    /\ toAgent # << >> /\ Takes(Head(toAgent).tag)
    /\ Reply(<< Say("ERR") >>)
    /\ UNCHANGED <<agent, locked>>

AgentStep ==
    \/ AgentSets \/ AgentHas \/ AgentAsks \/ AgentSigns
    \/ AgentGets \/ AgentGotAll \/ AgentCancelled \/ AgentRefuses

\* The agent goes away; what it had sent may still arrive, or part of it.
Cut ==
    /\ link = "up" /\ link' = "cut"
    /\ toAgent' = << >>
    /\ \E n \in 0..Len(toClient) : toClient' = SubSeq(toClient, 1, n)
    /\ UNCHANGED <<client, agent, locked>>

\* A passphrase drops out of the agent's cache.
Forget ==
    /\ link = "up"
    /\ \E g \in Held : locked' = locked \union {g}
    /\ UNCHANGED <<link, lines, client, agent>>

-----------------------------------------------------------------------------
Closed == mode = "closed" /\ UNCHANGED vars

Next == ClientStep \/ AgentStep \/ (\E c \in Calls : Begin(c)) \/ Close \/ Cut \/ Forget \/ Closed

Spec == Init /\ [][Next]_vars

\* The client goes on, and the agent answers for as long as it is there.
FairSpec == Spec /\ WF_vars(ClientStep) /\ WF_vars(AgentStep)

-----------------------------------------------------------------------------
(* Properties.                                                              *)

TypeOK ==
    /\ link \in {"none", "up", "cut"}
    /\ mode \in {"idle", "dial", "greeting", "write", "read", "closed"}
    /\ call \in Calls \union {Open, None}
    /\ step \in 1..(IF call = None THEN 1 ELSE Len(Script(call)))
    /\ (call = None) = (mode \in {"idle", "closed"})
    /\ calls \in 0..MaxCalls /\ prompts \in 0..1 /\ locked \subseteq Held
    /\ agent.sel \in Grips \union {None} /\ agent.hash \in Payloads \union {None}
    /\ agent.asking \in {"nothing", "TBSDATA", "CIPHERTEXT", "PASSPHRASE", "SOMETHING"}

\* readResponse reads every command to its end, whatever the agent inquires
\* and the user cancels: between two operations nothing is left on the
\* connection that the next one could take for its own answer.
InStep ==
    mode = "idle" /\ link = "up" =>
        toAgent = << >> /\ toClient = << >> /\ agent.asking = "nothing"

\* Client.Sign and Client.Decrypt: an operation returns what the agent made of
\* its own key and data, or fails; the user is prompted once at most in an
\* operation, and only for a locked key.
Service == INSTANCE AgentService
Faithful == Service!Spec

\* Every operation returns, also when the agent is lost half-way.
Returns == (call # None) ~> (call = None)
=============================================================================
