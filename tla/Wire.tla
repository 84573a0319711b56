-------------------------------- MODULE Wire --------------------------------
(***************************************************************************)
(* S-expressions on their two ways: into a key file and out of it again,   *)
(* and over the connection to gpg-agent.                                   *)
(*                                                                         *)
(* A key file is written by this program (a key, protected or not), by     *)
(* gpg-agent (the same key in its own layout), by an older GnuPG (in       *)
(* canonical form with no text around it, and in a protection mode of its  *)
(* own) or for a card (a stub, in canonical form as well).  The save may   *)
(* be cut off, and somebody may change a public parameter.  Then the file  *)
(* is classified and read, and opened with some passphrase.                *)
(*                                                                         *)
(* Over the connection goes a ciphertext (the client cuts the lines) or a  *)
(* result (the agent cuts them, with status lines and comments between     *)
(* them); the receiver decodes line by line, and the client takes what it  *)
(* asked for out of a result.                                              *)
(***************************************************************************)
EXTENDS AgentKey, DataLines

CONSTANTS Keys,        \* [algo, clear, secret]
          Passphrases,
          Exchanges    \* what goes over the connection: [by, kind, values]

VARIABLES trip,   \* what is written, by whom: [by, key, pass] or [by, kind, values]
          pc,
          file,   \* the text of the key file
          cut,    \* the save was cut off
          node,   \* the tree in the file as it is now, or the one sent
          key,    \* what was read from it
          tag,    \* what it was classified as
          secret, \* what a passphrase opened
          tried,  \* with which one
          unsent, \* encoded bytes the sender still holds
          lines,  \* lines under way
          data,   \* decoded bytes the receiver has
          result  \* what the client takes out of them

vars == <<trip, pc, file, cut, node, key, tag, secret, tried, unsent, lines, data, result>>
fileVars == <<file, cut, node, key, tag, secret, tried>>
lineVars == <<unsent, lines, data, result>>

Client == "client"
Agent == "agent"

\* Older versions of GnuPG protect keys in a mode this program does not read.
NodeOf(k) ==
  CASE trip.pass = NoPass -> PrivateNode(k)
    [] trip.pass # NoPass /\ trip.by = "older" -> ProtectedNode(k, "openpgp-s2k3-sha1-aes-cbc")
    [] OTHER -> ProtectedNode(k, OCB)

CardNode(k) ==
  L(<<S("shadowed-private-key"),
      L(<<S(k.algo)>> \o ParamNodes(k.clear) \o <<L(<<S("shadowed"), S("t1-v1"), L(<<A(Nonce)>>)>>)>>)>>)

\* gpg-agent's layout: a line per item, and long hexadecimal text wrapped.
RECURSIVE Spread(_)
Spread(n) ==
  IF IsAtom(n)
    THEN IF AdvancedAtom(n.atom)[1] # "#" THEN AdvancedAtom(n.atom)
         ELSE <<"#">> \o FlattenSeq([k \in DOMAIN n.atom |-> HexOf[n.atom[k]] \o <<"\n", " ">>]) \o <<"#">>
  ELSE <<"(">> \o FlattenSeq([k \in DOMAIN n.list |->
                    (IF k > 1 /\ IsAtom(n.list[k]) THEN <<"\n", " ">> ELSE <<>>) \o Spread(n.list[k])]) \o <<")">>

Bare == {"older", "card"} \* who writes no text around the tree

TextOf(by, n) ==
  CASE by = "own" -> Serialize(n)
    [] by = "gpg-agent" -> Wrapper \o Spread(n) \o <<"\n">>
    [] by \in Bare -> Canonical(n)

\* The ciphertext as decryptECDHPKESK sends it.
EncVal(values) ==
  L(<<S("enc-val"), L(<<S("ecdh"), L(<<S("s"), A(values[1])>>), L(<<S("e"), A(values[2])>>)>>)>>)

\* The agent's results.
ResultNode(kind, values) ==
  CASE kind = "value" -> L(<<S("value"), A(values[1])>>)
    [] kind = "eddsa" -> L(<<S("sig-val"), L(<<S("eddsa"), L(<<S("r"), A(values[1])>>),
                                               L(<<S("s"), A(values[2])>>)>>)>>)
    [] kind = "rsa"   -> L(<<S("sig-val"), L(<<S("rsa"), L(<<S("s"), A(values[1])>>)>>)>>)

TheSeal == Protect(trip.key, trip.pass)

InitTrips ==
  [by : {"own", "gpg-agent", "older"}, key : Keys, pass : Passphrases \cup {NoPass}]
    \cup [by : {"card"}, key : Keys, pass : {NoPass}]
    \cup Exchanges

Init ==
  /\ trip \in InitTrips
  /\ pc = IF trip.by \in {Client, Agent} THEN "sending" ELSE "saving"
  /\ node = CASE trip.by = Client -> EncVal(trip.values)
              [] trip.by = Agent -> ResultNode(trip.kind, trip.values)
              [] trip.by = "card" -> CardNode(trip.key)
              [] OTHER -> NodeOf(trip.key)
  /\ file = <<>> /\ cut = FALSE /\ key = Refused /\ tag = Refused
  /\ secret = Refused /\ tried = NoPass
  /\ unsent = IF trip.by \in {Client, Agent} THEN PercentEncode(Canonical(node)) ELSE <<>>
  /\ lines = <<>> /\ data = <<>> /\ result = Refused

\* As a plausible slip writes it: a file that cannot be read has no marker.
SecretKeyStatusAny(t) == IF t = "shadowed-private-key" THEN ">" ELSE " "

\* The marker behind "sec" and "ssb": for a file's tag, or none.
SecretKeyStatus(t) ==
  CASE t = Refused -> "#" [] t = "shadowed-private-key" -> ">" [] OTHER -> " "

(***************************************************************************)
(* The key file.                                                           *)
(***************************************************************************)
Save ==
  /\ pc = "saving"
  /\ pc' = "saved"
  /\ file' = TextOf(trip.by, node)
  /\ UNCHANGED <<trip, cut, node, key, tag, secret, tried, lineVars>>

\* The process or the disk ends before the text does.
CutOff ==
  /\ pc = "saving"
  /\ pc' = "saved" /\ cut' = TRUE
  /\ LET text == TextOf(trip.by, node)
     IN  \E n \in 0 .. Len(text) - 1 : file' = SubSeq(text, 1, n)
  /\ UNCHANGED <<trip, node, key, tag, secret, tried, lineVars>>

\* A parameter anybody may read is changed; the seal is the one it was.
Change ==
  /\ pc = "saved" /\ ~cut /\ trip.by # "card" /\ node = NodeOf(trip.key)
  /\ LET other == [trip.key EXCEPT !.clear = [@ EXCEPT ![Len(@)].value = <<"n", "x">>]]
     IN  /\ node' = NodeOf(other)
         /\ file' = TextOf(trip.by, node')
  /\ UNCHANGED <<trip, pc, cut, key, tag, secret, tried, lineVars>>

ReadFile ==
  /\ pc = "saved"
  /\ pc' = "read"
  /\ key' = ParseKey(file)
  /\ tag' = Tag(file)
  /\ UNCHANGED <<trip, file, cut, node, secret, tried, lineVars>>

Open(pass) ==
  /\ pc = "read" /\ key # Refused
  /\ pc' = "open"
  /\ tried' = pass
  /\ secret' = IF key.mode = "" THEN key.secret ELSE Unprotect(key, pass, TheSeal)
  /\ UNCHANGED <<trip, file, cut, node, key, tag, lineVars>>

(***************************************************************************)
(* The connection.                                                         *)
(***************************************************************************)
SendLine(n) ==
  /\ pc = "sending" /\ unsent # <<>>
  /\ lines' = Append(lines, <<"D", " ">> \o SubSeq(unsent, 1, n))
  /\ unsent' = SubSeq(unsent, n + 1, Len(unsent))
  /\ UNCHANGED <<trip, pc, data, result, fileVars>>

ClientLine == trip.by = Client /\ SendLine(CutAt(unsent))

AgentLine ==
  /\ trip.by = Agent /\ lines = <<>>
  /\ \E n \in 1 .. CutAt(unsent) : Whole(unsent, n) /\ SendLine(n)

\* Lines between the data; one line of the agent's at a time is under way.
AgentRemark ==
  /\ trip.by = Agent /\ pc = "sending" /\ unsent # <<>> /\ lines = <<>>
  /\ \E remark \in {<<"D">>, <<"S", " ", "n">>, <<"#", "n">>, <<"n">>} : lines' = <<remark>>
  /\ UNCHANGED <<trip, pc, unsent, data, result, fileVars>>

ReceiveLine ==
  /\ pc = "sending" /\ lines # <<>>
  /\ lines' = Tail(lines)
  /\ data' = IF Len(Head(lines)) > 1 /\ SubSeq(Head(lines), 1, 2) = <<"D", " ">>
               THEN data \o PercentDecode(SubSeq(Head(lines), 3, Len(Head(lines)))) ELSE data
  /\ UNCHANGED <<trip, pc, unsent, result, fileVars>>

\* decryptValueBytes, and parseEdDSASigVal or parseRSASigVal for the parts names.
ValueBytes(n) ==
  IF IsList(n) /\ Len(n.list) = 2 /\ n.list[1] = S("value") /\ AtomAt(n, 2)
    THEN <<n.list[2].atom>> ELSE Refused

SigVal(n, names) ==
  IF ~IsList(n) \/ Len(n.list) # 2 \/ n.list[1] # S("sig-val") \/ ~IsList(n.list[2]) THEN Refused
  ELSE LET parts == [k \in DOMAIN names |-> FindList(n.list[2], names[k])]
       IN  IF \E k \in DOMAIN parts : parts[k] = Refused \/ ~AtomAt(parts[k], 2) THEN Refused
           ELSE [k \in DOMAIN parts |-> parts[k].list[2].atom]

\* END from the client; OK from the agent, whose result is taken apart.
End ==
  /\ pc = "sending" /\ unsent = <<>> /\ lines = <<>>
  /\ pc' = "received"
  /\ result' = IF trip.by = Client \/ Parse(data) = Refused THEN Refused
               ELSE CASE trip.kind = "value" -> ValueBytes(Parse(data))
                      [] trip.kind = "eddsa" -> SigVal(Parse(data), <<"r", "s">>)
                      [] trip.kind = "rsa"   -> SigVal(Parse(data), <<"s">>)
  /\ UNCHANGED <<trip, unsent, lines, data, fileVars>>

Next ==
  \/ Save \/ CutOff \/ Change \/ ReadFile
  \/ \E pass \in Passphrases \cup {NoPass} : Open(pass)
  \/ ClientLine \/ AgentLine \/ AgentRemark \/ ReceiveLine \/ End

Spec == Init /\ [][Next]_vars

(***************************************************************************)
(* Properties.                                                             *)
(***************************************************************************)

\* A tree that is saved is the tree that is read, in each layout and whatever
\* its values look like; a file with no text around its tree is classified and
\* not read as a key; one that ends early is neither, unless all it has lost is
\* the line end (parse.go:63-82, sexp.go:107-173, file.go:129-141).
TextReadBack ==
  /\ pc \in {"saved", "received"} => Parse(Canonical(node)) = node /\ Parse(Advanced(node)) = node
  /\ pc = "read" =>
       IF cut /\ Len(file) < Len(TextOf(trip.by, node)) - (IF trip.by \in Bare THEN 0 ELSE 1)
         THEN key = Refused /\ tag = Refused
         ELSE /\ tag = node.list[1].atom[1]
              /\ (key = Refused) = (trip.by \in Bare)

\* What the listing says of a key is what unlocking finds, unless the file is
\* an older GnuPG's: no marker for a file that is read as a key, ">" for a
\* card's stub, "#" for a file that is cut off or not there (keystore.go:113-132
\* and 283-293).  An older GnuPG's file, without "Key: ", is listed like any
\* other, and no command reads it (file.go:131-134 and 176-182).
MarkerTells ==
  pc \in {"saving", "read", "open"} =>
    LET marker == SecretKeyStatus(tag)
    IN  /\ (marker = " ") = (key # Refused \/ (trip.by = "older" /\ tag # Refused))
        /\ trip.by = "older" => key = Refused
        /\ (marker = ">") = (trip.by = "card" /\ tag # Refused)
        /\ (marker = "#") = (pc = "saving" \/ (tag = Refused /\ cut))

\* A key comes out of its file with the parameters it went in with, the
\* secret ones for its own passphrase only; a file whose public parameters
\* were changed does not open at all (protect.go:109-224).
KeyOpens ==
  pc = "open" =>
    LET changed == node # NodeOf(trip.key)
    IN  /\ key.algo = trip.key.algo
        /\ changed \/ key.clear = trip.key.clear
        /\ secret = IF trip.pass = NoPass \/ (tried = trip.pass /\ ~changed)
                      THEN trip.key.secret ELSE Refused

\* No line is longer than the limit; what the agent receives is what the client
\* sent if no cut of the client's fell inside an escape, and is not if one did;
\* what the client receives is what was sent, and it takes a result's values
\* for what they are (assuan.go:66-181, agentsign.go:305-340).
CutInEscape ==
  LET encoded == PercentEncode(Canonical(node))
  IN  \E k \in DOMAIN encoded :
        encoded[k] = "%" /\ (k - 1) \div MaxLineData # (k + 1) \div MaxLineData

LinesDecoded ==
  /\ \A k \in DOMAIN lines : Len(lines[k]) <= MaxLineData + 2
  /\ pc = "received" /\ trip.by = Client => (data = Canonical(node)) = ~CutInEscape
  /\ pc = "received" /\ trip.by = Agent => data = Canonical(node) /\ result = trip.values
=============================================================================
