# Specifications of gpg-go

gpg-go is a command line program that works on a GnuPG home directory: it
generates, imports, exports and deletes keys, encrypts, signs, decrypts and
verifies, and hands operations on secret keys to gpg-agent when the agent has
the key. This directory holds TLA+ models of its parts, the TLC runs that check
them on small instances, and proofs, checked by TLAPS, about the key store,
decryption, verification, encryption and signing, the conversation with the
agent, the options and the questions, for instances of any size. Paths below are
relative to `internal/` of the repository.

## The system

A run of gpg-go is one process executing one command. It keeps no state between
runs but the files of the home directory; two processes may work on one home
directory at once, and nothing locks it. What makes the program hard is not
inside one function: it is what two processes, a process and the agent, or a
configuration file and a command line make of each other.

| component | state | operations | talks to |
|---|---|---|---|
| **key store** `keystore/keystore.go`, `kbx/file.go` | `pubring.kbx`, one file per secret key in `private-keys-v1.d`; in memory the blobs of the keybox | open, add and delete a public key, save, add and delete secret keys, attach secret keys | the file system; all commands |
| **key commands** `gpgcli/{genkey,exportimport,deletekey}.go` | key blocks still to be imported, key files still to be written or removed | generate, import, delete | key store, the user's passphrase |
| **decryption** `gpgcli/decrypt.go`, `opsutil/agentdecrypt.go` | the agent candidates and key files not tried yet | agent first, then the named recipients' files, then all files | key store, agent client, OpenPGP library |
| **encryption and signing** `gpgcli/{encrypt,sign,resolve}.go`, `opsutil/{hidden,agentsign}.go` | recipients with their visibility, the signer | resolve, pick a signer, find a key in the agent, seal | key store, agent client, OpenPGP library |
| **agent client** `gpgagent/*.go` | a connection, and in the agent the selected key, the hash and an open inquiry | HAVEKEY, PKSIGN, PKDECRYPT, inquiries and passphrase prompts | gpg-agent |
| **options** `gpgcli/{parse,config}.go` | the `Options` record | look for gpg.conf, apply it, parse the command line | the dispatcher `gpgcli/run.go` |
| **verification** `gpgcli/verify.go` | none | detached, cleartext and embedded signatures | key store, OpenPGP library |
| **questions and output** `gpgcli/{genkey,passphrase,symmetric,io}.go`, `opsutil/keygen.go` | what is left of standard input, the answers so far | ask, read a passphrase, look for and write the output file | options; key store |
| **key blocks and keybox format** `pgppacket/walk.go`, `keystore/{parse,sanitize}.go`, `kbx/*.go` | none | walk over packets, repair a block, build and read blobs | key store, OpenPGP library |
| **key files and S-expressions** `agentkey/*.go`, `sexp/*.go` | none | write, read, protect and unprotect a key; classify a file | key store; agent client |
| **the rest** `gpgcli/{listkeys,listpackets,help}.go`, `keystore/display.go`, `pgpdump`, `keygrip` | none | list, dump, hash | |

The behaviours that are hard, and the properties that make each part correct:

* *Key store.* Read-modify-write of the keybox by several processes, each with
  its own copy; `os.WriteFile` truncates before it fills; secret key files are
  written one at a time; an I/O error or a kill between any two steps. Correct
  means: no duplicate entries, no unreadable keybox or key file without a cause,
  nobody else's certificate lost by a command that was alone, and, one command
  at a time, imports and deletions that take effect as announced.
* *Decryption.* Hidden recipients' packets name no key, so every key is a
  candidate for them; keys are in files, in the agent, on a card that is pulled
  out meanwhile; passphrases are known or not. Correct means: the agent first,
  no key tried twice on a packet (each try may cost a touch), and no message
  given up while a key that opens it is at hand.
* *Encryption and signing.* The same certificate may be named several times by
  visible and hidden options; signing has five forms, each with a way through
  the agent and one through the files. Correct means: exactly the recipients
  asked for, each as visible as the last option says, a signature if and only if
  asked for, by the signer asked for; and a signature that its reader finds good,
  over the text its reader gets back.
* *Agent client.* The agent may ask back inside a command, refuse, or be gone;
  the selected key stays selected in the agent. Correct means: each operation
  gets the answer for its own key and data, or fails, and the conversation stays
  in step.
* *Options.* The command line is read twice by different rules, with gpg.conf in
  between. Correct means: the gpg.conf of the right directory, the command line
  over gpg.conf, no argument lost.
* *Verification.* A signature comes in three forms, the data of a detached one
  from a file named, a file guessed or standard input; a file may hold the
  signatures of several people; two commands verify, each in its own way. Correct
  means: "good" only of a signature by a key of the keybox over the data given,
  and no two verdicts that contradict each other.
* *Questions and output.* Every question reads standard input through a buffer
  of its own; numbers are converted to 32 bits; an output file may appear after
  it was looked for. Correct means: what the user typed is what is done, and
  nothing is overwritten without a word from the user.
* *Formats.* Lengths and offsets come from files that were written by other
  programs, cut off, or changed; the repair of a key block drops packets; random
  bytes of a key look like syntax. Correct means: what was written is read,
  exactly; what was cut off or changed is refused; a repair takes nothing that
  is in its place.

## Modules

| module | what it is |
|---|---|
| `KeyData` | certificates, keygrips, key files, commands and their inputs; the pure functions of the store on them |
| `KeyStore` | the store and the processes on it, step by step, with faults |
| `KeyRing` | abstract: what one command does to the public and the secret keys |
| `KeyStoreSerial` | `KeyStore` with commands one after another; implements `KeyRing` |
| `KeyStoreProofs` | the theorems about `KeyStore` and `KeyStoreSerial` |
| `KeyValues`, `MCKeyStore`, `MCKeyStoreSerial` | small instances |
| `SequenceLemmas`, `MailLemmas` | lemmas on lists, and on the keys of certificates, that the proofs share |
| `MailData` | certificates and keys with algorithms, messages; what the agent supports |
| `Secrets` | key files and gpg-agent as one command finds them; unlocking |
| `Decrypt`, `MCDecrypt` | `--decrypt` |
| `DecryptProofs`, `SealProofs`, `AgentLinkProofs` | the theorems about `Decrypt` and `Verify`, `Seal` and `SignedText`, and `AgentLink` |
| `Seal`, `MCSeal` | `-e`, `-s`, `-se`, `-b`, `--clearsign` |
| `SignedText`, `MCSignedText` | what was signed and what a reader makes of it, on top of `Seal` |
| `AgentCalls` | the client's operations and their outcomes |
| `AgentService` | abstract: one call, one result, at most one prompt |
| `AgentLink`, `MCAgentLink` | the Assuan conversation, line by line; implements `AgentService` |
| `Options`, `MCOptions` | gpg.conf and the command line |
| `Dialogue`, `MCDialogue` | the commands that ask, on top of `Options`: questions, passphrases, the output file |
| `DialogueProofs` | the theorems about `Options` and `Dialogue` |
| `Verify`, `MCVerify` | `--verify`, and `--decrypt` of the same input after it, on top of `Decrypt` |
| `PacketWalk` | OpenPGP packets in a byte stream, their headers byte by byte, and `pgppacket.Walk` |
| `Sanitize` | the repair of a key block |
| `Keybox` | blobs field by field, written and read |
| `KeyBlock`, `MCKeyBlock` | a key block from the import to the next command's reading of the keybox |
| `BlockProofs` | the theorems about `PacketWalk`, `Sanitize`, `Keybox` and `KeyBlock` |
| `Sexp` | S-expressions: both written forms and the parser |
| `AgentKey` | the text of key files, protection, classification |
| `DataLines` | the encoding and cutting of Assuan data lines |
| `Wire`, `MCWire` | a key file from its writing to its unlocking, a ciphertext or a result on the connection |

`Decrypt` and `Seal` extend `Secrets` and use the agent as `AgentService`
promises it: an operation on a key in one step, done or refused. `AgentLink`
shows that the conversation keeps that promise. They take the home directory as
one command finds it, since neither writes to it; what several commands do to
it is the business of `KeyStore`.

The modules of formats model what `KeyStore` takes for granted: that a keybox
and a key file are whole, cut off, or what was written (`KeyBlock`, `Wire`), and
that a key file opens with its own passphrase only (`KeyOpens`). `AgentLink`
takes a line's payload for what was sent; `DataLines` and `Wire` model that.

### KeyStore

`box` is the keybox as a sequence of entries `[fpr, n]`, a certificate with
the first `n` of its keys, or `Torn` when `kbx.Parse` would reject it (an entry
cut in two). `sec[g]` is the key file of keygrip `g`: absent, cut off, a
smartcard stub, unprotected, or protected with a passphrase. A process has a
program counter whose values are the places between two effects on the disk:

* `Open` reads the keybox (`mem` is the copy), `ImportPublic`, `ImportSecret`
  and `ImportRefused` are one turn of cmdImport's loop, `CreateKey` and
  `FillKey` the two halves of writing a key file, `TruncateBox` and `WriteBox`
  the two halves of writing the keybox, `Find` and `RemoveKey` a deletion,
  `Probe` and `Attach` the two passes over the key files by unlockKey. Key
  generation is an import of the key just made: both call AddSecretKey and
  SavePublic.
* `IOError`, `BoxWriteError`, `KeyWriteError` and `Kill` may strike at any step,
  `MaxFaults` times in all. A partial write leaves a prefix of the new keybox,
  with or without the rest of an old one over which it went (`Overlay`).
* Two processes inside SavePublic write over each other's file. The outcomes of
  that are those of `os.WriteFile` on one inode: the last writer's bytes with a
  tail of the longer one, or an entry cut in two.

`clash`, `fresh` and `faults` are history variables that the properties are
stated with; no step of the program reads them.

`KeyRing` says what a user expects of a command: an import enters all
certificates of its input or none, secret keys along; a deletion removes what it
names; a refused import leaves the public keys alone (but not the secret ones:
see the findings); an interrupted command tears at most one file and touches no
key but its own, and the keybox only when all its key files are in place. The
refinement mapping of `KeyStoreSerial` shows the disk as it is between commands.

### Decrypt, Seal and Secrets

A key's file is absent, a stub, open or locked; a certificate's passphrase is
known to the user (`willing`) or not. An agent is up or not, holds keys (HAVEKEY
says yes), has some of them ready (the card is in the reader) and some unlocked.
`PullCard`, `AgentDies` and `Fault` take a card or the agent away at any step.
The cryptography is one fact: a packet opens with its own key and no other, and
the agent decrypts only with keys on curve 25519 and signs with Ed25519 and RSA
keys, as the code checks.

`Decrypt` follows cmdDecrypt: `Symmetric`, `Signed`, `Plain` and `Encrypted`
sort the message; `Dial`, `HaveKey`, `TryExact` and `Scan` are the agent's
candidates, each first on the packet that names it and then on the hidden ones;
`Local`, `Unlock`, `UnlockRefused` and `OpenMessage` are the key files. `Finish`
is what comes of the data once it can be had: it is written with a report on its
signature, or it cannot be read (`legible`: cut off, or for a cipher the program
does not know). Which public keys a signature is checked with depends on the way:
none for a message that is not encrypted, all of them behind the agent, those of
the unlocked keys behind the key files. `calls` records what the agent was asked,
`agentError` that it refused.

`Seal` follows cmdEncrypt, cmdSign, cmdDetachSign and cmdClearSign: `Resolve`
takes a recipient option per step, `Pick` the signer, `Dial` and `HaveKey` look
for a signing key in the agent, `AgentSeal` and `Seal` write. The agent may refuse
at `AgentSeal`, and so may the client, for a hash that has no name for SETHASH.
`LibraryRefuses` is
the OpenPGP library refusing to sign for a certificate whose primary key is
not unlocked: the library is not part of the repository, so a refusal and a
signature are both allowed.

### SignedText

`Seal` says who signs, and whether in the agent or with a key file; `SignedText`
goes on where it ends and says what. A text is a sequence of lines with their
ends, trailing blanks and a leading dash. `AgentSignData` and `AgentClearSign`
are agentSign for the three forms and for `-se`, with what is written around the
text; `SignData` and `ClearSign` are the ways through the library; `ReadData` and
`VerifyClearSigned` are the readers. `PickHash` is the choice of the hash,
`HashNames` are the hashes the agent can be told of (`Unasked`: it is not asked for
a signature over another one), and `Strong` are those a reader accepts. `MPI`
and `ReadMPIs` are mpiField. `Carry` is what mail and editors do to a text on its
way. What the library does is modelled from how the code uses it and from
RFC 4880: a text signature hashes lines that end in CR and LF; a reader of
cleartext takes "- " and trailing blanks off each line. Whether a signer takes
the blanks off as well, as a comment of agentSign says (`opsutil/agentsign.go:105`),
is left open (`trims`). A command without an input (`Unread`) ends where `Seal`
ends.

### AgentLink

The client's state is that of `Conn.Command` and `readResponse`; the lines in
both directions are queues; the agent's selected key, hash and open inquiry are
modelled from how the client uses them. A long answer is two data lines. The
client itself may give an operation up in front of SETHASH, for a hash without a
name. The
agent may go away between any two lines (`Cut`), and some of what it sent may
still arrive. `Forget` lets a passphrase drop out of the agent's cache.

### Options

A word of the command line is a long option, one with `=value`, a cluster of
short ones, `--`, or plain. `PrescanWord` is prescanForConfig, which looks for
`--homedir`, `--options` and `--no-options` only; `ConfigLine` applies a line of
gpg.conf; the `Parse` actions are the cases of parseInto. One option of every
kind that matters is there: commands, `-s`, which is a command only when there is
none, the listing options, which are likewise, options with a value, flags,
ignored options with and without a value, and unknown ones.

### Dialogue

`Dialogue` goes on where `Options` ends, with the options of the command line
for `--gen-key`, `--quick-gen-key` and `--symmetric`. Standard input is a
sequence of bursts, lines that arrive together. A question (`Answer`) makes a
buffered reader that takes a whole burst and gives out its first line; the
others are gone, and the next question waits for another burst or finds
the end (`AnswerMissing`). On a terminal every line is a burst of its own. `typed`
has the first lines of the bursts, which are all that can be heard.
`After` is the order of the questions, `Generate` what the answers become:
algorithm, size, lifetime, user ID. `ResolvePassphrase` is the order of its
sources. `Look`, `Appear` and `Write` are writeOutput, with another process
making the file before or after the look.

### Verify

`input` says what the user gives to `--verify`: a message, who else has signed
it, how many arguments, and what three places hold: the file named second, the
file the signature is named after, and standard input.
`Arguments` sorts it as cmdVerify does, `ReadContent` finds the data of a
detached signature (`Given`: the file named second if there is one; `Derived`: the
one deriveDataFilename finds, else standard input), `CheckDetached`, `CheckClear`
and `CheckMessage` ask the library. Then `ThenDecrypt` gives the same arguments to
cmdDecrypt, in the module `Decrypt`, which looks at the first one only and takes
`Derived` for the data whatever was named second. The library checks the first
signature whose key it was given
(`FirstKnown`); of a message with two embedded signatures, either.

### KeyBlock, with PacketWalk, Sanitize and Keybox

A stream is a sequence of pieces, each a packet as some program wrote it: one
of the six encodings of a length (or one the code has to refuse), a tag, a
length, and the first bytes of the body. `Walk` reads it byte by byte, with Go's
conditions on the length of the input. `Sanitize` folds over the packets as
sanitizeKeyblock does. A keybox is a sequence of fields with sizes; `At` and
`Cutout` read bytes of it, and give garbage where a field is cut, so an offset
that is off by one is noticed. `Parse` is a loop (`ParseNext` is one turn of it), and
so are the offsets of the fields (`Ends`) and the additions to the list of blobs
(`AddAll`): each is a recursive function over a range of numbers. `KeyBlock` follows a block through ParseKeys
(`StrictParse`, `Repair`, `Retry`), AddPublic and SavePublic (`Save`, cut off
anywhere around a blob's first and last fields), and the next command's
`Open`. The library reads the stream by itself (`LibraryPackets`), in two
forms more than `Walk`: a body in chunks and one of indefinite length. It skips
what is in front of the first primary key, takes a key to go up to the next one,
and drops keys it cannot read as long as there is one that it can: which keys those
are is nondeterministic (`Readings`: any of them, but at least one, or an error).
`keys` are the blocks it writes out again, and what AddPublic stores.

### Wire, with Sexp, AgentKey and DataLines

A text is a sequence of characters, each for a class of bytes that the code
tells apart: a control character, a letter that is a hexadecimal digit, one that
is not, a digit, a bracket, and so on. Words that are only compared are one
character. A key file is written by this program, by gpg-agent (wrapped lines
behind "Key: "), by an older GnuPG (the bare canonical expression, and another
protection mode) or for a card (a stub, bare as well); `CutOff` ends the
save at any character; `Change` changes a public parameter under the old seal;
`ReadFile` classifies and parses it; `Open` tries a passphrase. On the connection
`ClientLine` cuts where sendData does, `AgentLine` anywhere but inside an escape,
`AgentRemark` puts status lines and comments between; `ReceiveLine` decodes line
by line and `End` takes the result apart.

## Runs

| run | instance | what it shows |
|---|---|---|
| `keystore_race` | two processes, any command, three certificates (one of two keys, one to be generated), two start keyboxes, one passphrase, one fault | `OneEntryPerKey`, `TornBoxExplained`, `TornKeyInHand`, `SaveKeepsOthers`, `Terminates` |
| `keystore_contract` | three commands in a row, two passphrases, three import files (an old copy, two secret keys, subkeys alone before a public key), one fault | `KeepsPromises` (refinement of `KeyRing`), `UnlockExact` |
| `keystore_orphan` | the same | **violated**: `SecretHasPublic` |
| `decrypt` | messages for up to two of six kinds of recipient, signed and unsigned, readable and spoilt, nine sets of key files, six agents, one fault; for `--verify` first: three forms, a known signer and a stranger, alone or with a second signature, none to two arguments; the data, something else or nothing in the file named second and in the one the signature is named after, independently, and the data or something else on standard input | `AgentFirst`, `TriedOnce`, `LocalComplete`, `RefusalReported`, `VerdictSound`, `VerdictsAgree` |
| `decrypt_hidden`, `decrypt_signature` | the same messages and homes | **violated**: `HiddenBruteForced`, `SignatureReported` |
| `seal` | up to three recipient options over three certificates, five forms of command, fifteen sets of key files, four agents, one fault; signed and read: all texts of one or two lines, and of three with a plain second and an empty last one, two changes on the way; seven numbers for each half of a signature; seven lists of preferred hashes, among them a weak first choice, one without a name and one without a number | `LastSpecWins`, `SignedAsAsked`, `AgentPreferred`, `SignsIfItCan`, `ReadAsSigned` |
| `agent_link` | two keys, one in the agent, two pieces of data, two operations on a connection | `InStep`, `Faithful` (refinement of `AgentService`), `Returns` |
| `options` | every command line of up to three of seventeen words, and of four of the six that place gpg.conf; those that ask, with and without `--batch`, `--yes`, a passphrase, its file, an output; three states of gpg.conf; eight scripts of answers for key generation and five for the others, on a terminal and from a pipe cut into bursts in every way | `ArgsKept`, `CommandsCombine`, `HomeAgrees`, `CommandLineWins`, `KeyAsTyped`, `UserDecides` |
| `keyblock` | every two packets of fifteen kinds, alone and behind a primary key with and without a user ID or subkey; blocks of two keys, either of which the library may drop; lengths at the ends of each encoding's range, bodies in chunks, of indefinite length and unreadable ones; streams and saves cut off; an empty keybox, one of this program's and one of GnuPG's with a blob of version 2, an X.509 blob and padding; fingerprints of 20 and 32 bytes | `WalkTiles`, `RepairExact`, `CutSeen`, `EntryFaithful` |
| `keyblock_dropped` | a block of two keys, the second with a certification behind its subkey | **violated**: `KeysRepaired` |
| `wire` | 33 secret values for a key file and 67 for the connection, of one or two characters out of eleven; protected with one of two passphrases or not; four writers; cut off anywhere; lines of at most five characters | `TextReadBack`, `MarkerTells`, `KeyOpens`, `LinesDecoded` |

Every run that passes also checks the type invariant of its module where the
table does not say so (`keystore_contract` leaves it to `keystore_race`; `wire`
and `keyblock` have none: `TextReadBack`, `WalkTiles` and `RepairExact` say what
their trees, texts and packets are).

### What the properties say

* `OneEntryPerKey`: unless two saves ran into each other, neither the keybox nor
  any copy of it lists a certificate twice. It takes two processes' copies and
  every partial write into account.
* `TornBoxExplained`: an unreadable keybox, which locks every later command out,
  has an I/O error, a kill or two overlapping saves behind it. A process killed
  between truncation and writing leaves an empty keybox, which is readable:
  that loses the public keys, and is what `SaveKeepsOthers` does not promise.
* `TornKeyInHand`: without faults, a cut-off key file is about to be filled.
* `SaveKeepsOthers`: a process whose copy is not stale writes back everybody
  else's entries. The code promises no more: a stale copy overwrites.
* `KeepsPromises`, `UnlockExact`: one command at a time does what it says;
  unlocking attaches exactly the readable files.
* `AgentFirst`, `TriedOnce`, `LocalComplete`: the order agent, named files, all
  files; no second touch for the same packet; a message is given up with a
  readable key at hand only in the cases named in the property's comment.
  `RefusalReported`: an agent that has the key and refuses ends the command there
  and then, with its error, with no key file tried after it and nothing written;
  and nothing else ends it so.
* `LastSpecWins`, `SignedAsAsked`, `AgentPreferred`, `SignsIfItCan`: who can read
  the result and who signed it, for all paths at once.
* `ReadAsSigned` gives the condition under which a reader finds a signature good,
  from the text that was signed and the text that arrived alone, for every way
  of signing, and what the reader gets of a clearsigned one. A hash that is not
  the one announced, a wrong length in bits, or line ends that are hashed but not
  written would each break it. Of the hash it says which ones a good signature
  can have; a signer's preferences decide whether there is a signature at all.
* `InStep`, `Faithful`, `Returns`: nothing is left on the connection for the next
  operation to mistake for its own answer; results belong to their calls.
* `ArgsKept` compares parseInto with a definition of what each word is that does
  not run along the words; `HomeAgrees` says of each of the two looks at the command
  line whose directory it takes, which is one directory unless a `--homedir` is
  another option's value or stands behind `--`; `CommandLineWins`: an option's value
  is the command line's, and so is the operation, unless the command line asks for
  one only if there is none; `CommandsCombine` holds for `-s` and `-e` in any order
  and place.
* `KeyAsTyped` holds the key that is made against what was typed, question by
  question: the *n*-th question is answered by the first line of what arrived *n*-th,
  however much came with it, and the lifetime is the one typed exactly if its
  seconds fit in 32 bits. `UserDecides`: nobody's file is replaced without a word,
  but one that appeared after the look (the code has no exclusive creation; that
  window is all that is excepted); batch mode asks nothing; the passphrase is the
  contents of the file named last, wherever it is named, and without one the
  passphrase named last.
* `VerdictSound`: "good" rests on a signature that was checked, with a key of the
  keybox, over the data given. The key it names is that of the first signature, and
  of the one checked if that is known; a signature apart from its text is called
  good exactly if a known signer's fits, and otherwise bad, a stranger's among them.
  `VerdictsAgree` says exactly when `--verify` and `--decrypt` of the same
  arguments contradict each other, one calling good what the other calls bad: for a
  known signer's detached signature when one of the file named second and what
  `--decrypt` derives from the signature's name is the data signed, and the other
  is not.
* `WalkTiles` compares the walk with the packets that were written, not with
  itself; `RepairExact` compares the one pass of sanitizeKeyblock with a
  definition of a misplaced signature that looks back for its packet, and says that
  a block is given up only when nothing is left to repair;
  `CutSeen` and `EntryFaithful` follow the bytes to the next command: a cut-off
  keybox is refused or read up to a whole blob, other programs' blobs stay byte
  for byte, and an entry holds the packets, user ID places and fingerprints of
  its key, for any of the keys that the library could read. `ReimportReplaces`, a
  part of `EntryFaithful`: a second import adds no entry, exactly with fingerprints
  of 20 bytes.
* `TextReadBack`: what is written in either form is read as itself, and a
  cut-off text is refused, unless only the line end is missing. `MarkerTells`
  relates the listing's reading of a file to the one that unlocks, for every writer,
  the older one included: marked as usable is what is read as a key, and what the
  older GnuPG wrote, which is not. `KeyOpens`: a
  layout that gpg-agent wrote opens, another passphrase or a changed
  parameter does not. `LinesDecoded`: no line is too long; the agent has what the
  client sent exactly if no cut fell inside an escape; and the values in a
  result are taken out as they were put in.

### What the code does otherwise than its documents say

* `SecretHasPublic` (keystore_orphan). cmdImport returns in the middle of its
  loop when a later key block is refused, before SavePublic, so the secret keys
  of the earlier blocks are on disk without an entry in the keybox. AddSecretKey
  is documented to ensure the public part is there.
* `HiddenBruteForced` (decrypt_hidden). A message for a named recipient whose
  certificate has any key file, be it a card's stub, and for a hidden one: only
  the named one's files are tried, although the README says that hidden
  recipients' packets are tried with the secret keys on hand.
* `SignatureReported` (decrypt_signature). The keys to verify a signature inside an
  encrypted message with are looked for by what the message shows before it is
  decrypted, which is no signer. Behind a key file only recipients' own signatures
  are verified; the README says `--decrypt` verifies an embedded signature.
* `KeysRepaired` (keyblock_dropped). The library reports no error as long as it can
  read one key of a block. A key of the same block with a misplaced signature is
  then left out without the repair that the comment of sanitizeKeyblock promises,
  and without a word.

Seen while modelling, without a run of their own; where a property states the case
exactly, so that it would notice if the case grew or went away, it is named:

* *Dashes.* armorClearSigned does not escape lines that begin with a dash
  (`opsutil/armor.go:32`), as the section of RFC 4880 that AgentClearSign refers
  to (`opsutil/agentsign.go:260`) asks, so a clearsigned list (`- item`) is
  called badly signed by every reader, this program included. The code follows
  GopenPGP's own GetArmored in this, as armorClearSigned's comment says.
  `ReadAsSigned` has it as a condition.
* *gpg.conf's operation.* `with-fingerprint` and the other listing options in
  gpg.conf set the operation, and `-s` sets it only when there is none
  (`gpgcli/parse.go:131`): `gpg-go -s` then lists keys. The comment of
  applyConfigFile says the command line takes precedence. `CommandLineWins` has this
  as its one case.
* *Passphrase file first.* ResolvePassphrase looks at `--passphrase-file` before
  `--passphrase` (`gpgcli/passphrase.go:19`): a file named in gpg.conf is used in
  place of a passphrase on the command line. `UserDecides` states that order.
* *An option's value.* The first look at the command line does not know which words
  are values (`gpgcli/config.go:83`): of `--encrypt --output --homedir=B` it reads
  gpg.conf in B, and the parser goes on with the keys of the default directory.
  `HomeAgrees` says when.
* *A plain signed message*, signed but not encrypted, is read by `--decrypt` without
  any public keys (`gpgcli/decrypt.go:142`), so its signature is reported as one that
  cannot be verified.
* *Older key files.* What an older GnuPG wrote has no "Key: " in front. Tag takes both
  forms (`agentkey/file.go:176-182`) and Parse one (`131-134`): the key is listed as
  usable and no command can use it. `MarkerTells` has this as its one case.
* *Several signers.* `--verify` of a file with a stranger's signature before that
  of a known key says "Good signature from key" of the stranger's
  (`gpgcli/verify.go:114-116`, `opsutil/crypto_ops.go:301-309`), where
  VerifyDetached is documented to return the signer's key ID. `VerdictSound`
  states the name as the code has it.
* *A stranger's signature* is reported as "BAD signature" by `--verify`
  (`gpgcli/verify.go:131`), the same words as for data that were changed. So is
  anything but a detached signature as the first of two arguments, with an empty
  name. `VerdictSound` says so.
* *A second argument* of `--decrypt` is ignored (`gpgcli/decrypt.go:47`): a detached
  signature that `--verify sig data` calls good is checked against another file, or
  against standard input, and called bad. `VerdictsAgree` has this as its one case.
* *Standard input.* `--decrypt` of a detached signature on standard input looks
  for its data there, too, where nothing is left: the signature is called bad.
* *Fingerprints of 32 bytes* go into key records with room for 20
  (`kbx/blob.go:105`): the entry of a version-6 key is not found again after a
  reload, and a second import adds it a second time. `EntryFaithful` says that this
  is so with 32 bytes, and with 20 is not (`ReimportReplaces`).
* *Escapes cut in two.* sendData cuts every 900 bytes, inside an escape if it
  falls so (`gpgagent/assuan.go:116-124`); the two halves would be taken
  literally by a receiver that decodes line by line, as readResponse does.
  `LinesDecoded` has both cases. Ciphertexts of the curve in use are shorter.
* *Base64 atoms.* The comment of package sexp says that Parse takes "|...|"
  (`sexp/sexp.go:13`); parseNode has no case for it and reads a bare word.
* *The empty string* `""` is read as a node that is neither atom nor list
  (`sexp/parse.go:160-168`). No caller writes one.
* *Answers in bursts.* Of answers that arrive together in a pipe, each question
  keeps one and drops the others, as `KeyAsTyped` has it; `--symmetric` of piped data
  has no standard
  input left for its passphrase.
* *Lifetimes* of 137 years and more are cut to 32 bits of seconds
  (`opsutil/keygen.go:82`), as `KeyAsTyped` has it.

### Bounds

Two processes are enough for the store's races, all of which are between one
process's copy or half-written file and another's save; the proofs cover any
number. One fault is enough to strike at every step; after it a command has
ended. Three commands in a row let one spoil what a second builds on and a third
sees. Two packets let one be named and the other hidden, or the same key be
both; more packets repeat those relations. Three recipient options are enough
for a certificate to change from visible to hidden and back with another one in
between. Two signatures on one file let the first and the checked one differ; a
third repeats that.
Two changes let one undo the other, and one line end change before another;
three lines have a first, a last and one in between, and a text with and
without a final line feed is there in each length.
Two operations per connection let the second inherit the first one's
key or lines. Three words are an option, its value and something behind it;
four, for the words that place gpg.conf, let an option's value look like one of
them. `InitBoxes` and the input files contain a certificate without key packets
and subkeys without their primary key: both are accepted by the code.

Three packets behind a primary key are a context, a signature in it and one that
loses it; each encoding of a length appears with its smallest and its largest
length. Values of one or two characters out of eleven put every kind of
character first and last, and a hexadecimal digit or a digit behind every kind.
Lines of at most five characters, where the code has 900, let a cut fall before,
inside and behind an escape of three. Scripts of answers go through both
algorithms, every way to refuse, and lifetimes on both sides of 2^32 seconds;
bursts are cut in every way. Lifetimes are counted in units of 128 seconds, of
which a day has 675, modulo 2^25.

### Fairness

`KeyStore` assumes weak fairness of a process's own steps: the operating system
schedules it, and its file operations return. The user answers prompts, rightly or
wrongly; there is no timeout in the code for one who does not. `AgentLink` assumes
the same of the client's and of the agent's steps: an agent that is connected
answers, or goes away, since the code sets no deadline on the socket. No fairness is
assumed of faults, of cards and agents going away, or of new commands. The other
modules have no liveness property and assume no fairness: they are sequential, and
each step comes closer to the end of a finite list. The runs of `Decrypt`, `Verify`,
`Seal` and `SignedText` check for deadlock, so that no command is stuck on the way;
those of `Options`, `Dialogue`, `KeyBlock` and `Wire` do not, since the system
stops at the end of its input.

## Proofs

`KeyStoreProofs` proves, for any sets of processes, certificates, keys and
inputs, overlapping or not, and any number of faults, five theorems of the form
`Spec => []P`, each of which `keystore_race` checks on its instance:

* `TypeCorrect` (`TypeOK`). `TypeOK` is inductive as it stands: beyond types, it
  says that a process in its import loop is inside its input and one about to
  touch a key file has one to touch. Lemmas give the types of the sequence
  operators (`AddPublicType`, `DeletePublicType`, `OverlayTypes`) and of the
  inputs (`CommandTypes`, `BlockTypes`); `TypeStep` has a step per action.
* `KeyboxUnique` (`OneEntryPerKey`). Not inductive: that a save cannot double an
  entry needs that without a clash only one process is between truncation and
  the end of its write, and that the file is then empty. That is `SavesApart`;
  `SavesApartStep` shows it is kept. `AddPublicUnique`, `DeletePublicUnique` and
  `PrefixUnique` are about the sequences.
* `KeyboxReadable` (`TornBoxExplained`), from the same invariant.
* `KeyFilesWhole` (`TornKeyInHand`): inductive with `TypeOK`, and the lemma that
  faults never decrease.
* `FreshSavesKeepOthers` (`SaveKeepsOthers`): strengthened to `FreshCopy`, which
  says of every step of a command, not only of the one before the save, that a
  current copy differs from the keybox in the command's own certificates only.
  `AddPublicKeepsOthers` and `DeletePublicKeepsOthers` are what the two
  operators leave alone.

and, for commands that run one after the other (`Overlap = FALSE`, a hypothesis of
the theorems: nothing in the code enforces it, and `keystore_race` is about what
happens otherwise), again with any number of faults, what `keystore_contract`
checks:

* `RunsKeepPromises` (`KeepsPromises`): `SSpec` implements `KeyRing`, under the
  refinement mapping of `KeyStoreSerial`. KeyRing sees a command at the step that
  ends it, and what the command has done to the disk by then took many steps. The
  invariant `Serial` says at each of them how far it has come from the disk it
  started with (`box0`, `sec0`): an import has taken in the first blocks of its
  file (`TakenIn`, with `SecWith` and `PubWith` for what *k* blocks make of the key
  files and the entries) and is inside one (`WritingKeys`: the keys still to come
  are as they were, one may be cut off); a deletion has a target that is the only
  entry of its name (`Target`, from `OneEntryPerKey`) and has removed the key
  files that are not on its list any more (`RemovingKeys`); a use has attached
  what can be used (`Attaching`). `GoesOn` and `IsOver` are the two kinds of steps
  KeyRing tells apart; one lemma per action (`CreateKeyServes`, ...) does the rest,
  and `FaultServes` a fault at any of them, from `Damage`, what a fault leaves of
  a file, and `Left`, what an import may leave of a key file.
* `UnlocksExactly` (`UnlockExact`), from `Attaching` at the last key file.

`AgentLinkProofs` proves, for any keys, data and number of operations,

* `TypeCorrect` (`TypeOK`), `AnswersInStep` (`InStep`) and `ServesFaithfully`
  (`Faithful`: every behaviour of the conversation is one of `AgentService`, under
  the refinement mapping of `AgentLink`). None of it is inductive: what a line
  means depends on what has been sent. `IInv` adds `Conversation`, which says for
  each thing the client may be doing what is on the connection and what the agent
  holds: a command on its way (`Awaiting`), the rest of an answer that adds up to
  the product of this operation's key and data (`Replying`, with `Completes`
  defined along the queue), a question (`Asking`), its answer (`Answering`), or,
  behind a cut, any part of them (`CutOff`). `Prepared` is what the commands so
  far have left in the agent: SIGKEY, SETKEY and SETHASH were of this operation.

`DecryptProofs`, for any certificates, keys, keybox, message, agent and number of
faults:

* `TypeCorrect` (`TypeOK`), `NoSecondTouch` (`TriedOnce`), `AgentIsFirst`
  (`AgentFirst`), `KeyFilesSuffice` (`LocalComplete`), `RefusalEnds`
  (`RefusalReported`). The inductive invariant
  `DecryptInv` has a part for each: `Tries` (what was tried has left the queue
  and the scan, in which nothing is twice), `Before` (without faults, a key that
  has left the queue was missing or found nothing), `Unlocking` (a certificate to
  unlock is still to come, was unlocked, or could be passed over), `Refusing` (until
  the agent refuses nothing was unlocked or written). `TypeOK` alone
  is not kept: that `dial` has a key in its queue comes from the guard two steps
  before.

and of `Verify`, in addition for any inputs:

* `VerifyIsSound` (`VerdictSound`) and `CommandsAgree` (`VerdictsAgree`), from
  `ReadInv`: `DecryptInv`, what each step of `--verify` has seen (`Verifying`,
  `Told`), and what a later `--decrypt` can report of it (`Agreeing`).
  `DecryptAfterVerify` takes the theorems above over to the specification in
  which `--decrypt` runs second.

`SealProofs`, for any certificates, keys, users, lists of options and commands:

* `TypeCorrect` (`TypeOK`), `LastOptionWins` (`LastSpecWins`), `SignsAsAsked`
  (`SignedAsAsked`), `AgentIsPreferred` (`AgentPreferred`), `SignsIfPossible`
  (`SignsIfItCan`). `SealInv` strengthens them by `Resolving`, the loop invariant
  of the options (`order` has the certificates named so far, each once, and the
  last option so far decides), and `Choosing` (which keys are still looked for,
  and what was unlocked is all that can be). `ReaderIsHarmless` (`TextSpec =>
  Spec`) takes them over to `SignedText`.
* `ReadsAsSigned` (`ReadAsSigned`), for texts of any length, numbers of any size
  and any number of changes on the way. Its invariant `Read` says in which of the
  four ways the text was signed and that what is hashed, announced and written is
  what that way makes of it (`AsSigned`), and what every change on the way leaves
  alone: all of an embedded text, and of a carried one the number of its lines and
  what they begin with (`Carried`). Two lemmas carry the weight. `NumbersReadBack`: the agent's numbers,
  written with their lengths in bits, are read as the same two numbers, with
  however many zeros in front (`ZerosInFront`, by induction along the bytes).
  `ClearDigest`: line ends, blanks and dashes are taken off by the reader so that
  two texts are hashed alike exactly if they say the same.

`DialogueProofs`, for any command lines, files of options, and lines typed:

* `TypeCorrect` (`TypeOK`), `CommandsAreOne` (`CommandsCombine`) and `HomesAgree`
  (`HomeAgrees`) from `OptionsInv`: the options so far are what the words so far
  make, one after another (`Gathered`), and each of the two looks at the command
  line has the directory of the last `--homedir`, so far, of those it takes for one
  (`Looking`; `FirstHomes` and `SecondHomes` say which those are).
* `ArgumentsAreKept` (`ArgsKept`) from `Arguments`: the parser stands where a word
  starts, as the definition that does not run along the words sees it, and the
  arguments so far are the words so far that are one. `Count` numbers them;
  `CollectRest` is the step that takes all words behind `--` at once.
* `TheUserDecides` (`UserDecides`) from `DialogueInv`: each question is asked only
  where it may be (`Asked`), a file that is to be replaced was agreed on, but one
  that appeared after the look (`Untouched`), and a passphrase of the options, the
  file's before the other, is not asked for (`Resolved`).
* `KeysAreAsTyped` (`KeyAsTyped`) from `HeardInv`: the answers are the first lines
  of what arrived together, in the order of the script, and what is left on standard
  input has the others (`Listened`).

`BlockProofs`, for any streams of packets, whole or cut off anywhere, and any
packets in them:

* `WalkReadsAll` (`WalkTiles`). `Walk` sees only bytes; what was written is
  described by pieces. Three facts connect them. The sizes of the pieces add up
  (`TotalIs`), so that every byte in front of the end belongs to one piece
  (`ByteIs`). The header of each of the nine forms reads back as the tag and
  length it was written with, or as none (`PieceRead`, with `BigFacts` for the
  base-256 digits). And a turn of the loop at the start of a piece therefore gives
  that piece's packet, or an error if the piece is cut off or has no definite
  length (`PacketOfPiece`). Induction along the pieces, from the last to the first,
  gives the result for whole streams (`WalkOfWhole`) and for all others
  (`WalkOfBroken`).
* `RepairsExactly` (`RepairExact`). `SanitizeTurn` and `SanitizedLoop` are the loop
  of `sanitizeKeyblock`: what it has kept is what is not misplaced so far, and what
  it compares a signature with is the last key or user ID in front of it.
  `PlacedLoop` is why one repair is enough: signatures do not change the context,
  so that what stays is placed as it was before. The inductive invariant
  `BlockInv` says at each step of `ParseKeys` where the packets come from: from
  the walk over the import, as they are or repaired. The theorem says nothing of keys
  that the library drops without an error, for which there is no repair.
* `CutIsSeen` (`CutSeen`). A file knows nothing of blobs: it is fields one after
  the other (`Spaced`, `LaidSpaced`), so that a field is read where it was laid out
  and nothing but garbage beyond a cut (`AtIs`), and the bytes from one end to
  another are the fields that were put there (`CutoutIs`). What goes into a file is
  a list of blobs that each say how long they are (`IsRaw`, `RawList`): the header,
  what a keybox of either program has in it (`BlobOfBox`), and what NewOpenPGPBlob
  writes, whose deferred writes hit the length and the place of the keyblock and
  spare the other first fields (`FixedIsRaw`, `AroundIsRaw`). That every key the
  library writes out has a blob is `BlobIsRaw`, from what the library can find in a
  stream (`LibrarySound`) and in a key of it (`KeysAre`, `ReadingsAre`). For such a list one
  turn of `Parse` moves from the end of a blob to the end of the next, and
  fails if that lies beyond the cut (`TurnReads`, `TurnFails`); induction over the
  turns gives what is read of a whole file (`WholeBoxRead`) and of a cut one
  (`CutBoxRead`). On the side of the list, AddPublic keeps every blob or replaces it
  by one of the same first fingerprint (`AddOne`, `AddAllIs`). The invariant
  `SaveInv` joins them: nothing but the keybox that was found is there until
  Save; then a list of readable blobs, in which every old one is as it was or
  its key is one of those saved (`Stored`), and a part of its file (`CutOff`).

Data of any length needs induction, which the provers do not have at hand. The
proofs do it in the form of sets of numbers: `NatSetInduction` (a set that has
zero and successors has every natural number) follows from the well-foundedness
of the naturals, and is cited with the set of numbers for which a statement
holds. That a recursive function satisfies its own equation is proved in the same
way, from a function on a longer and longer prefix (`FlattenExists`,
`ApplyAllExists`, `ValuesExist`); what `Keep`, `Dedupe`, `ApplyAll` and `IsValue`
compute for lists of any length follows.

### Assumptions

The theorems rest on the assumptions named in the modules; TLC evaluates them in
the runs of the modules that state them.

* `KeyData`, `KeyStore`: the constants are sets of their kinds, `Torn` and the
  like are neither keyboxes, read as lists or as sets, nor passphrases, input
  files have a block, a generated key has a keygrip, and the keyboxes a home
  directory starts with list no certificate twice.
* `CallsAssumption`, `LinkAssumption`: what the agent holds is among the keys;
  `None` is not a key, a datum or an operation.
* `MailAssumption`: a certificate has a primary key, which is not for curve
  25519 encryption (such a key cannot certify), no key twice, and none that is
  in another certificate; strangers' keys are not of the keybox.
  `NoSecondTouch` needs these: a certificate that listed a key twice would have
  the agent asked twice.
* `SecretsAssumption`, `DecryptAssumption`, `VerifyAssumption`, `SealAssumption`:
  homes, agents, messages, inputs and commands are of their kinds, the encryption
  and signing key chosen for a certificate are keys of it, and a command that
  `Seal` starts encrypts or signs.
* `OptionsAssumption`: a word is of one of five kinds, with one name if it is
  long and at least one, none of them `homedir`, if it is a cluster of short ones;
  a gpg.conf is unreadable or a sequence of lines.
* `TextAssumption`: a text is a sequence of lines of the kind `SignedText`
  describes, the halves of a signature are sequences of bytes, and a command
  without an input is none of the inputs.
* `RefusedAssumption`, `ImportsAssumption`: the error return is not one of the
  results, and what is imported is a stream of pieces that can be written (tags of
  four bits in old headers, lengths of at most four octets, as is the whole of a
  block), cut off anywhere. The
  keybox it goes into is one that `Parse` accepts: each blob has the length it names,
  and an OpenPGP blob the eight fields in front that both programs write, room for
  what they announce, and a fingerprint after them; what follows the blobs begins
  with a length of zero. (A keybox that `Parse` refuses is never written to.)
  The numbers in a blob have the room they need: the code's 32 and 16 bits run
  out with 4 GiB of keyblock or 65,536 keys in it.
* `GarbageAssumption`: what is read where a field is cut is not the number zero, so
  that a cut length is not taken for padding. In the code such a length cannot be
  read at all: `Parse` refuses it before.
* `DialogueAssumption`: lines arrive in bursts of at least one, lifetimes are
  natural numbers of days.

What the proofs found in the models: `SignsIfItCan` had to except `--encrypt
--sign` without any recipient, which no instance contained, and the lists of
recipient options now do; and `TypeOK` of `Decrypt`, `Seal` and `AgentLink` is not
inductive by itself, since which list is not empty depends on the way taken.

### Only model-checked

* Liveness (`Terminates`, `Returns`): ENABLED and fairness are out of reach.
* `CommandLineWins` of `Options`.
* `EntryFaithful` of `KeyBlock`: beyond what `CutIsSeen` proves of the blobs as wholes,
  it is about every field inside of one, and about the keys the library writes
  out again and the walk finds in them.
* The properties of `Wire`, whose parser is RECURSIVE: in such a module the
  provers lose SMT.

## Not modelled

* Cryptography and the OpenPGP library, beyond which key opens or verifies what:
  subpackets of signatures, digests, session keys, key derivation, compression,
  armor. Keygrips are hashes; the models need that different keys have different
  ones.
* Bytes beyond the classes the code tells apart, and bodies of packets beyond
  the bytes that the walk and the repair look at; the checksum of a blob, which
  the code writes and never reads.
* How the agent's socket is found; GNUPGHOME; quotes in gpg.conf; `--quiet`,
  `--verbose` and `--pinentry-mode`.
* Listings (but for the marker of secret keys), packet dumps, help: formatting
  without state of its own.
* How a user ID given as one argument is taken apart (a regular expression), and
  negative or 64-bit overflowing lifetimes.
* Errors that the modelled inputs cannot cause: attachOne's, for a certificate whose
  key lacks a number (`opsutil/agentbridge.go:78-110`), and the client's, for an
  expression of the agent's that does not parse (`gpgagent/client.go:168-171`).
  SETKEYDESC is always sent, as every caller gives a description. Writing the
  output of `--decrypt` and `--encrypt` does not fail.
* A keybox blob damaged inside, as by a key record length that is too small:
  parseOpenPGPBlob bounds each record by that length, and not by the 20 or 32 bytes
  it takes (`kbx/file.go:72-82`), so that the last fingerprint may reach beyond the
  blob. The models cut a keybox off, and change nothing in it.
* Permissions of files and directories, and failures of `fsync` or power loss:
  the code does not synchronize, and the models keep what was written.

## Plan

Done: the key store, its contract and its proofs; decryption and verification;
encryption and signing, and what is signed; the agent's conversation, service and
data lines; the options and the questions; key blocks, the keybox format, key files and
S-expressions.

Proved: every invariant and action property that the runs check, and the
refinements of `KeyRing` and `AgentService`, but for those listed under "Only
model-checked".

Next, in this order: `EntryFaithful`, from the lemmas that prove `CutIsSeen`; a
composition of `Seal` and
`Decrypt`: what one writes for a recipient the other reads, through every path.
