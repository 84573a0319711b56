------------------------------ MODULE KeyBlock ------------------------------
(***************************************************************************)
(* A block of packets on its way into the keybox and out again: ParseKeys  *)
(* with its one attempt at a repair, AddPublic and SavePublic, a save that *)
(* may be cut off, and the next command's ReadFile.                        *)
(*                                                                         *)
(* The OpenPGP library reads a stream by itself, decides which parts of it *)
(* are keys, and writes the key blocks that are stored.  Which keys it can *)
(* read is left open; it skips the others and reports an error only when   *)
(* there is none that it can.                                              *)
(***************************************************************************)
EXTENDS Keybox

CONSTANT Imports \* the cases: what is imported into which keybox, and where a save is cut off

\* Blobs as they are in keyboxes: a length, a type, and an OpenPGP blob begins with
\* what is common to this program's and GnuPG's, in fields of their sizes.
IsBlob(raw) ==
  /\ raw = Laid(raw).fields
  /\ Len(raw) > 1 /\ raw[1].size = 4 /\ raw[2].size = 1
  /\ raw[1].val = Bytesize(raw) /\ Bytesize(raw) > 5
  /\ raw[2].val = OpenPGP =>
       /\ Len(raw) > 8 /\ \A j \in 1 .. 8 : raw[j].size = Fixed20(0)[j].size
       /\ raw[7].val \in Nat \ {0} /\ raw[8].val \in Nat
       /\ raw[9].size = IF raw[3].val = 2 THEN 32 ELSE 20
       /\ ~Malformed(raw, Bytesize(raw))

IsList(s) == Len(s) \in Nat /\ s = [j \in 1 .. Len(s) |-> s[j]]
AreFields(fs) == IsList(fs) /\ \A j \in DOMAIN fs : fs[j].size \in Nat \ {0}

ASSUME ImportsAssumption ==
  \A x \in Imports :
    /\ DOMAIN x = {"block", "box", "padding", "fprSize", "cuts"}
    /\ IsStream(x.block) /\ x.block.len \div 256 ^ 3 \in Octet /\ x.fprSize \in {20, 32}
    /\ IsList(x.box) /\ \A j \in DOMAIN x.box : AreFields(x.box[j]) /\ IsBlob(x.box[j])
    /\ AreFields(x.padding)
    /\ x.padding # <<>> => x.padding[1].size = 4 /\ x.padding[1].val = 0

VARIABLES
    import,     \* the case: the stream ParseKeys is given, the blobs of pubring.kbx and
                \* what comes after them, the size of a fingerprint (20, or 32 bytes of a
                \* version 6 key), and where a save may be cut off: how far from one of the
                \* single bytes a blob has at its start and its end
    pc,         \* "parse", "repair", "retry", "parsed", "saved", "opened", "failed", "refused"
    packets,    \* the packets of the block, then those the repair kept
    keys,       \* the key blocks of the keys that the library could read
    blobs,      \* the blobs that were to be saved
    disk,       \* pubring.kbx: its fields, and how many bytes of them are there
    listed      \* what the next command reads

vars == <<import, pc, packets, keys, blobs, disk, listed>>

(***************************************************************************)
(* The OpenPGP library.  It also reads a body in chunks, here one octet    *)
(* and then the rest behind an octet of its own, and a body of indefinite  *)
(* length, which is all that is left.  A key begins with a primary key     *)
(* packet and goes up to the next one; what comes before the first is      *)
(* skipped.  Its public part is written with new headers and without the   *)
(* packets the library does not keep.                                      *)
(***************************************************************************)
InChunks(p) == p.n \in 2 .. 193 /\ Len(p.head) > 1 /\ p.head[2] = p.n - 2

CanRead(s, j) ==
  LET p == s.pieces[j]
      whole == s.starts[j] + Size(p) <= s.len
  IN  CASE p.form = "garbage" -> FALSE
        [] p.form = "partial" -> whole /\ InChunks(p)
        [] p.form = "indefinite" -> s.starts[j] < s.len /\ j = Len(s.pieces)
        [] OTHER -> whole

\* The body of piece j: how long it is, and how it begins.
BodyRead(s, j) ==
  LET p == s.pieces[j]
  IN  CASE p.form = "partial" ->
             [n |-> p.n - 1, head |-> SubSeq(p.head, 1, 1) \o SubSeq(p.head, 3, Len(p.head))]
        [] p.form = "indefinite" -> [n |-> s.len - s.starts[j] - 1, head |-> p.head]
        [] OTHER -> [n |-> p.n, head |-> p.head]

LibraryPacket(s, j) ==
  LET b == BodyRead(s, j)
  IN  [tag |-> s.pieces[j].tag, off |-> s.starts[j], hdr |-> Len(s.pieces[j].hdr), n |-> b.n,
       body |-> SubSeq(b.head \o <<0, 0, 0>>, 1, IF b.n < 3 THEN b.n ELSE 3)]

\* Everything up to the first piece it cannot read.
LibraryPackets(s) ==
  FlattenSeq([j \in DOMAIN s.pieces |->
    IF \A i \in 1 .. j : CanRead(s, i) THEN <<LibraryPacket(s, j)>> ELSE <<>>])

Primary(ps) == {j \in DOMAIN ps : ps[j].tag \in {PublicKey, SecretKey}}

PublicTag(tag) == CASE tag = SecretKey -> PublicKey [] tag = SecretSub -> PublicSub [] OTHER -> tag

Reframed(p) ==
  LET form == CHOOSE f \in NewForms : FormFits(f, p.n) /\ (f = "new5" => p.n > 8383)
  IN  Piece(form, PublicTag(p.tag), p.n, p.body)

Serialized(ps) ==
  LET ours == Only(ps, {PublicKey, SecretKey, PublicSub, SecretSub, UserID, Signature})
      pieces == [j \in DOMAIN ours |-> Reframed(ours[j])]
  IN  Stream(pieces, Total(pieces))

KeyEnd(ps, j) ==
  LET later == {k \in Primary(ps) : k > j}
  IN  IF later = {} THEN Len(ps) ELSE Min(later) - 1

\* The keys that begin at the packets js.
KeysAt(ps, js) ==
  FlattenSeq([j \in DOMAIN ps |->
    IF j \in js THEN <<Serialized(SubSeq(ps, j, KeyEnd(ps, j)))>> ELSE <<>>])

Readings(ps) == {KeysAt(ps, js) : js \in (SUBSET Primary(ps)) \ {{}}}

(***************************************************************************)
(* The store.                                                              *)
(***************************************************************************)
FprOf(keyblock) == Fingerprint(Walk(keyblock)[1])

\* blob replaces the first entry of its certificate.
AddPublic(bs, blob) ==
  LET same == {j \in DOMAIN bs : /\ bs[j].type = OpenPGP /\ bs[j].fprs # <<>>
                                 /\ bs[j].fprs[1] = blob.fprs[1]}
  IN  IF same = {} THEN Append(bs, blob) ELSE [bs EXCEPT ![Min(same)] = blob]

\* The blob of a key, whose keyblock are the packets ps.
EntryFor(ps, raw) ==
  [type |-> OpenPGP, raw |-> raw, keyblock |-> ps,
   fprs |-> IF raw = Refused THEN <<>> ELSE Fingerprints(ps)]

\* The blobs of all keys.
BlobsOf(keyblocks) ==
  [k \in DOMAIN keyblocks |->
     EntryFor(Walk(keyblocks[k]), NewOpenPGPBlob(keyblocks[k], import.fprSize))]

\* All of new added.
AddAll(bs, new) ==
  LET added[k \in 0 .. Len(new)] == IF k = 0 THEN bs ELSE AddPublic(added[k - 1], new[k])
  IN  added[Len(new)]

Init ==
  /\ import \in Imports
  /\ pc = "parse"
  /\ packets = <<>>
  /\ keys = <<>>
  /\ blobs = <<>>
  /\ disk = Laid(FlattenSeq(import.box) \o import.padding)
  /\ listed = <<>>

\* ParseKeys: strictly first.
StrictParse ==
  /\ pc = "parse"
  /\ packets' = Walk(import.block)
  /\ \/ pc' = "parsed" /\ keys' \in Readings(LibraryPackets(import.block))
     \/ pc' = "repair" /\ UNCHANGED keys
  /\ UNCHANGED <<import, blobs, disk, listed>>

\* Then once more without the misplaced signatures, if there are any.
Repair ==
  /\ pc = "repair"
  /\ IF packets = Refused \/ ~Sanitized(packets).changed
       THEN pc' = "failed" /\ UNCHANGED packets
       ELSE pc' = "retry" /\ packets' = Sanitized(packets).kept
  /\ UNCHANGED <<import, keys, blobs, disk, listed>>

Retry ==
  /\ pc = "retry"
  /\ \/ pc' = "parsed" /\ keys' \in Readings(packets)
     \/ pc' = "failed" /\ UNCHANGED keys
  /\ UNCHANGED <<import, packets, blobs, disk, listed>>

\* AddPublic for every key, and SavePublic, which may be cut off.
CutPoints(file) ==
  {file.fields[j].at + d : j \in {k \in DOMAIN file.fields : file.fields[k].size = 1},
                           d \in import.cuts} \cap 0 .. file.to - 1

Save ==
  /\ pc = "parsed"
  /\ LET old == Parse(disk.fields, disk.to)
         new == BlobsOf(keys)
     IN  IF old = Refused \/ \E k \in DOMAIN new : new[k].raw = Refused
           THEN pc' = "refused" /\ UNCHANGED <<blobs, disk>>
           ELSE /\ blobs' = AddAll(old, new)
                /\ LET file == FileOf(blobs')
                   IN  \E to \in CutPoints(file) \cup {file.to} :
                         disk' = [file EXCEPT !.to = to]
                /\ pc' = "saved"
  /\ UNCHANGED <<import, packets, keys, listed>>

Open ==
  /\ pc \in {"saved", "failed"}
  /\ listed' = Parse(disk.fields, disk.to)
  /\ pc' = "opened"
  /\ UNCHANGED <<import, packets, keys, blobs, disk>>

Next == StrictParse \/ Repair \/ Retry \/ Save \/ Open

Spec == Init /\ [][Next]_vars

(***************************************************************************)
(* Properties.                                                             *)
(***************************************************************************)
\* Walk finds the packets that were written, with their tags, places and
\* lengths, for every way there is to write a length; it refuses what is cut
\* off inside a packet or has no definite length, and reads no byte twice.
WalkTiles ==
  pc = "repair" =>
    packets = LET whole == {m \in 0 .. Len(import.block.pieces) :
                              Whole([import.block EXCEPT !.pieces = SubSeq(@, 1, m)])}
              IN  IF whole = {} THEN Refused ELSE SubSeq(Written(import.block), 1, Max(whole))

\* A repair takes away the signatures that have no place where they stand and
\* nothing else, and leaves nothing for a second one; a block is given up
\* only when no signature of it is misplaced, or when it cannot be walked.
RepairExact ==
  LET ps == Walk(import.block)
      good == FlattenSeq([j \in DOMAIN ps |-> IF Misplaced(ps, j) THEN <<>> ELSE <<ps[j]>>])
  IN  /\ pc = "retry" => packets = good
      /\ pc \in {"retry", "failed"} /\ packets # Refused =>
           \A j \in DOMAIN packets : ~Misplaced(packets, j)

\* A key with a misplaced signature is repaired, "so the rest of an
\* otherwise-valid key can still be parsed" (sanitize.go): when the import goes
\* on with the keys that the library could read, each such key is one of them.
\* It is not when the library could read another key of the same block: it
\* skips the one it cannot read, reports nothing, and no repair is tried.
KeysRepaired ==
  LET ps == LibraryPackets(import.block)
  IN  pc = "parsed" =>
        \A j \in Primary(ps) :
          (\E i \in j .. KeyEnd(ps, j) : Misplaced(ps, i)) =>
            \E k \in DOMAIN keys : FprOf(keys[k]) = Fingerprint(ps[j])

\* A keybox whose save was cut off is refused, or read up to a blob that is
\* there as a whole: no blob is ever half there, or made of another's bytes.
\* The blobs of other certificates and other kinds stay what they were, byte
\* for byte.
CutSeen ==
  pc = "opened" /\ blobs # <<>> =>
    LET intended == Raws(Headed(blobs))
        whole == {m \in 0 .. Len(intended) :
                    disk.to = Bytesize(FlattenSeq(SubSeq(intended, 1, m)))}
    IN  /\ IF whole = {} THEN listed = Refused
           ELSE Raws(listed) = SubSeq(intended, 1, Max(whole))
        /\ \A j \in DOMAIN import.box :
             \/ blobs[j].raw = import.box[j]
             \/ \E k \in DOMAIN keys : FprOf(keys[k]) = import.box[j][9].val

\* What a reader who goes by the offsets in the blob, as GnuPG does, finds.
UidRecords(raw) ==
  LET nkeys == raw[7].val
      at == 9 + 4 * nkeys + 1
  IN  [u \in 1 .. raw[at].val |->
         [off |-> raw[at + 2 + 5 * (u - 1)].val - raw[5].val,
          n |-> raw[at + 3 + 5 * (u - 1)].val]]

\* AddPublic replaces "any existing entry with the same primary fingerprint"
\* (keystore.go:134-136): importing the same keys once more, into what was read
\* of a whole save, adds no entry, unless the fingerprint is a version 6 one, which
\* is written with its 32 bytes and read back with 20 (blob.go:105, file.go:72-82).
ReimportReplaces ==
  pc = "opened" /\ blobs # <<>> /\ disk.to = Bytesize(disk.fields) =>
    (Len(AddAll(listed, BlobsOf(keys))) = Len(listed) <=> import.fprSize = 20)

\* Whatever ParseKeys takes for a key can be stored, and what a later command
\* reads of it is what was stored: the packets, the user IDs at the places the
\* blob names, and under the key's fingerprint one entry, the newest, which
\* another import replaces.  (The last only with fingerprints of 20 bytes: the blob's
\* key records have room for no more, and a version 6 key is entered again.)
EntryFaithful ==
  /\ pc # "refused"
  /\ ReimportReplaces
  /\ pc = "opened" /\ listed # Refused /\ blobs # <<>> =>
    LET intended == Headed(blobs)
        ours == {j \in DOMAIN listed : listed[j].type = OpenPGP /\ listed[j].raw[3].val = 1}
    IN  /\ \A j \in ours :
             LET uids == Only(listed[j].keyblock, {UserID})
             IN  /\ listed[j].keyblock = intended[j].keyblock
                 /\ UidRecords(listed[j].raw)
                      = [u \in DOMAIN uids |-> [off |-> uids[u].off + uids[u].hdr,
                                                n |-> uids[u].n]]
        /\ import.fprSize = 20 =>
             /\ \A j \in ours : listed[j].fprs = intended[j].fprs
             /\ \A j, k \in ours : listed[j].fprs[1] = listed[k].fprs[1] => j = k
             /\ \A k \in DOMAIN keys :
                  disk.to = Bytesize(disk.fields) =>
                    \E j \in ours : listed[j].fprs[1] = FprOf(keys[k])
=============================================================================
