------------------------------ MODULE Sanitize ------------------------------
(***************************************************************************)
(* The repair of key blocks: sanitizeKeyblock drops every signature packet *)
(* that could not possibly apply where it stands.                          *)
(***************************************************************************)
EXTENDS PacketWalk

Signature == 2
PublicKey == 6
PublicSub == 14
UserID == 13
UserAttr == 17
SecretKey == 5
SecretSub == 7

\* Where a packet of this tag puts the signatures after it; "" leaves that.
Context(tag) ==
  CASE tag \in {PublicKey, SecretKey} -> "primary"
    [] tag \in {UserID, UserAttr} -> "uid"
    [] tag \in {PublicSub, SecretSub} -> "subkey"
    [] OTHER -> ""

NoType == -1 \* a body too short to tell

SigType(p) ==
  IF p.n < 2 THEN NoType
  ELSE IF p.body[1] # 3 THEN p.body[2]
  ELSE IF p.n < 3 THEN NoType ELSE p.body[3]

UIDTypes == {16, 17, 18, 19, 48}
SubkeyTypes == {24, 40, 25}
PrimaryTypes == {31, 32}

ValidIn(context) ==
  CASE context = "uid" -> UIDTypes
    [] context = "subkey" -> SubkeyTypes
    [] context = "primary" -> PrimaryTypes \cup UIDTypes

SanitizeOneResets(st, p) == \* mutant: any other packet ends the context
  LET context == IF Context(p.tag) # "" THEN Context(p.tag)
                 ELSE IF p.tag = Signature THEN st.context ELSE "primary"
  IN  IF p.tag = Signature /\ SigType(p) # NoType /\ SigType(p) \notin ValidIn(context)
        THEN [st EXCEPT !.changed = TRUE]
        ELSE [context |-> context, kept |-> Append(st.kept, p), changed |-> st.changed]

\* One turn of the loop.
SanitizeOne(st, p) ==
  LET context == IF Context(p.tag) # "" THEN Context(p.tag) ELSE st.context
  IN  IF p.tag = Signature /\ SigType(p) # NoType /\ SigType(p) \notin ValidIn(context)
        THEN [st EXCEPT !.changed = TRUE]
        ELSE [context |-> context, kept |-> Append(st.kept, p), changed |-> st.changed]

Sanitized(ps) ==
  LET upto[j \in 0 .. Len(ps)] ==
        IF j = 0 THEN [context |-> "primary", kept |-> <<>>, changed |-> FALSE]
        ELSE SanitizeOne(upto[j - 1], ps[j])
  IN  upto[Len(ps)]

(***************************************************************************)
(* The same, told from the positions: the nearest key or user ID before a  *)
(* signature is what the signature is about.                               *)
(***************************************************************************)
About(ps, j) ==
  LET before == {i \in 1 .. j - 1 : Context(ps[i].tag) # ""}
  IN  IF before = {} THEN "primary"
      ELSE Context(ps[CHOOSE i \in before : \A k \in before : k <= i].tag)

Misplaced(ps, j) ==
  /\ ps[j].tag = Signature
  /\ SigType(ps[j]) # NoType
  /\ SigType(ps[j]) \notin ValidIn(About(ps, j))
=============================================================================
