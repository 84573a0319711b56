----------------------------- MODULE AgentCalls -----------------------------
(* The operations of gpgagent.Client, and their results.                    *)
EXTENDS Naturals, Sequences

CONSTANTS
    Grips,    \* keygrips
    Held,     \* those the agent has a key for
    Payloads, \* digests to sign and session key packets to decrypt
    None

ASSUME CallsAssumption ==
    /\ Held \subseteq Grips
    /\ None \notin Grips \union Payloads

\* NewClient, HaveKey, Sign (with a digest, or for an algorithm that hashes by
\* itself) and Decrypt.
Op    == {"open", "have", "sign", "puresign", "decrypt"}
Calls == [op : {"have"}, grip : Grips, data : {None}] \union
         [op : {"sign", "puresign", "decrypt"}, grip : Grips, data : Payloads]
Open  == [op |-> "open", grip |-> None, data |-> None]

\* A value travels in pieces, one to a data line.
Parts(v) == <<<<v, 1>>, <<v, 2>>>>

\* What the agent makes of d with g's key.
Signed(g, d)    == <<"signed", g, d>>
Decrypted(g, d) == <<"decrypted", g, d>>

\* How an operation ends, and the one outcome the caller wants.
Outcome(status, answer) == [status |-> status, answer |-> answer]
Failed  == Outcome("failed", << >>)
Missing == Outcome("missing", << >>)

Wanted(c) ==
    CASE c.op = "open"    -> Outcome("opened", << >>)
      [] c.op = "have"    -> IF c.grip \in Held THEN Outcome("held", << >>) ELSE Missing
      [] c.op = "decrypt" -> Outcome("done", Parts(Decrypted(c.grip, c.data)))
      [] OTHER            -> Outcome("done", Parts(Signed(c.grip, c.data)))
=============================================================================
