---------------------------- MODULE AgentService ----------------------------
(***************************************************************************)
(* What gpg-go relies on when it hands an operation to gpg-agent through a *)
(* gpgagent.Client: a call has one result, the result is that of the very  *)
(* key and data of the call, and the user is asked for a passphrase once   *)
(* at most, and only while the key is locked.                              *)
(***************************************************************************)
EXTENDS AgentCalls

VARIABLES
    call,    \* the operation under way, or None
    result,  \* the outcome of the last one
    prompts, \* how often the user has been asked for a passphrase in this call
    locked   \* the keys whose passphrase the agent does not know

vars == <<call, result, prompts, locked>>

Init == call = Open /\ result = Outcome("none", << >>) /\ prompts = 0 /\ locked \in SUBSET Grips

Begin == /\ call = None
         /\ call' \in Calls
         /\ prompts' = 0
         /\ UNCHANGED <<result, locked>>

Prompt == /\ call # None /\ call.op \notin {"open", "have"}
          /\ call.grip \in locked
          /\ prompts = 0 /\ prompts' = 1
          /\ UNCHANGED <<call, result, locked>>

Unlock == /\ prompts = 1
          /\ locked' = locked \ {call.grip}
          /\ UNCHANGED <<call, result, prompts>>

Return == /\ call # None
          /\ result' \in {Failed, Wanted(call)} \union
                         (IF call.op = "have" THEN {Missing} ELSE {})
          /\ call' = None
          /\ prompts' = 0
          /\ UNCHANGED locked

Forget == /\ \E g \in Grips : locked' = locked \union {g}
          /\ UNCHANGED <<call, result, prompts>>

Next == Begin \/ Prompt \/ Unlock \/ Return \/ Forget

Spec == Init /\ [][Next]_vars
=============================================================================
