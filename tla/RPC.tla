---------------------------------- MODULE RPC ----------------------------------
(***************************************************************************)
(* What appclient_call promises to the programs that use it: a call of a   *)
(* client is executed once by the server, and the call returns afterwards, *)
(* with the answer to that very call.  Clients do not disturb each other.  *)
(***************************************************************************)
EXTENDS Naturals

CONSTANTS Client, MaxCalls

VARIABLES call,     \* the call a client is waiting in, 0 when it is not
          executed, \* the number of calls of a client the server executed
          result    \* the call whose answer a client got last

rpcVars == <<call, executed, result>>

Init ==
  /\ call = [c \in Client |-> 0]
  /\ executed = [c \in Client |-> 0]
  /\ result = [c \in Client |-> 0]

Ask(c) ==
  /\ call[c] = 0 /\ executed[c] < MaxCalls
  /\ call' = [call EXCEPT ![c] = executed[c] + 1]
  /\ UNCHANGED <<executed, result>>

Execute(c) ==
  /\ call[c] = executed[c] + 1
  /\ executed' = [executed EXCEPT ![c] = @ + 1]
  /\ UNCHANGED <<call, result>>

Answer(c) ==
  /\ call[c] # 0 /\ call[c] = executed[c]
  /\ call' = [call EXCEPT ![c] = 0]
  /\ result' = [result EXCEPT ![c] = call[c]]
  /\ UNCHANGED executed

Next == \E c \in Client : Ask(c) \/ Execute(c) \/ Answer(c)

Spec ==
  /\ Init /\ [][Next]_rpcVars
  /\ \A c \in Client : WF_rpcVars(Execute(c)) /\ WF_rpcVars(Answer(c))
================================================================================
