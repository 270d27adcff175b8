---------------------------- MODULE RemoteCalls ----------------------------
(***************************************************************************)
(* What a caller of TradeGateway can count on, with no connection, future  *)
(* or message in sight.  A call has at most one effect on the account, and *)
(* at most one answer:                                                     *)
(*   - "done" and "refused" are the truth about the effect,                *)
(*   - "not sent" means there is no effect and never will be,              *)
(*   - "unknown" (a timeout, a send error, the caller cancelled) says      *)
(*     nothing: the effect may be there, or may still come.                *)
(* TradeGateway is shown to implement this, and the modules of the         *)
(* managers use the answers in this sense.                                 *)
(***************************************************************************)
CONSTANT Requests

VARIABLES effect, answer

vars == <<effect, answer>>

Effects == {"none", "done", "refused"}
Answers == {"none", "open", "done", "refused", "not sent", "unknown"}

Init ==
  /\ effect = [r \in Requests |-> "none"]
  /\ answer = [r \in Requests |-> "none"]

Call(r) ==
  /\ answer[r] = "none"
  /\ answer' = [answer EXCEPT ![r] = "open"]
  /\ UNCHANGED effect

\* The account accepts or refuses; this may follow the answer "unknown".
Perform(r) ==
  /\ answer[r] \in {"open", "unknown"}
  /\ effect[r] = "none"
  /\ \E e \in {"done", "refused"} : effect' = [effect EXCEPT ![r] = e]
  /\ UNCHANGED answer

ReturnUnsent(r) ==
  /\ answer[r] = "none"
  /\ answer' = [answer EXCEPT ![r] = "not sent"]
  /\ UNCHANGED effect

\* The answer to a call whose message may have left.
Return(r) ==
  /\ answer[r] = "open"
  /\ \E a \in {"unknown", effect[r]} \ {"none"} : answer' = [answer EXCEPT ![r] = a]
  /\ UNCHANGED effect

\* A call that fails as it is sent.
ReturnAtOnce(r) ==
  /\ answer[r] = "none"
  /\ answer' = [answer EXCEPT ![r] = "unknown"]
  /\ UNCHANGED effect

Next == \E r \in Requests :
  Call(r) \/ Perform(r) \/ ReturnUnsent(r) \/ Return(r) \/ ReturnAtOnce(r)

Spec == Init /\ [][Next]_vars
=============================================================================
