----------------------------- MODULE GuardedCall -----------------------------
(***************************************************************************)
(* What the broker promises of a call whose messages may be lost, whose    *)
(* service and whose authority may die, and whose handler may panic: it is *)
(* checked before it is handled, it is refused or handled, once and for    *)
(* good, and its caller is told of a success only when it was handled.     *)
(* CallPipeline (v2) and V1Calls (v1) are shown to implement it; v1 has    *)
(* excuses: what its callers take for a success though no handler said so, *)
(* and what its handlers take for a permission though nobody gave it.      *)
(***************************************************************************)
EXTENDS Naturals

CONSTANTS
  Call,    \* calls and published events
  Check,   \* what a handler may demand of them, or may be noted of them
  Excuses, \* the notes that let a caller be told of a success nobody had
  Silences \* <<n, k>>: note n stands for check k, which was asked in vain

VARIABLES
  terms,   \* terms[c]: the checks c has to pass, and whether it is answered
  passed,  \* passed[c]: the checks it has passed
  verdict, \* verdict[c]: "open", "refused" or "handled"
  outcome  \* outcome[c]: "pending", or what its caller was told

guardedVars == <<terms, passed, verdict, outcome>>

Terms == [demands : SUBSET Check, answered : {"yes", "no"}]

GuardedInit ==
  /\ terms \in [Call -> Terms]
  /\ passed = [c \in Call |-> {}]
  /\ verdict = [c \in Call |-> "open"]
  /\ outcome = [c \in Call |-> "pending"]

Pass(c, k) ==
  /\ verdict[c] = "open" \/ k \in Excuses
  /\ passed' = [passed EXCEPT ![c] = @ \cup {k}]
  /\ UNCHANGED <<terms, verdict, outcome>>

Refuse(c) ==
  /\ verdict[c] = "open"
  /\ verdict' = [verdict EXCEPT ![c] = "refused"]
  /\ UNCHANGED <<terms, passed, outcome>>

\* The caller's own checks refuse and tell it so.
RefuseAtOnce(c) ==
  /\ verdict[c] = "open" /\ outcome[c] = "pending"
  /\ verdict' = [verdict EXCEPT ![c] = "refused"]
  /\ outcome' = [outcome EXCEPT ![c] = "failure"]
  /\ UNCHANGED <<terms, passed>>

\* The last check passes and the handler is called.
Handle(c, k) ==
  /\ verdict[c] = "open"
  /\ passed' = [passed EXCEPT ![c] = @ \cup {k}]
  /\ \A d \in terms[c].demands :
       d \in passed'[c] \/ \E n \in passed'[c] : <<n, d>> \in Silences
  /\ verdict' = [verdict EXCEPT ![c] = "handled"]
  /\ UNCHANGED <<terms, outcome>>

Succeeds(c) ==
  IF terms[c].answered = "yes"
  THEN verdict[c] = "handled" \/ passed[c] \cap Excuses # {}
  ELSE verdict[c] # "refused"

Return(c, o) ==
  /\ outcome[c] = "pending"
  /\ o = "success" => Succeeds(c)
  /\ outcome' = [outcome EXCEPT ![c] = o]
  /\ UNCHANGED <<terms, passed, verdict>>

GuardedNext ==
  \E c \in Call :
    \/ \E k \in Check : Pass(c, k) \/ Handle(c, k)
    \/ Refuse(c) \/ RefuseAtOnce(c)
    \/ \E o \in {"success", "failure"} : Return(c, o)

GuardedSpec == GuardedInit /\ [][GuardedNext]_guardedVars
=============================================================================
