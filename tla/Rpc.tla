-------------------------------- MODULE Rpc --------------------------------
(***************************************************************************)
(* What a caller of broker.Provider.Request may rely on, whatever happens  *)
(* to the messages, the connections and the service instances: a call is   *)
(* executed at most once, it returns at most once, an answer is one the    *)
(* execution really gave, and "unavailable" and "internal" are only        *)
(* returned by calls that no instance has executed or ever will (which is  *)
(* what lets Publish and Monitor treat "unavailable" as "no validator",    *)
(* v2/pkg/broker/specific-provider-base.go:55 and :144).                   *)
(***************************************************************************)
EXTENDS Naturals

CONSTANT Call    \* one element per execution of RequestRaw

Answer  == {"ok", "error"}
NotRun  == {"unavailable", "internal"}
Outcome == {"pending", "timeout"} \cup Answer \cup NotRun

VARIABLES
  started,   \* started[c]: how many times a handler was started for call c
  answers,   \* answers[c]: the final answers handlers have given to call c
  outcome    \* outcome[c]: what the call returned, "pending" until it does

rpcVars == <<started, answers, outcome>>

RpcInit ==
  /\ started = [c \in Call |-> 0]
  /\ answers = [c \in Call |-> {}]
  /\ outcome = [c \in Call |-> "pending"]

Execute(c) ==
  /\ started[c] = 0
  /\ outcome[c] \notin NotRun
  /\ started' = [started EXCEPT ![c] = 1]
  /\ UNCHANGED <<answers, outcome>>

Respond(c, a) ==
  /\ started[c] = 1
  /\ answers' = [answers EXCEPT ![c] = @ \cup {a}]
  /\ UNCHANGED <<started, outcome>>

Return(c, o) ==
  /\ outcome[c] = "pending"
  /\ \/ o \in answers[c]
     \/ o = "timeout"
     \/ o \in NotRun /\ started[c] = 0
  /\ outcome' = [outcome EXCEPT ![c] = o]
  /\ UNCHANGED <<started, answers>>

RpcNext ==
  \E c \in Call : \/ Execute(c)
                  \/ \E a \in Answer : Respond(c, a)
                  \/ \E o \in Outcome : Return(c, o)

RpcSpec == RpcInit /\ [][RpcNext]_rpcVars
=============================================================================
