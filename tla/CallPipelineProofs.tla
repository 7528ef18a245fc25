------------------------ MODULE CallPipelineProofs ------------------------
(***************************************************************************)
(* For any number of calls, validators and replies: TypeOK, RefusedForGood *)
(* and PanicContained of CallPipeline, and that it implements GuardedCall. *)
(***************************************************************************)
EXTENDS CallPipeline, TLAPS

Before(c) == refused[c] = "none" /\ handled[c] = 0

Quiet(c) == <<c, "request">> \notin wire /\ <<c, "event">> \notin wire

\* The owner of the event agreed, or there was nobody to ask.
Agreed(c) == kind[c] = "event" => "owner" \in passed[c] \/ "nobody" \in passed[c]

\* What holds of a call that nobody handles yet: it is in one place.
CallerInv(c) ==
  /\ pc[c] # "returned" => result[c] = "none"
  /\ pc[c] = "idle" => Before(c) /\ Quiet(c) /\ stage[c] = "none" /\ inbox[c] = {}
  /\ pc[c] = "waiting" => kind[c] # "announcement"
  /\ pc[c] = "publishing" =>
       /\ IsEvent(c) /\ Before(c) /\ Quiet(c) /\ Agreed(c)
       /\ stage[c] \in {"none", "ended"}

WireInv(c) ==
  /\ <<c, "request">> \in wire =>
       /\ pc[c] \in {"waiting", "returned"}
       /\ kind[c] # "announcement"
       /\ Before(c) /\ stage[c] = "none" /\ <<c, "event">> \notin wire
       /\ pc[c] = "waiting" => inbox[c] = {}
  /\ <<c, "event">> \in wire =>
       /\ IsEvent(c) /\ Before(c) /\ Agreed(c)
       /\ pc[c] = "returned" /\ stage[c] \in {"none", "ended"}

\* What holds at each stage of handling it: the checks so far have passed.
StageInv(c) ==
  /\ stage[c] = "owner" =>
       /\ kind[c] = "event" /\ Before(c) /\ Quiet(c)
       /\ pc[c] \in {"waiting", "returned"}
       /\ pc[c] = "waiting" => inbox[c] \subseteq {"extend"}
  /\ stage[c] \in {"authenticate", "authorize", "validate", "handle"} =>
       /\ Quiet(c) /\ refused[c] = "none"
       /\ pc[c] \in {"waiting", "returned"}
       /\ IsEvent(c) => pc[c] = "returned" /\ Agreed(c)
  /\ stage[c] \in {"authenticate", "authorize", "validate"} => handled[c] = 0
  /\ stage[c] = "authorize" => "token" \in passed[c]
  /\ stage[c] = "validate" => Required(kind[c]) \ {"validators"} \subseteq passed[c]
  /\ stage[c] = "handle" => handled[c] > 0

\* What is settled for good.
VerdictInv(c) ==
  /\ handled[c] > 0 =>
       /\ Required(kind[c]) \subseteq passed[c] /\ Agreed(c)
       /\ refused[c] = "none" /\ Quiet(c) /\ stage[c] \in {"handle", "ended"}
       /\ pc[c] \in {"waiting", "returned"}
       /\ IsEvent(c) => pc[c] = "returned"
  /\ refused[c] # "none" =>
       /\ Quiet(c) /\ stage[c] \in {"none", "ended"}
       /\ pc[c] \in {"waiting", "returned"}

\* What the caller may conclude from an answer.
InboxInv(c) ==
  /\ pc[c] = "waiting" =>
       \A a \in inbox[c] \ {"extend"} :
         /\ kind[c] = "event" =>
              /\ Quiet(c) /\ handled[c] = 0 /\ stage[c] \in {"none", "ended"}
              /\ Granted(a) => refused[c] = "none" /\ Agreed(c)
         /\ Asks(kind[c]) /\ a \in Success => handled[c] > 0
  /\ Asks(kind[c]) /\ result[c] = "nil" => handled[c] > 0

CallInv(c) ==
  CallerInv(c) /\ WireInv(c) /\ StageInv(c) /\ VerdictInv(c) /\ InboxInv(c)

IInv == \A c \in Call : CallInv(c)

-----------------------------------------------------------------------------
(* Types. *)

LEMMA TypeStep == TypeOK /\ [Next]_vars => TypeOK'
<1> SUFFICES ASSUME TypeOK, [Next]_vars PROVE TypeOK'
  OBVIOUS
<1> USE PipelineAssumption DEF TypeOK
<1>1. ASSUME NEW c \in Call, Caller(c) PROVE TypeOK'
  <2>1. CASE SocketRefuses(c)
    BY <2>1 DEF SocketRefuses, Return, service, Answer, Refusal
  <2>2. CASE Request(c)
    BY <2>2 DEF Request, verdicts
  <2>3. CASE SendFails(c)
    BY <2>3 DEF SendFails, Return, service, verdicts, Answer
  <2>4. CASE Announce(c)
    BY <2>4 DEF Announce, service, verdicts
  <2>5. CASE PublishRaw(c)
    BY <2>5 DEF PublishRaw, Return, verdicts
  <2>6. CASE Receive(c)
    <3>1. \A w \in Want, a \in Answer :
            Decoded(w, a) \in {"none", "nil", "timeout", "undecodable"} \cup Answer
      BY DEF Decoded
    <3>2. \A a \in inbox[c] : a \in Answer
      OBVIOUS
    <3>3. QED
      BY <2>6, <3>1, <3>2 DEF Receive, Return, service, verdicts
  <2>7. CASE Extend(c)
    BY <2>7 DEF Extend, caller, service, verdicts
  <2>8. CASE TimeOut(c)
    BY <2>8 DEF TimeOut, Return, service, verdicts
  <2>9. QED
    BY <1>1, <2>1, <2>2, <2>3, <2>4, <2>5, <2>6, <2>7, <2>8 DEF Caller
<1>2. ASSUME NEW c \in Call, NEW a \in Answer, Reply(c, a)
      PROVE  inbox' \in [Call -> SUBSET Answer]
  BY <1>2 DEF Reply
<1>3. ASSUME NEW c \in Call, NEW check \in Check, NEW next \in Stage,
             Passes(c, check, next)
      PROVE  TypeOK'
  BY <1>3 DEF Passes, Goto, caller, service
<1>4. ASSUME NEW c \in Call, NEW r \in Refusal, NEW a \in Answer, Refuses(c, r, a)
      PROVE  TypeOK'
  <2>1. stage' \in [Call -> Stage]
    BY <1>4 DEF Refuses, Goto, Stage
  <2>2. inbox' \in [Call -> SUBSET Answer]
    BY <1>2, <1>4 DEF Refuses
  <2>3. QED
    BY <1>4, <2>1, <2>2 DEF Refuses, caller, service
<1>5. ASSUME NEW c \in Call, Validator(c) PROVE TypeOK'
  <2>1. CASE index' = [index EXCEPT ![c] = @ + 1]
             /\ UNCHANGED <<caller, service, stage, replies, inbox, verdicts>>
    <3>1. index' \in [Call -> 0..Validators]
      BY <1>5, <2>1 DEF Validator
    <3>2. QED
      BY <2>1, <3>1 DEF caller, service, verdicts
  <2>2. ASSUME NEW a \in Denials, Refuses(c, "denied", a) PROVE TypeOK'
    BY <1>4, <2>2 DEF Answer, Success, Refusal
  <2>3. CASE /\ replies[c] < MaxReplies
             /\ replies' = [replies EXCEPT ![c] = @ + 1]
             /\ Reply(c, "extend")
             /\ UNCHANGED <<caller, service, stage, index, verdicts>>
    <3>1. inbox' \in [Call -> SUBSET Answer]
      BY <1>2, <2>3 DEF Answer
    <3>2. replies' \in [Call -> 0..MaxReplies]
      BY <2>3
    <3>3. QED
      BY <2>3, <3>1, <3>2 DEF caller, service, verdicts
  <2>4. QED
    BY <1>5, <2>1, <2>2, <2>3 DEF Validator
<1>6. ASSUME NEW c \in Call, HandleRequest(c) PROVE TypeOK'
  <2>1. CASE Authenticate(c)
    BY <1>3, <1>4, <2>1 DEF Authenticate, Check, Stage, Refusal, Answer
  <2>2. CASE Authorize(c)
    BY <1>3, <1>4, <2>2 DEF Authorize, Check, Stage, Refusal, Answer
  <2>3. CASE Validate(c)
    BY <1>5, <2>3 DEF Validate
  <2>4. CASE CallHandler(c)
    BY <2>4 DEF CallHandler, Goto, Stage, Check, caller, service
  <2>5. CASE HandlerReplies(c)
    <3>1. replies' \in [Call -> 0..MaxReplies]
      BY <2>5 DEF HandlerReplies
    <3>2. inbox' \in [Call -> SUBSET Answer]
      BY <1>2, <2>5 DEF HandlerReplies, Answer
    <3>3. QED
      BY <2>5, <3>1, <3>2 DEF HandlerReplies, caller, service, verdicts
  <2>6. CASE HandlerReturns(c)
    BY <2>6 DEF HandlerReturns, Goto, Stage, caller, service, verdicts
  <2>7. CASE Panics(c)
    <3>1. inbox' \in [Call -> SUBSET Answer]
      BY <1>2, <2>7 DEF Panics, Answer
    <3>2. QED
      BY <2>7, <3>1 DEF Panics, Goto, Stage, caller, service, verdicts
  <2>8. QED
    BY <1>6, <2>1, <2>2, <2>3, <2>4, <2>5, <2>6, <2>7 DEF HandleRequest
<1>7. ASSUME NEW p \in {"down", "panicked"}, End(p) PROVE TypeOK'
  BY <1>7 DEF End, Stage, caller, verdicts
<1>8. ASSUME NEW c \in Call, HandleValidation(c) PROVE TypeOK'
  <2>1. CASE ValidatePublish(c)
    BY <1>5, <2>1 DEF ValidatePublish
  <2>2. CASE Undeclared(c)
    BY <1>4, <2>2 DEF Undeclared, Refusal, Answer
  <2>3. CASE Grant(c)
    <3>1. inbox' \in [Call -> SUBSET Answer]
      BY <1>2, <2>3 DEF Grant, Answer, Success
    <3>2. QED
      BY <2>3, <3>1 DEF Grant, Goto, Stage, Check, caller, service
  <2>4. CASE OwnerPanics(c)
    BY <1>7, <2>4 DEF OwnerPanics
  <2>5. QED
    BY <1>8, <2>1, <2>2, <2>3, <2>4 DEF HandleValidation
<1>9. ASSUME NEW c \in Call, NEW m \in {"request", "event"}, Deliver(c, m)
      PROVE  TypeOK'
  <2>1. FirstStage(c, m) \in Stage
    BY DEF FirstStage, Stage
  <2>2. index' \in [Call -> 0..Validators]
    BY <1>9 DEF Deliver
  <2>3. QED
    BY <1>9, <2>1, <2>2 DEF Deliver, Goto, caller, verdicts
<1>10. ASSUME NEW c \in Call, NoResponders(c) PROVE TypeOK'
  BY <1>10 DEF NoResponders, caller, Answer, Check
<1>11. ASSUME NEW m \in wire, Lose(m) PROVE TypeOK'
  BY <1>11 DEF Lose, caller, verdicts
<1>12. CASE Crash
  BY <1>7, <1>12 DEF Crash
<1>13. CASE Restart
  BY <1>13 DEF Restart, caller, verdicts
<1>14. CASE UNCHANGED vars
  BY <1>14 DEF vars
<1>15. QED
  BY <1>1, <1>6, <1>8, <1>9, <1>10, <1>11, <1>12, <1>13, <1>14 DEF Next

\* Every variable keeps its type.
THEOREM TypeCorrect == Spec => []TypeOK
<1>1. Init => TypeOK
  BY PipelineAssumption DEF Init, TypeOK, Stage
<1>2. QED
  BY <1>1, TypeStep, PTL DEF Spec

-----------------------------------------------------------------------------
(* What the steps of one call leave of the others. *)

Same(d) ==
  /\ kind'[d] = kind[d] /\ pc'[d] = pc[d] /\ stage'[d] = stage[d]
  /\ inbox'[d] = inbox[d] /\ result'[d] = result[d] /\ passed'[d] = passed[d]
  /\ refused'[d] = refused[d] /\ handled'[d] = handled[d]
  /\ <<d, "request">> \in wire' <=> <<d, "request">> \in wire
  /\ <<d, "event">> \in wire' <=> <<d, "event">> \in wire

LEMMA Elsewhere ==
  ASSUME NEW d \in Call, CallInv(d), Same(d)
  PROVE  CallInv(d)'
BY DEF Same, CallInv, CallerInv, WireInv, StageInv, VerdictInv, InboxInv,
       Before, Quiet, Agreed, IsEvent

LEMMA OthersSame ==
  ASSUME TypeOK, NEW c \in Call, NEW d \in Call, d # c,
         \/ Caller(c) \/ HandleRequest(c) \/ NoResponders(c)
         \/ ValidatePublish(c) \/ Undeclared(c) \/ Grant(c)
         \/ \E m \in {"request", "event"} : Deliver(c, m)
  PROVE  Same(d)
<1> USE DEF TypeOK, caller, service, verdicts
<1>1. CASE Caller(c)
  BY <1>1 DEF Caller, SocketRefuses, Request, SendFails, Announce, PublishRaw,
              Receive, Extend, TimeOut, Return, Same
<1>2. ASSUME NEW a, Reply(c, a) PROVE inbox'[d] = inbox[d]
  BY <1>2 DEF Reply
<1>3. ASSUME NEW check, NEW next, Passes(c, check, next) PROVE Same(d)
  BY <1>3 DEF Passes, Goto, Same
<1>4. ASSUME NEW r, NEW a, Refuses(c, r, a) PROVE Same(d)
  BY <1>2, <1>4 DEF Refuses, Goto, Same
<1>5. CASE Validator(c)
  BY <1>2, <1>4, <1>5 DEF Validator, Same
<1>6. CASE HandleRequest(c)
  BY <1>2, <1>3, <1>4, <1>5, <1>6
     DEF HandleRequest, Authenticate, Authorize, Validate, CallHandler,
         HandlerReplies, HandlerReturns, Panics, Goto, Same
<1>7. CASE NoResponders(c)
  BY <1>7 DEF NoResponders, Same
<1>8. CASE ValidatePublish(c) \/ Undeclared(c) \/ Grant(c)
  BY <1>2, <1>4, <1>5, <1>8 DEF ValidatePublish, Undeclared, Grant, Goto, Same
<1>9. ASSUME NEW m \in {"request", "event"}, Deliver(c, m) PROVE Same(d)
  BY <1>9 DEF Deliver, Goto, Same
<1>10. QED
  BY <1>1, <1>6, <1>7, <1>8, <1>9

-----------------------------------------------------------------------------
(* What the steps of a call make of it. *)

LEMMA CallerStep ==
  ASSUME DenialsDeny, TypeOK, NEW c \in Call, CallInv(c), Caller(c)
  PROVE  CallInv(c)'
<1> USE DEF TypeOK, caller, service, verdicts, Return,
            CallInv, CallerInv, WireInv, StageInv, VerdictInv, InboxInv,
            Before, Quiet, Agreed, IsEvent
<1>1. CASE SocketRefuses(c)
  BY <1>1 DEF SocketRefuses
<1>2. CASE Request(c)
  BY <1>2 DEF Request
<1>3. CASE SendFails(c)
  BY <1>3 DEF SendFails
<1>4. CASE Announce(c)
  BY <1>4 DEF Announce
<1>5. CASE PublishRaw(c)
  BY <1>5 DEF PublishRaw, Asks
<1>6. CASE Receive(c)
  <2>1. PICK a \in inbox[c] \ {"extend"} :
          IF kind[c] = "event" /\ Granted(a)
          THEN pc' = [pc EXCEPT ![c] = "publishing"] /\ UNCHANGED result
          ELSE \E w \in Want : Return(c, Decoded(w, a))
    BY <1>6 DEF Receive
  <2>2. \A w \in Want : Decoded(w, a) = "nil" => a \in Success
    BY DEF Decoded, Answer, Success, Refusal
  <2>3. CASE kind[c] = "event" /\ Granted(a)
    BY <1>6, <2>1, <2>3 DEF Receive, Asks
  <2>4. CASE ~(kind[c] = "event" /\ Granted(a))
    BY <1>6, <2>1, <2>2, <2>4 DEF Receive
  <2>5. QED
    BY <2>3, <2>4
<1>7. CASE Extend(c)
  BY <1>7 DEF Extend
<1>8. CASE TimeOut(c)
  BY <1>8 DEF TimeOut
<1>9. QED
  BY <1>1, <1>2, <1>3, <1>4, <1>5, <1>6, <1>7, <1>8 DEF Caller

LEMMA DeliveryStep ==
  ASSUME TypeOK, NEW c \in Call, CallInv(c),
         \/ NoResponders(c)
         \/ \E m \in {"request", "event"} : Deliver(c, m)
  PROVE  CallInv(c)'
<1> USE DEF TypeOK, caller, service, verdicts,
            CallInv, CallerInv, WireInv, StageInv, VerdictInv, InboxInv,
            Before, Quiet, Agreed, IsEvent
<1>1. CASE Deliver(c, "request")
  BY <1>1 DEF Deliver, Goto, FirstStage, Required, Kind
<1>2. CASE Deliver(c, "event")
  BY <1>2 DEF Deliver, Goto, FirstStage
<1>3. CASE NoResponders(c)
  BY <1>3 DEF NoResponders, Success
<1>4. QED
  BY <1>1, <1>2, <1>3

LEMMA CheckStep ==
  ASSUME DenialsDeny, TypeOK, NEW c \in Call, CallInv(c),
         HandleRequest(c) \/ ValidatePublish(c) \/ Undeclared(c) \/ Grant(c)
  PROVE  CallInv(c)'
<1> USE DEF TypeOK, caller, service, verdicts, Goto, Reply,
            CallInv, CallerInv, WireInv, StageInv, VerdictInv, InboxInv,
            Before, Quiet, Agreed, IsEvent
<1>1. ASSUME stage[c] \in {"owner", "authenticate", "authorize", "validate"},
             NEW r \in Refusal, Refuses(c, r, r)
      PROVE  CallInv(c)'
  BY <1>1 DEF Refuses, Refusal, Success, Asks, Granted, Decoded
<1>2. ASSUME stage[c] \in {"owner", "validate"}, Validator(c)
      PROVE  CallInv(c)'
  <2>1. \A a \in Denials : a = "denied"
    BY DEF DenialsDeny
  <2>2. CASE \E a \in Denials : Refuses(c, "denied", a)
    BY <1>1, <1>2, <2>1, <2>2 DEF Refusal
  <2>3. CASE UNCHANGED <<caller, service, stage, replies, inbox, verdicts>>
    BY <2>3
  <2>4. CASE /\ Reply(c, "extend")
             /\ UNCHANGED <<caller, service, stage, index, verdicts>>
    BY <1>2, <2>4
  <2>5. QED
    BY <1>2, <2>2, <2>3, <2>4 DEF Validator
<1>3. CASE Authenticate(c)
  BY <1>1, <1>3 DEF Authenticate, Passes, Refusal
<1>4. CASE Authorize(c)
  BY <1>1, <1>4 DEF Authorize, Passes, Refusal, Required
<1>5. CASE Validate(c)
  BY <1>2, <1>5 DEF Validate
<1>6. CASE CallHandler(c)
  BY <1>6 DEF CallHandler, Required
<1>7. CASE HandlerReplies(c)
  BY <1>7 DEF HandlerReplies
<1>8. CASE HandlerReturns(c)
  BY <1>8 DEF HandlerReturns
<1>9. CASE Panics(c)
  BY <1>9 DEF Panics, Success
<1>10. CASE ValidatePublish(c)
  BY <1>2, <1>10 DEF ValidatePublish
<1>11. CASE Undeclared(c)
  BY <1>1, <1>11 DEF Undeclared, Refusal
<1>12. CASE Grant(c)
  BY <1>12 DEF Grant, Asks
<1>13. QED
  BY <1>3, <1>4, <1>5, <1>6, <1>7, <1>8, <1>9, <1>10, <1>11, <1>12
     DEF HandleRequest

-----------------------------------------------------------------------------
(* Every step. *)

LEMMA NextIInv ==
  ASSUME DenialsDeny, TypeOK, TypeOK', IInv, [Next]_vars
  PROVE  IInv'
<1> SUFFICES ASSUME NEW d \in Call PROVE CallInv(d)'
  BY DEF IInv
<1>1. CallInv(d)
  BY DEF IInv
<1>2. ASSUME NEW c \in Call,
             \/ Caller(c) \/ HandleRequest(c) \/ NoResponders(c)
             \/ ValidatePublish(c) \/ Undeclared(c) \/ Grant(c)
             \/ \E m \in {"request", "event"} : Deliver(c, m)
      PROVE  CallInv(d)'
  <2>1. CASE d = c
    BY <1>1, <1>2, <2>1, CallerStep, DeliveryStep, CheckStep
  <2>2. CASE d # c
    BY <1>1, <1>2, <2>2, OthersSame, Elsewhere
  <2>3. QED
    BY <2>1, <2>2
<1>3. ASSUME NEW m \in wire, Lose(m) PROVE CallInv(d)'
  BY <1>1, <1>3
     DEF Lose, caller, verdicts, CallInv, CallerInv, WireInv, StageInv,
         VerdictInv, InboxInv, Before, Quiet, Agreed, IsEvent
<1>4. ASSUME NEW p, End(p) PROVE CallInv(d)'
  BY <1>1, <1>4
     DEF End, TypeOK, caller, verdicts, CallInv, CallerInv, WireInv, StageInv,
         VerdictInv, InboxInv, Before, Quiet, Agreed, IsEvent
<1>5. CASE Restart \/ UNCHANGED vars
  BY <1>1, <1>5, Elsewhere DEF Restart, vars, caller, verdicts, Same
<1>6. QED
  BY <1>2, <1>3, <1>4, <1>5 DEF Next, HandleValidation, OwnerPanics, Crash

\* The invariant holds of every execution in which denials deny.
THEOREM Invariant == DenialsDeny /\ Spec => []IInv
<1>1. Init => IInv
  BY DEF Init, IInv, CallInv, CallerInv, WireInv, StageInv, VerdictInv,
         InboxInv, Before, Quiet, Agreed
<1>2. DenialsDeny /\ TypeOK /\ TypeOK' /\ IInv /\ [Next]_vars => IInv'
  BY NextIInv
<1>3. DenialsDeny => []DenialsDeny
  <2>1. DenialsDeny => DenialsDeny'
    BY DEF DenialsDeny
  <2> QED BY <2>1, PTL
<1> QED BY <1>1, <1>2, <1>3, TypeCorrect, PTL DEF Spec

\* No handler sees a call before every check it needs has passed.
THEOREM ChecksBeforeHandling == DenialsDeny /\ Spec => []AllowedFirst
<1>1. TypeOK /\ IInv => AllowedFirst
  BY DEF TypeOK, IInv, CallInv, VerdictInv, Agreed, AllowedFirst
<1> QED BY <1>1, Invariant, TypeCorrect, PTL

\* What was refused is never handled.
THEOREM RefusesForGood == DenialsDeny /\ Spec => []RefusedForGood
<1>1. TypeOK /\ IInv => RefusedForGood
  BY DEF TypeOK, IInv, CallInv, VerdictInv, RefusedForGood
<1> QED BY <1>1, Invariant, TypeCorrect, PTL

\* A request that returns nil was handled and not refused.
THEOREM SucceedsOnlyHandled == DenialsDeny /\ Spec => []NilMeansHandled
<1>1. TypeOK /\ IInv => NilMeansHandled
  BY DEF TypeOK, IInv, CallInv, InboxInv, VerdictInv, NilMeansHandled
<1> QED BY <1>1, Invariant, TypeCorrect, PTL

\* Only the validation of an event can end the process by a panic.
THEOREM ContainsPanics == DenialsDeny /\ Spec => []PanicContained
<1>1. Init => PanicContained
  BY DEF Init, PanicContained
<1>2. TypeOK /\ IInv /\ PanicContained /\ [Next]_vars => PanicContained'
  <2> SUFFICES ASSUME TypeOK, IInv, PanicContained, [Next]_vars,
                      process' = "panicked"
               PROVE  \E c \in Call : kind'[c] = "event"
    BY DEF PanicContained
  <2>1. kind' = kind
    BY DEF Next, Caller, SocketRefuses, Request, SendFails, Announce,
           PublishRaw, Receive, Extend, TimeOut, HandleRequest, Authenticate,
           Authorize, Validate, Validator, CallHandler, HandlerReplies,
           HandlerReturns, Panics, Passes, Refuses, HandleValidation,
           ValidatePublish, Undeclared, Grant, OwnerPanics, End, Deliver,
           NoResponders, Lose, Crash, Restart, caller, vars
  <2>2. CASE process = "panicked"
    BY <2>1, <2>2 DEF PanicContained
  <2>3. CASE process # "panicked"
    <3>1. PICK c \in Call : OwnerPanics(c)
      BY <2>3 DEF Next, Caller, SocketRefuses, Request, SendFails, Announce,
           PublishRaw, Receive, Extend, TimeOut, HandleRequest, Authenticate,
           Authorize, Validate, Validator, CallHandler, HandlerReplies,
           HandlerReturns, Panics, Passes, Refuses, HandleValidation,
           ValidatePublish, Undeclared, Grant, End, Deliver,
           NoResponders, Lose, Crash, Restart, service, vars
    <3>2. kind[c] = "event"
      BY <3>1 DEF OwnerPanics, IInv, CallInv, StageInv
    <3>3. QED
      BY <2>1, <3>2
  <2>4. QED
    BY <2>2, <2>3
<1> QED BY <1>1, <1>2, Invariant, TypeCorrect, PTL DEF Spec

-----------------------------------------------------------------------------
(* The refinement: every step is one of GuardedCall for the call that      *)
(* takes it, or a stutter.                                                 *)

\* What a step does to a call, as GuardedCall sees it.
Stutters(c) ==
  PassedBy(c)' = PassedBy(c) /\ VerdictOn(c)' = VerdictOn(c)
    /\ OutcomeOf(c)' = OutcomeOf(c)

PassesOne(c) ==
  /\ VerdictOn(c) = "open" /\ VerdictOn(c)' = "open"
  /\ \E k \in Check : PassedBy(c)' = PassedBy(c) \cup {k}
  /\ OutcomeOf(c)' = OutcomeOf(c)

IsRefused(c) ==
  /\ VerdictOn(c) = "open" /\ VerdictOn(c)' = "refused"
  /\ PassedBy(c)' = PassedBy(c)
  /\ \/ OutcomeOf(c)' = OutcomeOf(c)
     \/ OutcomeOf(c) = "pending" /\ OutcomeOf(c)' = "failure"

IsHandled(c) ==
  /\ VerdictOn(c) = "open" /\ VerdictOn(c)' = "handled"
  /\ \E k \in Check : PassedBy(c)' = PassedBy(c) \cup {k}
  /\ TermsOf(c).demands \subseteq PassedBy(c)'
  /\ OutcomeOf(c)' = OutcomeOf(c)

Returns(c) ==
  /\ PassedBy(c)' = PassedBy(c) /\ VerdictOn(c)' = VerdictOn(c)
  /\ OutcomeOf(c) = "pending"
  /\ \/ OutcomeOf(c)' = "failure"
     \/ /\ OutcomeOf(c)' = "success"
        /\ IF Asks(kind[c]) THEN VerdictOn(c) = "handled"
           ELSE VerdictOn(c) # "refused"

LEMMA Lift ==
  ASSUME NEW c \in Call, kind' = kind,
         \A d \in Call \ {c} : Stutters(d),
         \/ Stutters(c) \/ PassesOne(c) \/ IsRefused(c)
         \/ IsHandled(c) \/ Returns(c)
  PROVE  [G!GuardedNext]_(G!guardedVars)
<1> DEFINE terms    == [d \in Call |-> TermsOf(d)]
           passedBy == [d \in Call |-> PassedBy(d)]
           judged   == [d \in Call |-> VerdictOn(d)]
           outcomes == [d \in Call |-> OutcomeOf(d)]
<1>1. terms' = terms
  BY DEF TermsOf
<1>2. CASE Stutters(c)
  <2>1. passedBy' = passedBy /\ judged' = judged /\ outcomes' = outcomes
    BY <1>2 DEF Stutters
  <2> QED BY <1>1, <2>1 DEF G!guardedVars
<1>3. CASE PassesOne(c)
  <2>1. PICK k \in Check : PassedBy(c)' = PassedBy(c) \cup {k}
    BY <1>3 DEF PassesOne
  <2>2. passedBy' = [passedBy EXCEPT ![c] = @ \cup {k}]
    BY <2>1 DEF Stutters
  <2>3. judged' = judged /\ outcomes' = outcomes /\ judged[c] = "open"
    BY <1>3 DEF PassesOne, Stutters
  <2>4. G!Pass(c, k)
    BY <1>1, <2>2, <2>3 DEF G!Pass
  <2> QED BY <2>4 DEF G!GuardedNext
<1>4. CASE IsRefused(c)
  <2>1. passedBy' = passedBy /\ judged[c] = "open"
    BY <1>4 DEF IsRefused, Stutters
  <2>2. judged' = [judged EXCEPT ![c] = "refused"]
    BY <1>4 DEF IsRefused, Stutters
  <2>3. \/ outcomes' = outcomes
        \/ outcomes[c] = "pending" /\ outcomes' = [outcomes EXCEPT ![c] = "failure"]
    BY <1>4 DEF IsRefused, Stutters
  <2>4. G!Refuse(c) \/ G!RefuseAtOnce(c)
    BY <1>1, <2>1, <2>2, <2>3 DEF G!Refuse, G!RefuseAtOnce
  <2> QED BY <2>4 DEF G!GuardedNext
<1>5. CASE IsHandled(c)
  <2>1. PICK k \in Check : PassedBy(c)' = PassedBy(c) \cup {k}
    BY <1>5 DEF IsHandled
  <2>2. passedBy' = [passedBy EXCEPT ![c] = @ \cup {k}]
    BY <2>1 DEF Stutters
  <2>3. outcomes' = outcomes /\ judged[c] = "open"
    BY <1>5 DEF IsHandled, Stutters
  <2>4. judged' = [judged EXCEPT ![c] = "handled"]
    BY <1>5 DEF IsHandled, Stutters
  <2>5. terms[c].demands \subseteq passedBy'[c]
    BY <1>5 DEF IsHandled
  <2>6. G!Handle(c, k)
    BY <1>1, <2>2, <2>3, <2>4, <2>5 DEF G!Handle
  <2> QED BY <2>6 DEF G!GuardedNext
<1>6. CASE Returns(c)
  <2>1. passedBy' = passedBy /\ judged' = judged /\ outcomes[c] = "pending"
    BY <1>6 DEF Returns, Stutters
  <2>2. PICK o \in {"success", "failure"} :
          /\ outcomes' = [outcomes EXCEPT ![c] = o]
          /\ o = "success" => IF Asks(kind[c]) THEN VerdictOn(c) = "handled"
                             ELSE VerdictOn(c) # "refused"
    BY <1>6 DEF Returns, Stutters
  <2>3. o = "success" => G!Succeeds(c)
    BY <2>2 DEF G!Succeeds, TermsOf
  <2>4. G!Return(c, o)
    BY <1>1, <2>1, <2>2, <2>3 DEF G!Return
  <2> QED BY <2>4 DEF G!GuardedNext
<1> QED BY <1>2, <1>3, <1>4, <1>5, <1>6

LEMMA SameStutters ==
  ASSUME NEW d \in Call, Same(d) PROVE Stutters(d)
BY DEF Same, Stutters, PassedBy, VerdictOn, OutcomeOf

LEMMA CallerRefines ==
  ASSUME TypeOK, NEW c \in Call, CallInv(c), Caller(c)
  PROVE  kind' = kind /\ (Stutters(c) \/ IsRefused(c) \/ Returns(c))
<1> USE DEF TypeOK, caller, service, verdicts, Return, PassedBy, VerdictOn,
            OutcomeOf, CallInv, CallerInv, WireInv, InboxInv, VerdictInv,
            Before, IsEvent, Asks
<1>1. CASE SocketRefuses(c)
  BY <1>1 DEF SocketRefuses, IsRefused
<1>2. CASE Request(c) \/ Announce(c)
  BY <1>2 DEF Request, Announce, Stutters
<1>3. pc[c] # "returned" => result[c] = "none"
  BY DEF CallerInv
<1>4. CASE SendFails(c)
  BY <1>3, <1>4 DEF SendFails, Returns
<1>5. CASE PublishRaw(c)
  BY <1>3, <1>5 DEF PublishRaw, Returns
<1>6. CASE Receive(c)
  <2>1. PICK a \in inbox[c] \ {"extend"} :
          IF kind[c] = "event" /\ Granted(a)
          THEN pc' = [pc EXCEPT ![c] = "publishing"] /\ UNCHANGED result
          ELSE \E w \in Want : Return(c, Decoded(w, a))
    BY <1>6 DEF Receive
  <2>2. \A w \in Want : Decoded(w, a) = "nil" => a \in Success /\ Granted(a)
    BY DEF Decoded, Granted, Answer, Success, Refusal
  <2>3. CASE kind[c] = "event" /\ Granted(a)
    BY <1>6, <2>1, <2>3 DEF Receive, Stutters
  <2>4. CASE ~(kind[c] = "event" /\ Granted(a))
    <3>1. PICK w \in Want : Return(c, Decoded(w, a))
      BY <2>1, <2>4
    <3>2. Decoded(w, a) # "none"
      BY DEF Decoded, Answer, Success, Refusal
    <3>3. Decoded(w, a) = "nil" =>
            Asks(kind[c]) /\ handled[c] > 0 /\ refused[c] = "none"
      BY <1>6, <2>2, <2>4 DEF Receive, Kind
    <3> QED BY <1>3, <1>6, <3>1, <3>2, <3>3 DEF Receive, Returns
  <2> QED BY <2>3, <2>4
<1>7. CASE Extend(c)
  BY <1>7 DEF Extend, Stutters
<1>8. CASE TimeOut(c)
  BY <1>3, <1>8 DEF TimeOut, Returns
<1> QED BY <1>1, <1>2, <1>4, <1>5, <1>6, <1>7, <1>8 DEF Caller

LEMMA ServiceRefines ==
  ASSUME TypeOK, NEW c \in Call, CallInv(c),
         \/ HandleRequest(c) \/ NoResponders(c)
         \/ ValidatePublish(c) \/ Undeclared(c) \/ Grant(c)
         \/ \E m \in {"request", "event"} : Deliver(c, m)
  PROVE  /\ kind' = kind
         /\ Stutters(c) \/ PassesOne(c) \/ IsRefused(c) \/ IsHandled(c)
<1> USE DEF TypeOK, caller, service, verdicts, PassedBy, VerdictOn, OutcomeOf,
            CallInv, WireInv, StageInv, VerdictInv, Before, Agreed, IsEvent
<1>1. ASSUME refused[c] = "none", handled[c] = 0, NEW check \in Check, NEW next,
             Passes(c, check, next)
      PROVE  kind' = kind /\ PassesOne(c)
  <2>1. PassedBy(c)' = PassedBy(c) \cup {IF check = "nobody" /\ kind[c] = "event"
                                        THEN "owner" ELSE check}
    BY <1>1 DEF Passes
  <2> QED BY <1>1, <2>1 DEF Passes, PassesOne, Check
<1>2. ASSUME refused[c] = "none", handled[c] = 0, NEW r \in Refusal, NEW a,
             Refuses(c, r, a)
      PROVE  kind' = kind /\ IsRefused(c)
  BY <1>2 DEF Refuses, IsRefused, Refusal
<1>3. ASSUME Validator(c), refused[c] = "none", handled[c] = 0
      PROVE  kind' = kind /\ (Stutters(c) \/ IsRefused(c))
  BY <1>2, <1>3 DEF Validator, Stutters, Refusal
<1>4. CASE Authenticate(c)
  BY <1>1, <1>2, <1>4 DEF Authenticate, Check, Refusal
<1>5. CASE Authorize(c)
  BY <1>1, <1>2, <1>5 DEF Authorize, Check, Refusal
<1>6. CASE Validate(c) \/ ValidatePublish(c)
  BY <1>3, <1>6 DEF Validate, ValidatePublish
<1>7. CASE CallHandler(c)
  <2>1. PassedBy(c)' = PassedBy(c) \cup {"validators"}
    BY <1>7 DEF CallHandler
  <2>2. TermsOf(c).demands \subseteq PassedBy(c)'
    BY <1>7, <2>1 DEF CallHandler, TermsOf, Required
  <2> QED BY <1>7, <2>1, <2>2 DEF CallHandler, IsHandled, Check
<1>8. CASE HandlerReplies(c) \/ HandlerReturns(c) \/ Panics(c)
  BY <1>8 DEF HandlerReplies, HandlerReturns, Panics, Stutters
<1>9. CASE Undeclared(c)
  BY <1>2, <1>9 DEF Undeclared, Refusal
<1>10. CASE Grant(c)
  BY <1>10 DEF Grant, PassesOne, Check
<1>11. CASE NoResponders(c)
  BY <1>11 DEF NoResponders, PassesOne, Stutters, Check
<1>12. CASE \E m \in {"request", "event"} : Deliver(c, m)
  BY <1>12 DEF Deliver, Stutters
<1> QED BY <1>4, <1>5, <1>6, <1>7, <1>8, <1>9, <1>10, <1>11, <1>12
        DEF HandleRequest

LEMMA StepRefines ==
  ASSUME TypeOK, IInv, [Next]_vars
  PROVE  [G!GuardedNext]_(G!guardedVars)
<1>1. ASSUME NEW c \in Call,
             \/ Caller(c) \/ HandleRequest(c) \/ NoResponders(c)
             \/ ValidatePublish(c) \/ Undeclared(c) \/ Grant(c)
             \/ \E m \in {"request", "event"} : Deliver(c, m)
      PROVE  [G!GuardedNext]_(G!guardedVars)
  <2>1. \A d \in Call \ {c} : Stutters(d)
    BY <1>1, OthersSame, SameStutters
  <2>2. CallInv(c)
    BY DEF IInv
  <2> QED BY <1>1, <2>1, <2>2, CallerRefines, ServiceRefines, Lift
<1>2. ASSUME UNCHANGED <<kind, result, passed, refused, handled>>
      PROVE  UNCHANGED G!guardedVars
  BY <1>2 DEF G!guardedVars, TermsOf, PassedBy, VerdictOn, OutcomeOf
<1>3. CASE Restart \/ UNCHANGED vars \/ \E m \in wire : Lose(m)
  BY <1>2, <1>3 DEF Restart, vars, Lose, caller, verdicts
<1>4. ASSUME NEW p, End(p) PROVE [G!GuardedNext]_(G!guardedVars)
  BY <1>2, <1>4 DEF End, caller, verdicts
<1> QED BY <1>1, <1>3, <1>4 DEF Next, HandleValidation, OwnerPanics, Crash

\* A call over v2 is what GuardedCall says a call is, as long as validators
\* deny with errors that deny.
THEOREM Refinement == DenialsDeny /\ Spec => ImplementsGuardedCall
<1>1. Init => G!GuardedInit
  BY DEF Init, G!GuardedInit, G!Terms, TermsOf, PassedBy, VerdictOn, OutcomeOf,
         Required, Check
<1>2. TypeOK /\ IInv /\ [Next]_vars => [G!GuardedNext]_(G!guardedVars)
  BY StepRefines
<1> QED BY <1>1, <1>2, Invariant, TypeCorrect, PTL
        DEF Spec, ImplementsGuardedCall, G!GuardedSpec
=============================================================================
