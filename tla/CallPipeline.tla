---------------------------- MODULE CallPipeline ----------------------------
(***************************************************************************)
(* A call from end to end: Request and Publish of specificProviderBase     *)
(* (v2/pkg/broker/specific-provider-base.go:68-148), the checks that       *)
(* handleRequest (v2/pkg/spike/request-handler.go) and validatePublish     *)
(* (api-service-impl.go) make of it, the handler's answers, and what the   *)
(* caller makes of those.  One service, which declares an event and        *)
(* monitors it too; its process may die and start again.                   *)
(*                                                                         *)
(* RequestReply models the way of a message; here an answer waits for the  *)
(* caller until it is read, and a lost one is never read.  What the        *)
(* authenticator, the authorizer, validators and handlers decide is open.  *)
(***************************************************************************)
EXTENDS Naturals, FiniteSets

CONSTANTS
  Call,        \* calls, each with an inbox of its own
  Validators,  \* validators of a subscription, and of the event
  MaxReplies,  \* bound: replies to a call, those for more time included
  Denials      \* the errors a validator gives AccessDenied, by their codes

ASSUME PipelineAssumption ==
  /\ Validators \in Nat /\ MaxReplies \in Nat
  /\ Denials \subseteq {"denied", "absent", "reported"}

\* Methods that are public, others, INTERNAL ones, and EVENT: published for a
\* client, with its token, or by a service itself, without one.
Kind == {"public", "protected", "internal", "event", "announcement"}

\* What an answer says: 200 with JSON or with other bytes, an error whose code
\* is a 2xx (ErrorInformationAlreadyExists), any other error of the handler,
\* the recovered panic, the refusals, code 503 (nobody there), more time.
Refusal == {"unauthorized", "forbidden", "denied"}
Success == {"json", "bytes", "reported"}
Answer == Success \cup Refusal \cup {"error", "panic", "absent", "extend"}

\* What the caller wants the data decoded into: rs.
Want == {"nothing", "raw", "value"}

VARIABLES
  kind,     \* kind[c]: the method c calls
  process,  \* the service's process: "up", "down", or "panicked"
  pc,       \* pc[c]: where the caller is
  wire,     \* <<c, "request">>, <<c, "event">>: c's message is on its way
  stage,    \* stage[c]: where the goroutine that handles it is
  index,    \* index[c]: validators that have run without an error
  replies,  \* replies[c]: replies to c so far that are no verdict of a check
  inbox,    \* inbox[c]: answers the caller has not read
  result,   \* result[c]: what Request or Publish returned
  passed,   \* passed[c]: the checks that c has passed, or "nobody" to ask
  refused,  \* refused[c]: the check that refused c
  handled   \* handled[c]: how often a handler was called with c

vars == <<kind, process, pc, wire, stage, index, replies, inbox, result,
          passed, refused, handled>>
caller == <<kind, pc, result>>
service == <<process, wire>>
verdicts == <<passed, refused, handled>>

Stage == {"none", "owner", "authenticate", "authorize", "validate", "handle",
          "ended"}

Check == {"nobody", "owner", "token", "permission", "validators"}

TypeOK ==
  /\ kind \in [Call -> Kind]
  /\ process \in {"up", "down", "panicked"}
  /\ pc \in [Call -> {"idle", "waiting", "publishing", "returned"}]
  /\ wire \subseteq Call \X {"request", "event"}
  /\ stage \in [Call -> Stage]
  /\ index \in [Call -> 0..Validators]
  /\ replies \in [Call -> 0..MaxReplies]
  /\ inbox \in [Call -> SUBSET Answer]
  /\ result \in [Call -> {"none", "nil", "timeout", "undecodable"} \cup Answer]
  /\ passed \in [Call -> SUBSET Check]
  /\ refused \in [Call -> {"none"} \cup Refusal]
  /\ handled \in [Call -> Nat]

Init ==
  /\ kind \in [Call -> Kind]
  /\ process = "up"
  /\ pc = [c \in Call |-> "idle"]
  /\ wire = {}
  /\ stage = [c \in Call |-> "none"]
  /\ index = [c \in Call |-> 0] /\ replies = [c \in Call |-> 0]
  /\ inbox = [c \in Call |-> {}]
  /\ result = [c \in Call |-> "none"]
  /\ passed = [c \in Call |-> {}]
  /\ refused = [c \in Call |-> "none"]
  /\ handled = [c \in Call |-> 0]

IsEvent(c) == kind[c] \in {"event", "announcement"}

Goto(c, s) == stage' = [stage EXCEPT ![c] = s]

Return(c, r) ==
  /\ pc' = [pc EXCEPT ![c] = "returned"]
  /\ result' = [result EXCEPT ![c] = r]

-----------------------------------------------------------------------------
(* The caller: a service, the HTTP server or a socket. *)

\* A socket's own checks of the token and the permission, which the message's
\* Handle makes before it calls the broker.
SocketRefuses(c) ==
  /\ pc[c] = "idle"
  /\ kind[c] # "announcement"
  /\ \E r \in {"unauthorized", "forbidden"} :
       Return(c, r) /\ refused' = [refused EXCEPT ![c] = r]
  /\ UNCHANGED <<kind, service, stage, index, replies, inbox, passed, handled>>

\* Request, and the request to validatePublish that Publish makes with a token.
Request(c) ==
  /\ pc[c] = "idle"
  /\ kind[c] # "announcement"
  /\ pc' = [pc EXCEPT ![c] = "waiting"]
  /\ wire' = wire \cup {<<c, "request">>}
  /\ UNCHANGED <<kind, process, stage, index, replies, inbox, result, verdicts>>

\* The NATS connection refuses; a socket knows no such endpoint.
SendFails(c) ==
  /\ pc[c] \in {"idle", "publishing"}
  /\ Return(c, "error")
  /\ UNCHANGED <<kind, service, stage, index, replies, inbox, verdicts>>

\* Publish without a token validates nothing.
Announce(c) ==
  /\ pc[c] = "idle"
  /\ kind[c] = "announcement"
  /\ pc' = [pc EXCEPT ![c] = "publishing"]
  /\ UNCHANGED <<kind, service, stage, index, replies, inbox, result, verdicts>>

\* s.impl.PublishRaw
PublishRaw(c) ==
  /\ pc[c] = "publishing"
  /\ Return(c, "nil")
  /\ wire' = wire \cup {<<c, "event">>}
  /\ UNCHANGED <<kind, process, stage, index, replies, inbox, verdicts>>

\* Mutant of Decoded: the code is not looked at.
DecodedAnyCode(w, a) == IF a = "bytes" /\ w = "value" THEN "undecodable" ELSE "nil"

\* A code less than 100 away from 200 is a success; json.Unmarshal into a value
\* fails for other bytes, and leaves it as it is for no data.
Decoded(w, a) ==
  IF a \notin Success THEN a
  ELSE IF a = "bytes" /\ w = "value" THEN "undecodable" ELSE "nil"

\* rErr = nil, or service unavailable, which v1 services always are.
Granted(a) == Decoded("nothing", a) \in {"nil", "absent"}

\* RequestRaw returns with an answer.
Receive(c) ==
  /\ pc[c] = "waiting"
  /\ \E a \in inbox[c] \ {"extend"} :
       IF kind[c] = "event" /\ Granted(a)
       THEN pc' = [pc EXCEPT ![c] = "publishing"] /\ UNCHANGED result
       ELSE \E w \in Want : Return(c, Decoded(w, a))
  /\ inbox' = [inbox EXCEPT ![c] = {}]
  /\ UNCHANGED <<kind, service, stage, index, replies, verdicts>>

\* More time: RequestRaw waits on.
Extend(c) ==
  /\ pc[c] = "waiting"
  /\ "extend" \in inbox[c]
  /\ inbox' = [inbox EXCEPT ![c] = @ \ {"extend"}]
  /\ UNCHANGED <<caller, service, stage, index, replies, verdicts>>

\* Mutant of TimeOut: the timer is looked at only once a message is there.
TimeOutAfterMessage(c) ==
  /\ pc[c] = "waiting"
  /\ inbox[c] # {}
  /\ Return(c, "timeout")
  /\ inbox' = [inbox EXCEPT ![c] = {}]
  /\ UNCHANGED <<kind, service, stage, index, replies, verdicts>>

\* RequestRaw returns ErrorTimeout.
TimeOut(c) ==
  /\ pc[c] = "waiting"
  /\ Return(c, "timeout")
  /\ inbox' = [inbox EXCEPT ![c] = {}]
  /\ UNCHANGED <<kind, service, stage, index, replies, verdicts>>

Caller(c) ==
  \/ SocketRefuses(c) \/ Request(c) \/ SendFails(c) \/ Announce(c)
  \/ PublishRaw(c) \/ Receive(c) \/ Extend(c) \/ TimeOut(c)

-----------------------------------------------------------------------------
(* The service: a goroutine for each message. *)

\* Events carry no reply subject, and a caller that has returned no inbox.
Reply(c, a) ==
  inbox' = IF pc[c] = "waiting" /\ (IsEvent(c) => stage[c] = "owner")
           THEN [inbox EXCEPT ![c] = @ \cup {a}] ELSE inbox

\* The check a message meets first.
FirstStage(c, message) ==
  IF message = "event" \/ kind[c] = "protected" THEN "authenticate"
  ELSE IF IsEvent(c) THEN "owner" ELSE "validate"

\* dispatch, NewCallFromJSON
Deliver(c, message) ==
  /\ <<c, message>> \in wire
  /\ process = "up"
  /\ wire' = wire \ {<<c, message>>}
  /\ Goto(c, FirstStage(c, message))
  /\ index' = [index EXCEPT ![c] = 0]
  /\ UNCHANGED <<caller, process, replies, inbox, verdicts>>

\* The NATS server answers for a service that is not there.
NoResponders(c) ==
  /\ <<c, "request">> \in wire
  /\ process # "up"
  /\ wire' = wire \ {<<c, "request">>}
  /\ inbox' = IF pc[c] = "waiting" THEN [inbox EXCEPT ![c] = @ \cup {"absent"}]
              ELSE inbox
  /\ passed' = [passed EXCEPT ![c] = @ \cup {"nobody"}]
  /\ UNCHANGED <<caller, process, stage, index, replies, refused, handled>>

\* Nobody is subscribed, or a message is lost.
Lose(m) ==
  /\ wire' = wire \ {m}
  /\ UNCHANGED <<caller, process, stage, index, replies, inbox, verdicts>>

\* A check passes and the next one follows.
Passes(c, check, next) ==
  /\ Goto(c, next)
  /\ passed' = [passed EXCEPT ![c] = @ \cup {check}]
  /\ UNCHANGED <<caller, service, index, replies, inbox, refused, handled>>

\* msg.Error(err); return
Refuses(c, refusal, answer) ==
  /\ Goto(c, "ended")
  /\ Reply(c, answer)
  /\ refused' = [refused EXCEPT ![c] = refusal]
  /\ UNCHANGED <<caller, service, index, replies, passed, handled>>

\* opts.Authenticator.ValidateToken(msg.RawToken())
Authenticate(c) ==
  /\ stage[c] = "authenticate"
  /\ \/ Passes(c, "token", "authorize")
     \/ Refuses(c, "unauthorized", "unauthorized")

\* Mutant of Authorize: the return after the error is missing.
AuthorizeAndGoOn(c) ==
  /\ stage[c] = "authorize"
  /\ \/ Passes(c, "permission", "validate")
     \/ /\ Goto(c, "validate")
        /\ Reply(c, "forbidden")
        /\ refused' = [refused EXCEPT ![c] = "forbidden"]
        /\ UNCHANGED <<caller, service, index, replies, passed, handled>>

\* opts.Authorizer.HasPermission(msg)
Authorize(c) ==
  /\ stage[c] = "authorize"
  /\ \/ Passes(c, "permission", "validate")
     \/ Refuses(c, "forbidden", "forbidden")

\* validator(access): it grants or denies, or asks for more time before.
Validator(c) ==
  /\ index[c] < Validators
  /\ \/ /\ index' = [index EXCEPT ![c] = @ + 1]
        /\ UNCHANGED <<caller, service, stage, replies, inbox, verdicts>>
     \/ \E a \in Denials : Refuses(c, "denied", a)
     \/ /\ replies[c] < MaxReplies
        /\ replies' = [replies EXCEPT ![c] = @ + 1]
        /\ Reply(c, "extend")
        /\ UNCHANGED <<caller, service, stage, index, verdicts>>

Validate(c) == stage[c] = "validate" /\ Validator(c)

\* sub.Handler(msg) is called.
CallHandler(c) ==
  /\ stage[c] = "validate"
  /\ index[c] = Validators
  /\ Goto(c, "handle")
  /\ passed' = [passed EXCEPT ![c] = @ \cup {"validators"}]
  /\ handled' = [handled EXCEPT ![c] = @ + 1]
  /\ UNCHANGED <<caller, service, index, replies, inbox, refused>>

\* OK, File, Error or Timeout of the call.
HandlerReplies(c) ==
  /\ stage[c] = "handle"
  /\ replies[c] < MaxReplies
  /\ replies' = [replies EXCEPT ![c] = @ + 1]
  /\ \E a \in Success \cup {"error", "extend"} : Reply(c, a)
  /\ UNCHANGED <<caller, service, stage, index, verdicts>>

HandlerReturns(c) ==
  /\ stage[c] = "handle"
  /\ Goto(c, "ended")
  /\ UNCHANGED <<caller, service, index, replies, inbox, verdicts>>

\* Mutant of Panics: handleRequest does not recover.
PanicsUnrecovered(c) ==
  /\ stage[c] \in {"authenticate", "authorize", "validate", "handle"}
  /\ process' = "panicked"
  /\ stage' = [d \in Call |-> IF stage[d] = "none" THEN "none" ELSE "ended"]
  /\ UNCHANGED <<caller, wire, index, replies, inbox, verdicts>>

\* A check or the handler panics: handleRequest recovers and sends the error.
Panics(c) ==
  /\ stage[c] \in {"authenticate", "authorize", "validate", "handle"}
  /\ Goto(c, "ended")
  /\ Reply(c, "panic")
  /\ UNCHANGED <<caller, service, index, replies, verdicts>>

\* validatePublish: the validators of the event.
ValidatePublish(c) == stage[c] = "owner" /\ Validator(c)

\* Not one of Events().
Undeclared(c) == stage[c] = "owner" /\ index[c] = 0
                   /\ Refuses(c, "denied", "denied")

\* call.OK()
Grant(c) ==
  /\ stage[c] = "owner"
  /\ index[c] = Validators
  /\ Goto(c, "ended")
  /\ Reply(c, "json")
  /\ passed' = [passed EXCEPT ![c] = @ \cup {"owner"}]
  /\ UNCHANGED <<caller, service, index, replies, refused, handled>>

\* Every goroutine ends with its process.
End(p) ==
  /\ process = "up"
  /\ process' = p
  /\ stage' = [c \in Call |-> IF stage[c] = "none" THEN "none" ELSE "ended"]
  /\ UNCHANGED <<caller, wire, index, replies, inbox, verdicts>>

\* A validator of an event panics: nobody recovers.
OwnerPanics(c) == stage[c] = "owner" /\ End("panicked")

Crash == End("down")

Restart ==
  /\ process # "up"
  /\ process' = "up"
  /\ UNCHANGED <<caller, wire, stage, index, replies, inbox, verdicts>>

HandleRequest(c) ==
  \/ Authenticate(c) \/ Authorize(c) \/ Validate(c) \/ CallHandler(c)
  \/ HandlerReplies(c) \/ HandlerReturns(c) \/ Panics(c)

HandleValidation(c) ==
  ValidatePublish(c) \/ Undeclared(c) \/ Grant(c) \/ OwnerPanics(c)

Next ==
  \/ \E c \in Call :
       \/ Caller(c) \/ HandleRequest(c) \/ HandleValidation(c)
       \/ \E message \in {"request", "event"} : Deliver(c, message)
       \/ NoResponders(c)
  \/ \E m \in wire : Lose(m)
  \/ Crash \/ Restart

\* The caller's goroutine runs and its armed timer fires; an extension may be
\* taken instead, so the steps are fair together.
Fairness == \A c \in Call : WF_vars(pc[c] # "idle" /\ Caller(c))

Spec == Init /\ [][Next]_vars /\ Fairness

-----------------------------------------------------------------------------
(* Properties. *)

\* Validators deny with errors whose code is neither 503 nor a success: the
\* next three properties depend on it, and the code does not see to it.
DenialsDeny == Denials \subseteq {"denied"}

Asks(k) == k \in {"public", "protected", "internal"}

\* The checks the code makes before a handler sees a call of this kind.
Required(k) ==
  IF k \in {"public", "internal"} THEN {"validators"}
  ELSE {"token", "permission", "validators"}

\* A handler is called only after every check that the kind of the method
\* demands; with an event published for a client only after its owner said
\* yes or was not there (request-handler.go:30-59, specific-provider-base.go:134).
AllowedFirst ==
  \A c \in Call :
    handled[c] > 0 =>
      /\ Required(kind[c]) \subseteq passed[c]
      /\ kind[c] = "event" => passed[c] \cap {"owner", "nobody"} # {}

\* What was refused never reaches a handler, whoever refused it: "We must check
\* if the token has permission to publish" (specific-provider-base.go:128).
RefusedForGood ==
  \A c \in Call : refused[c] # "none" => handled[c] = 0

\* Request returns nil only when a handler was called with it and nobody
\* refused it.
NilMeansHandled ==
  \A c \in Call :
    Asks(kind[c]) /\ result[c] = "nil" => handled[c] > 0 /\ refused[c] = "none"

\* No request, and no event, whatever its checks and handlers do, ends the
\* process; the validation of an event can (api-service-impl.go:106-140).
PanicContained == process = "panicked" => \E c \in Call : kind[c] = "event"

\* Request and Publish return, whatever becomes of the messages, the service
\* and the owner of the event, and however often the timeout is extended.
EventuallyReturns ==
  \A c \in Call : pc[c] \in {"waiting", "publishing"} ~> pc[c] = "returned"

\* What GuardedCall calls a call: an event that is published for a client
\* demands its owner's consent, which counts as given when nobody owns it.
TermsOf(c) ==
  [demands  |-> Required(kind[c]) \cup (IF kind[c] = "event" THEN {"owner"} ELSE {}),
   answered |-> IF Asks(kind[c]) THEN "yes" ELSE "no"]

PassedBy(c) ==
  IF kind[c] = "event" /\ "nobody" \in passed[c]
  THEN (passed[c] \ {"nobody"}) \cup {"owner"} ELSE passed[c]

VerdictOn(c) ==
  IF refused[c] # "none" THEN "refused"
  ELSE IF handled[c] > 0 THEN "handled" ELSE "open"

OutcomeOf(c) ==
  IF result[c] = "none" THEN "pending"
  ELSE IF result[c] = "nil" THEN "success" ELSE "failure"

G == INSTANCE GuardedCall WITH
       Excuses <- {}, Silences <- {},
       terms   <- [c \in Call |-> TermsOf(c)],
       passed  <- [c \in Call |-> PassedBy(c)],
       verdict <- [c \in Call |-> VerdictOn(c)],
       outcome <- [c \in Call |-> OutcomeOf(c)]

\* A call over v2 keeps the promise of GuardedCall: it is checked, then handled
\* once or refused for good, and success is reported only when it was handled.
ImplementsGuardedCall == G!GuardedSpec
=============================================================================
