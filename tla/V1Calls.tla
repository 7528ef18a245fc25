------------------------------ MODULE V1Calls ------------------------------
(***************************************************************************)
(* A call of the v1 broker from end to end: its caller (a service, the     *)
(* HTTP handler of pkg/route or a socket), Request, RequestRaw and Publish *)
(* of pkg/service/providers/nats/nats-provider.go, the handler's wrapper   *)
(* of subscribe() with the two requests it makes of the route service, and *)
(* the answers of pkg/service/request.  The route service is called like   *)
(* any other, so those requests are requests here too.  One process holds  *)
(* the handlers; it may die and start again.                               *)
(***************************************************************************)
EXTENDS Naturals

CONSTANTS
  Call,        \* calls and publications, each with inboxes of its own
  Guarded,     \* bound: the calls that may be to authenticated patterns
  MaxReplies,  \* bound: answers of handlers, to all calls together
  Texts        \* the messages that errors carry: "text", or "blank": none

ASSUME V1Assumption ==
  Guarded \subseteq Call /\ MaxReplies \in Nat /\ Texts \subseteq {"text", "blank"}

\* The call itself, and the requests its handler makes before it runs.
Role == {"call", "token", "permission"}
Message == Call \X Role

\* Patterns are authenticated, or open (NoAuth, INTERNAL); events are open.
Kind == {"open", "authenticated", "event"}

\* What an answer says: 200 with JSON; 200 without (OK(), a string, Redirect);
\* an error, or one without a message; nothing at all; "timeout:".
Answer == {"data", "bare", "error", "blank", "absent", "extend"}

VARIABLES
  kind,     \* kind[c]: what c calls
  process,  \* the process of the handlers: "up" or "down"
  text,     \* the Message of its ErrorInternalServerError
  raised,   \* {"blank"} once a handler had an error without a message
  wire,     \* the messages on their way to a handler
  pc,       \* pc[m]: where the sender of m is
  result,   \* result[m]: what Request, Publish or the HTTP handler ended with;
            \* "hollow" is a nil for an answer with nothing in it or an error
            \* without a message, which its sender cannot tell from "nil"
  inbox,    \* inbox[m]: answers its sender has not read
  stage,    \* stage[m]: where the goroutine that handles m is
  replies,  \* answers of handlers and access functions so far
  said,     \* said[c]: answers given to c, read or not, that are no errors
  passed,   \* passed[c]: the checks c has passed; "silence" when the answer to
            \* its request for permission was a hollow one
  refused,  \* refused[c]: the check that refused c
  handled   \* handled[c]: how often a handler was called with c

process_ == <<process, text>>
senders  == <<kind, pc, result>>
history  == <<raised, said, passed, refused, handled>>
vars == <<kind, process, text, raised, wire, pc, result, inbox, stage, replies,
          said, passed, refused, handled>>

Check == {"token", "permission", "access"}

TypeOK ==
  /\ kind \in [Call -> Kind]
  /\ process \in {"up", "down"} /\ text \in {"text", "blank"}
  /\ raised \subseteq {"blank"}
  /\ wire \subseteq Message
  /\ pc \in [Message -> {"idle", "waiting", "returned", "ended"}]
  /\ result \in [Message -> {"none", "nil", "hollow", "error", "timeout"}]
  /\ inbox \in [Message -> SUBSET Answer]
  /\ stage \in [Message -> {"none", "token", "permission", "access", "handle",
                            "recover", "ended"}]
  /\ replies \in 0..MaxReplies
  /\ said \in [Call -> SUBSET Answer]
  /\ passed \in [Call -> SUBSET (Check \cup {"silence"})]
  /\ refused \in [Call -> {"none"} \cup Check]
  /\ handled \in [Call -> Nat]

Init ==
  /\ kind \in [Call -> Kind]
  /\ \A c \in Call : kind[c] = "authenticated" => c \in Guarded
  /\ process = "up" /\ text = "text"
  /\ raised = {} /\ wire = {}
  /\ pc = [m \in Message |-> "idle"] /\ result = [m \in Message |-> "none"]
  /\ inbox = [m \in Message |-> {}] /\ stage = [m \in Message |-> "none"]
  /\ replies = 0
  /\ said = [c \in Call |-> {}] /\ passed = [c \in Call |-> {}]
  /\ refused = [c \in Call |-> "none"]
  /\ handled = [c \in Call |-> 0]

Of(c) == <<c, "call">>

Goto(m, s) == stage' = [stage EXCEPT ![m] = s]

Return(m, r) ==
  /\ pc' = [pc EXCEPT ![m] = "returned"]
  /\ result' = [result EXCEPT ![m] = r]

-----------------------------------------------------------------------------
(* Senders: callers, and the wrappers of handlers.                         *)

\* A call is sent once, whenever its caller likes; the wrapper sends its own
\* requests in turn.
Sends(m) ==
  /\ pc[m] = "idle"
  /\ m[2] # "call" => process = "up" /\ stage[Of(m[1])] = m[2]

CallerRefuses(c, check) ==
  /\ pc[Of(c)] = "idle"
  /\ kind[c] = "authenticated"
  /\ Return(Of(c), "error")
  /\ refused' = [refused EXCEPT ![c] = check]
  /\ UNCHANGED <<kind, process_, raised, wire, inbox, stage, replies, said,
                 passed, handled>>

\* AuthMiddleware validates the token itself, before the HTTP handler runs.
AuthMiddleware(c) == CallerRefuses(c, "token")

\* The HTTP handler and a socket's Handle ask UserHavePermission themselves.
CallerForbids(c) == CallerRefuses(c, "permission")

\* RequestRaw, up to the wait.
Request(m) ==
  /\ Sends(m)
  /\ m[2] = "call" => kind[m[1]] # "event"
  /\ pc' = [pc EXCEPT ![m] = "waiting"]
  /\ wire' = wire \cup {m}
  /\ UNCHANGED <<kind, process_, result, inbox, stage, replies, history>>

\* The connection refuses, or a socket knows no such endpoint.
SendFails(m) ==
  /\ Sends(m)
  /\ Return(m, "error")
  /\ UNCHANGED <<kind, process_, wire, inbox, stage, replies, history>>

\* Publish: there is no reply subject to wait on.
Publish(c) ==
  /\ Sends(Of(c))
  /\ kind[c] = "event"
  /\ Return(Of(c), "nil")
  /\ wire' = wire \cup {Of(c)}
  /\ UNCHANGED <<kind, process_, inbox, stage, replies, history>>

\* An error is one by its message; json.Unmarshal of no data is an error too.
Decoded(w, a) ==
  IF a = "error" \/ (w = "value" /\ a # "data") THEN "error"
  ELSE IF a \in {"absent", "blank"} THEN "hollow" ELSE "nil"

Nil == {"nil", "hollow"}

\* rs: a struct for the token, nil for the permission; the HTTP handler looks
\* at the message of the answer only.
Wants(m) == IF m[2] = "token" THEN {"value"}
            ELSE IF m[2] = "permission" THEN {"nothing"} ELSE {"value", "nothing"}

\* processResponse returns an answer, and Request what it says.
Receive(m) ==
  /\ pc[m] = "waiting"
  /\ \E a \in inbox[m] \ {"extend"}, w \in Wants(m) : Return(m, Decoded(w, a))
  /\ inbox' = [inbox EXCEPT ![m] = {}]
  /\ UNCHANGED <<kind, process_, wire, stage, replies, history>>

\* getTimeout: the timer is set again.
Extend(m) ==
  /\ pc[m] = "waiting"
  /\ "extend" \in inbox[m]
  /\ inbox' = [inbox EXCEPT ![m] = @ \ {"extend"}]
  /\ UNCHANGED <<senders, process_, wire, stage, replies, history>>

\* Mutant of TimeOut: the timer is not set again after an answer.
TimeOutOnce(m) ==
  /\ pc[m] = "waiting"
  /\ replies = 0
  /\ Return(m, "timeout")
  /\ inbox' = [inbox EXCEPT ![m] = {}]
  /\ UNCHANGED <<kind, process_, wire, stage, replies, history>>

\* Mutant of TimeOut: the wrapper's requests have no timeout.
TimeOutOfCallers(m) ==
  /\ pc[m] = "waiting"
  /\ m[2] = "call"
  /\ Return(m, "timeout")
  /\ inbox' = [inbox EXCEPT ![m] = {}]
  /\ UNCHANGED <<kind, process_, wire, stage, replies, history>>

\* ErrorTimeout
TimeOut(m) ==
  /\ pc[m] = "waiting"
  /\ Return(m, "timeout")
  /\ inbox' = [inbox EXCEPT ![m] = {}]
  /\ UNCHANGED <<kind, process_, wire, stage, replies, history>>

Waiting(m) == Receive(m) \/ Extend(m) \/ TimeOut(m)

-----------------------------------------------------------------------------
(* Handlers: a goroutine of subscribe() for each message.                  *)

\* Replies go to the inbox, if the sender still has it; an event has none.
Reply(m, a) ==
  /\ inbox' = IF pc[m] = "waiting" THEN [inbox EXCEPT ![m] = @ \cup {a}] ELSE inbox
  /\ said' = IF m[2] = "call"
             THEN [said EXCEPT ![m[1]] = @ \cup ({a} \ {"error", "extend"})] ELSE said

\* The route's endpoints and open ones are not authenticated; the route's
\* have no access functions either.
FirstStage(m) ==
  IF m[2] # "call" THEN "handle"
  ELSE IF kind[m[1]] = "authenticated" THEN "token" ELSE "access"

Deliver(m) ==
  /\ m \in wire
  /\ process = "up"
  /\ wire' = wire \ {m}
  /\ Goto(m, FirstStage(m))
  /\ UNCHANGED <<senders, process_, inbox, replies, history>>

\* Unmarshal refuses the data of a RequestRaw or PublishRaw; the wrapper panics
\* with its error.
DeliverRefused(c) ==
  /\ Of(c) \in wire
  /\ process = "up"
  /\ wire' = wire \ {Of(c)}
  /\ Goto(Of(c), "recover")
  /\ text' = "text"
  /\ UNCHANGED <<senders, process, inbox, replies, history>>

\* Nobody is subscribed: not yet, not any more, or because Subscribe only logs
\* the error.  The NATS server answers a request with no data.
NoResponders(m) ==
  /\ m \in wire
  /\ m[2] = "call" => kind[m[1]] # "event"
  /\ wire' = wire \ {m}
  /\ Reply(m, "absent")
  /\ UNCHANGED <<senders, process_, raised, stage, replies, passed, refused,
                 handled>>

Lose(m) ==
  /\ m \in wire
  /\ wire' = wire \ {m}
  /\ UNCHANGED <<senders, process_, inbox, stage, replies, history>>

\* msg.ErrorRequest(...); return
Refuses(c, check) ==
  /\ Goto(Of(c), "ended")
  /\ Reply(Of(c), "error")
  /\ refused' = [refused EXCEPT ![c] = check]
  /\ UNCHANGED <<senders, process_, raised, wire, replies, passed, handled>>

\* What an answer that is no error proves: that the check was passed, or nothing.
Noted(c, check) == IF result[<<c, check>>] = "hollow" THEN "silence" ELSE check

\* Mutant of Verify: the return after the error is missing.
VerifyAndGoOn(c, check, next) ==
  /\ stage[Of(c)] = check
  /\ pc[<<c, check>>] = "returned"
  /\ Goto(Of(c), next)
  /\ IF result[<<c, check>>] \notin Nil
     THEN /\ Reply(Of(c), "error")
          /\ refused' = [refused EXCEPT ![c] = check]
          /\ UNCHANGED <<senders, process_, raised, wire, replies, passed, handled>>
     ELSE /\ passed' = [passed EXCEPT ![c] = @ \cup {Noted(c, check)}]
          /\ UNCHANGED <<senders, process_, raised, wire, inbox, replies, said,
                         refused, handled>>

\* rErr of a request to the route service: refused for an error of any kind.
Verify(c, check, next) ==
  /\ stage[Of(c)] = check
  /\ pc[<<c, check>>] = "returned"
  /\ IF result[<<c, check>>] \notin Nil THEN Refuses(c, check)
     ELSE /\ Goto(Of(c), next)
          /\ passed' = [passed EXCEPT ![c] = @ \cup {Noted(c, check)}]
          /\ UNCHANGED <<senders, process_, raised, wire, inbox, replies, said,
                         refused, handled>>

\* len(msg.Token) == 0
NoToken(c) ==
  /\ stage[Of(c)] = "token"
  /\ pc[<<c, "token">>] = "idle"
  /\ Refuses(c, "token")

ValidateToken(c) == Verify(c, "token", "permission")
UserHavePermission(c) == Verify(c, "permission", "access")

\* The wrapper's own steps: it asks, or reads what it was answered.
Wrapper(c) ==
  \/ \E check \in {"token", "permission"} :
       Request(<<c, check>>) \/ SendFails(<<c, check>>)
  \/ NoToken(c) \/ ValidateToken(c) \/ UserHavePermission(c)

\* An access function denies, or grants to other methods only.
AccessDenied(c) == stage[Of(c)] = "access" /\ Refuses(c, "access")

\* hc(msg) is called after all access functions have granted.
CallHandler(c) ==
  /\ stage[Of(c)] = "access"
  /\ Goto(Of(c), "handle")
  /\ passed' = [passed EXCEPT ![c] = @ \cup {"access"}]
  /\ handled' = [handled EXCEPT ![c] = @ + 1]
  /\ UNCHANGED <<senders, process_, raised, wire, inbox, replies, said, refused>>

\* OK, File, Redirect, Error, ErrorRequest, NotFound or Timeout of the request;
\* an access function may ask for more time.
HandlerReplies(c) ==
  /\ replies < MaxReplies
  /\ replies' = replies + 1
  /\ \/ stage[Of(c)] \in {"access", "handle"} /\ Reply(Of(c), "extend")
                                              /\ UNCHANGED raised
     \/ /\ stage[Of(c)] = "handle"
        /\ \/ \E a \in {"data", "bare"} : Reply(Of(c), a) /\ UNCHANGED raised
           \/ \E t \in Texts :
                /\ Reply(Of(c), IF t = "blank" THEN "blank" ELSE "error")
                /\ raised' = raised \cup ({t} \cap {"blank"})
  /\ UNCHANGED <<senders, process_, wire, stage, passed, refused, handled>>

HandlerReturns(c) ==
  /\ stage[Of(c)] = "handle"
  /\ Goto(Of(c), "ended")
  /\ UNCHANGED <<senders, process_, wire, inbox, replies, history>>

\* validateToken and userHavePermission of the route service, which answer
\* once; whom they let pass is the application's affair.
RouteAnswers(c) ==
  /\ \E check \in {"token", "permission"} :
       /\ stage[<<c, check>>] = "handle"
       /\ Goto(<<c, check>>, "ended")
       /\ \E a \in {IF check = "token" THEN "data" ELSE "bare", "error"} :
            Reply(<<c, check>>, a)
  /\ UNCHANGED <<senders, process_, raised, wire, replies, passed, refused,
                 handled>>

\* A panic: its value's message becomes that of the process's internal error;
\* a value that is no error leaves it as it is.
Panics(m) ==
  /\ stage[m] \in {"access", "handle"}
  /\ Goto(m, "recover")
  /\ \/ \E t \in Texts : text' = t /\ raised' = raised \cup ({t} \cap {"blank"})
     \/ UNCHANGED <<text, raised>>
  /\ UNCHANGED <<senders, process, wire, inbox, replies, said, passed, refused,
                 handled>>

\* Mutant of Recovers: an error without its message is sent.
RecoversBlank(m) ==
  /\ stage[m] = "recover"
  /\ Goto(m, "ended")
  /\ Reply(m, "blank")
  /\ UNCHANGED <<senders, process_, raised, wire, replies, passed, refused,
                 handled>>

\* req.ErrorRequest(&request.ErrorInternalServerError), as it is by then.
Recovers(m) ==
  /\ stage[m] = "recover"
  /\ Goto(m, "ended")
  /\ Reply(m, IF text = "blank" THEN "blank" ELSE "error")
  /\ UNCHANGED <<senders, process_, raised, wire, replies, passed, refused,
                 handled>>

\* The process dies with its goroutines and what they wait for.
Crash ==
  /\ process = "up"
  /\ process' = "down"
  /\ text' = "text"
  /\ stage' = [m \in Message |-> IF stage[m] = "none" THEN "none" ELSE "ended"]
  /\ pc' = [m \in Message |-> IF m[2] # "call" /\ pc[m] = "waiting" THEN "ended"
                              ELSE pc[m]]
  /\ inbox' = [m \in Message |-> IF m[2] # "call" THEN {} ELSE inbox[m]]
  /\ UNCHANGED <<kind, result, wire, replies, history>>

Restart ==
  /\ process = "down"
  /\ process' = "up"
  /\ UNCHANGED <<senders, text, wire, inbox, stage, replies, history>>

OfCall(c) ==
  \/ AuthMiddleware(c) \/ CallerForbids(c)
  \/ Request(Of(c)) \/ SendFails(Of(c)) \/ Publish(c)
  \/ Wrapper(c) \/ AccessDenied(c) \/ CallHandler(c) \/ HandlerReplies(c)
  \/ HandlerReturns(c) \/ RouteAnswers(c) \/ DeliverRefused(c)

OfMessage(m) ==
  \/ Waiting(m) \/ Deliver(m) \/ NoResponders(m) \/ Lose(m)
  \/ Panics(m) \/ Recovers(m)

Next ==
  \/ \E c \in Call : OfCall(c)
  \/ \E m \in Message : OfMessage(m)
  \/ Crash \/ Restart

\* Goroutines run, and a timer that is armed fires unless it is set again.
Fairness ==
  /\ \A m \in Message : WF_vars(Waiting(m))
  /\ \A c \in Call : WF_vars(Wrapper(c))

Spec == Init /\ [][Next]_vars /\ Fairness

-----------------------------------------------------------------------------
(* Properties. *)

\* A caller ends up with nil only when the handler said so, or when the answer
\* was a hollow one: nobody was there to say anything, or an error came without
\* a message after some handler of the process once had one.  recover() keeps
\* the message in a variable of the package (nats-provider.go:176), so that it
\* may be another call's.
NilMeansSaid ==
  \A c \in Call :
    kind[c] # "event" =>
      /\ result[Of(c)] = "nil" => said[c] \cap {"data", "bare"} # {}
      /\ result[Of(c)] = "hollow" =>
           "absent" \in said[c] \/ ("blank" \in said[c] /\ "blank" \in raised)

\* Every caller returns, however long the wrapper of the handler waits for the
\* route service and however often it is told to wait on.
CallerReturns ==
  \A c \in Call : pc[Of(c)] = "waiting" ~> pc[Of(c)] = "returned"

\* The wrapper gets through its checks, whatever becomes of the route service:
\* its requests return, and it refuses the call or goes on to the access
\* functions.
ChecksEnd ==
  \A c \in Guarded :
    stage[Of(c)] = "token" ~> stage[Of(c)] \notin {"token", "permission"}

\* What GuardedCall calls a call.
TermsOf(c) ==
  [demands  |-> IF kind[c] = "authenticated" THEN Check ELSE {"access"},
   answered |-> IF kind[c] = "event" THEN "no" ELSE "yes"]

PassedBy(c) == passed[c] \cup (said[c] \cap {"absent", "blank"})

VerdictOn(c) ==
  IF refused[c] # "none" THEN "refused"
  ELSE IF handled[c] > 0 THEN "handled" ELSE "open"

OutcomeOf(c) ==
  IF result[Of(c)] = "none" THEN "pending"
  ELSE IF result[Of(c)] \in Nil THEN "success" ELSE "failure"

G == INSTANCE GuardedCall WITH
       Check   <- Check \cup {"absent", "blank", "silence"},
       Excuses <- {"absent", "blank"},
       Silences <- {<<"silence", "permission">>},
       terms   <- [c \in Call |-> TermsOf(c)],
       passed  <- [c \in Call |-> PassedBy(c)],
       verdict <- [c \in Call |-> VerdictOn(c)],
       outcome <- [c \in Call |-> OutcomeOf(c)]

\* A call over v1 keeps the promise of GuardedCall, with these excuses: its caller
\* is told of a success when nobody was there or the error had no message, and
\* its handler runs when the request for permission got such an answer
\* (nats-provider.go:228-232, 433).
ImplementsGuardedCall == G!GuardedSpec
=============================================================================
