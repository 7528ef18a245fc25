--------------------------- MODULE V1CallsProofs ---------------------------
(***************************************************************************)
(* For any number of calls, answers and messages of errors: TypeOK and     *)
(* NilMeansSaid of V1Calls, and that it implements GuardedCall.            *)
(***************************************************************************)
EXTENDS V1Calls, TLAPS

Before(c) == refused[c] = "none" /\ handled[c] = 0

\* A call is in one place at a time, and knows its checks.
CallerInv(c) ==
  /\ pc[Of(c)] \in {"idle", "waiting", "returned"}
  /\ pc[Of(c)] # "returned" => result[Of(c)] = "none"
  /\ pc[Of(c)] = "idle" => Before(c) /\ Of(c) \notin wire /\ stage[Of(c)] = "none"
                             /\ inbox[Of(c)] = {}
  /\ pc[Of(c)] = "waiting" => kind[c] # "event"
  /\ Of(c) \in wire => Before(c) /\ stage[Of(c)] = "none"
  /\ stage[Of(c)] # "none" => pc[Of(c)] # "idle" /\ Of(c) \notin wire

StageInv(c) ==
  /\ stage[Of(c)] \in {"token", "permission", "access"} => Before(c)
  /\ stage[Of(c)] \in {"token", "permission"} => kind[c] = "authenticated"
  /\ stage[Of(c)] = "permission" => "token" \in passed[c]
  /\ stage[Of(c)] = "access" /\ kind[c] = "authenticated" =>
       "token" \in passed[c] /\ ("permission" \in passed[c] \/ "silence" \in passed[c])
  /\ stage[Of(c)] = "handle" => handled[c] > 0

VerdictInv(c) ==
  /\ handled[c] > 0 => refused[c] = "none"
                         /\ stage[Of(c)] \in {"handle", "recover", "ended"}
  /\ refused[c] # "none" => handled[c] = 0 /\ Of(c) \notin wire
                              /\ stage[Of(c)] \in {"none", "ended"}
                              /\ pc[Of(c)] # "idle"

\* What the answers prove.
Vouched(c, a) ==
  /\ a \in {"data", "bare"} => handled[c] > 0
  /\ a \in {"data", "bare", "absent", "blank"} => a \in said[c]

InboxInv(c) ==
  /\ \A a \in inbox[Of(c)] : Vouched(c, a)
  /\ kind[c] # "event" /\ result[Of(c)] = "nil" =>
       \E a \in {"data", "bare"} : Vouched(c, a)
  /\ result[Of(c)] = "hollow" => \E a \in {"absent", "blank"} : Vouched(c, a)
  /\ "blank" \in said[c] => "blank" \in raised

CallInv(c) == CallerInv(c) /\ StageInv(c) /\ VerdictInv(c) /\ InboxInv(c)

TextInv == text = "blank" => "blank" \in raised

\* A token without data is an error, so only a permission can be hollow.
TokenInv == \A c \in Call : result[<<c, "token">>] # "hollow"

IInv == TextInv /\ TokenInv /\ \A c \in Call : CallInv(c)

-----------------------------------------------------------------------------
(* Types. *)

LEMMA Messages ==
  ASSUME NEW m \in Message
  PROVE  m = <<m[1], m[2]>> /\ m[1] \in Call /\ m[2] \in Role
BY DEF Message

LEMMA MessagesOf ==
  ASSUME NEW c \in Call
  PROVE  /\ Of(c) \in Message
         /\ <<c, "token">> \in Message /\ <<c, "permission">> \in Message
         /\ Of(c)[1] = c /\ Of(c)[2] = "call"
         /\ \A d \in Call : Of(d) # <<c, "token">> /\ Of(d) # <<c, "permission">>
         /\ \A d \in Call \ {c} : Of(d) # Of(c)
BY DEF Of, Message, Role

LEMMA MessagesAsked ==
  ASSUME NEW c \in Call, NEW d \in Call, NEW check \in {"token", "permission"}
  PROVE  <<c, check>> \in Message /\ <<c, check>> # Of(d)
BY DEF Of, Message, Role

LEMMA Checks == "token" \in Check /\ "permission" \in Check /\ "access" \in Check
BY DEF Check

LEMMA TypeStep == TypeOK /\ [Next]_vars => TypeOK'
<1> SUFFICES ASSUME TypeOK, [Next]_vars PROVE TypeOK'
  OBVIOUS
<1> USE V1Assumption DEF TypeOK, senders, process_, history
<1>1. ASSUME NEW m \in Message, NEW a \in Answer, Reply(m, a)
      PROVE  inbox' \in [Message -> SUBSET Answer] /\ said' \in [Call -> SUBSET Answer]
  BY <1>1, Messages DEF Reply
<1>2. ASSUME NEW c \in Call, NEW check \in Check, Refuses(c, check) PROVE TypeOK'
  <2>1. inbox' \in [Message -> SUBSET Answer] /\ said' \in [Call -> SUBSET Answer]
    BY <1>1, <1>2, MessagesOf DEF Refuses, Answer
  <2> QED BY <1>2, <2>1, MessagesOf DEF Refuses, Goto
<1>3. ASSUME NEW c \in Call, NEW check \in {"token", "permission"},
             NEW next \in {"permission", "access"}, Verify(c, check, next)
      PROVE  TypeOK'
  <2>1. CASE Refuses(c, check)
    BY <1>2, <2>1, Checks
  <2>2. CASE ~Refuses(c, check)
    <3>1. /\ stage' = [stage EXCEPT ![Of(c)] = next]
          /\ passed' = [passed EXCEPT ![c] = @ \cup {Noted(c, check)}]
          /\ UNCHANGED <<senders, process_, raised, wire, inbox, replies, said,
                         refused, handled>>
      BY <1>3, <2>2 DEF Verify, Goto
    <3>2. Noted(c, check) \in Check \cup {"silence"}
      BY Checks DEF Noted
    <3>3. passed' \in [Call -> SUBSET (Check \cup {"silence"})]
      BY <3>1, <3>2
    <3> QED BY <3>1, <3>3, MessagesOf
  <2> QED BY <2>1, <2>2
<1>4. ASSUME NEW m \in Message, Request(m) \/ SendFails(m) PROVE TypeOK'
  BY <1>4 DEF Request, SendFails, Return
<1>5. ASSUME NEW c \in Call, OfCall(c) PROVE TypeOK'
  <2>1. CASE AuthMiddleware(c) \/ CallerForbids(c)
    <3>1. PICK check \in Check : CallerRefuses(c, check)
      BY <2>1, Checks DEF AuthMiddleware, CallerForbids
    <3> QED BY <3>1, MessagesOf DEF CallerRefuses, Return
  <2>2. CASE Request(Of(c)) \/ SendFails(Of(c))
    BY <1>4, <2>2, MessagesOf
  <2>3. CASE Publish(c)
    <3>1. Of(c) \in Message
      BY MessagesOf
    <3>2. /\ wire' \subseteq Message
          /\ pc' \in [Message -> {"idle", "waiting", "returned", "ended"}]
          /\ result' \in [Message -> {"none", "nil", "hollow", "error", "timeout"}]
      BY <2>3, <3>1 DEF Publish, Return
    <3> QED BY <2>3, <3>2 DEF Publish
  <2>4. CASE Wrapper(c)
    <3>1. CASE NoToken(c)
      BY <1>2, <3>1 DEF NoToken, Check
    <3>2. CASE ValidateToken(c) \/ UserHavePermission(c)
      BY <1>3, <3>2 DEF ValidateToken, UserHavePermission
    <3> QED BY <1>4, <2>4, <3>1, <3>2, MessagesOf DEF Wrapper
  <2>5. CASE AccessDenied(c)
    BY <1>2, <2>5 DEF AccessDenied, Check
  <2>6. CASE CallHandler(c)
    <3>1. passed' \in [Call -> SUBSET (Check \cup {"silence"})]
      BY <2>6, Checks DEF CallHandler
    <3>2. handled' \in [Call -> Nat]
      BY <2>6 DEF CallHandler
    <3>3. stage' \in [Message -> {"none", "token", "permission", "access", "handle",
                                "recover", "ended"}]
      BY <2>6, MessagesOf DEF CallHandler, Goto
    <3> QED BY <2>6, <3>1, <3>2, <3>3 DEF CallHandler
  <2>7. CASE HandlerReplies(c)
    <3>1. PICK a \in Answer : Reply(Of(c), a)
      BY <2>7 DEF HandlerReplies, Answer
    <3>2. replies' \in 0..MaxReplies
      BY <2>7 DEF HandlerReplies
    <3>3. raised' \subseteq {"blank"}
      BY <2>7 DEF HandlerReplies
    <3>4. inbox' \in [Message -> SUBSET Answer] /\ said' \in [Call -> SUBSET Answer]
      BY <1>1, <3>1, MessagesOf
    <3> QED BY <2>7, <3>2, <3>3, <3>4 DEF HandlerReplies
  <2>8. CASE HandlerReturns(c)
    BY <2>8, MessagesOf DEF HandlerReturns, Goto
  <2>9. CASE RouteAnswers(c)
    <3>1. PICK check \in {"token", "permission"} :
            /\ Goto(<<c, check>>, "ended")
            /\ \E a \in {"data", "bare", "error"} : Reply(<<c, check>>, a)
      BY <2>9 DEF RouteAnswers
    <3>2. <<c, check>> \in Message
      BY MessagesOf
    <3>3. PICK a \in {"data", "bare", "error"} : Reply(<<c, check>>, a)
      BY <3>1
    <3>4. a \in Answer
      BY DEF Answer
    <3>5. inbox' \in [Message -> SUBSET Answer] /\ said' \in [Call -> SUBSET Answer]
      BY <1>1, <3>2, <3>3, <3>4
    <3> QED BY <2>9, <3>1, <3>2, <3>5 DEF RouteAnswers, Goto
  <2>10. CASE DeliverRefused(c)
    BY <2>10, MessagesOf DEF DeliverRefused, Goto
  <2> QED BY <1>5, <2>1, <2>2, <2>3, <2>4, <2>5, <2>6, <2>7, <2>8, <2>9, <2>10 DEF OfCall
<1>6. ASSUME NEW m \in Message, OfMessage(m) PROVE TypeOK'
  <2>1. CASE Waiting(m)
    <3>1. \A w, a : Decoded(w, a) \in {"nil", "hollow", "error"}
      BY DEF Decoded
    <3>2. CASE Receive(m)
      <4>1. PICK r \in {"nil", "hollow", "error"} : Return(m, r)
        BY <3>1, <3>2 DEF Receive
      <4>2. /\ pc' \in [Message -> {"idle", "waiting", "returned", "ended"}]
            /\ result' \in [Message -> {"none", "nil", "hollow", "error", "timeout"}]
        BY <4>1 DEF Return
      <4> QED BY <3>2, <4>2 DEF Receive
    <3>3. CASE Extend(m)
      BY <3>3 DEF Extend
    <3>4. CASE TimeOut(m)
      BY <3>4 DEF TimeOut, Return
    <3> QED BY <2>1, <3>2, <3>3, <3>4 DEF Waiting
  <2>2. CASE Deliver(m)
    BY <2>2 DEF Deliver, Goto, FirstStage
  <2>3. CASE NoResponders(m)
    BY <1>1, <2>3 DEF NoResponders, Answer
  <2>4. CASE Lose(m)
    BY <2>4 DEF Lose
  <2>5. CASE Panics(m)
    BY <2>5 DEF Panics, Goto
  <2>6. CASE Recovers(m)
    BY <1>1, <2>6 DEF Recovers, Goto, Answer
  <2> QED BY <1>6, <2>1, <2>2, <2>3, <2>4, <2>5, <2>6 DEF OfMessage
<1>7. CASE Crash
  BY <1>7 DEF Crash
<1>8. CASE Restart \/ UNCHANGED vars
  BY <1>8 DEF Restart, vars
<1> QED BY <1>5, <1>6, <1>7, <1>8 DEF Next

\* Every variable keeps its type.
THEOREM TypeCorrect == Spec => []TypeOK
<1>1. Init => TypeOK
  BY V1Assumption DEF Init, TypeOK
<1> QED BY <1>1, TypeStep, PTL DEF Spec

-----------------------------------------------------------------------------
(* What the steps of one call leave of the others, and of what is theirs.  *)

Same(d) ==
  /\ kind'[d] = kind[d] /\ pc'[Of(d)] = pc[Of(d)]
  /\ result'[Of(d)] = result[Of(d)] /\ inbox'[Of(d)] = inbox[Of(d)]
  /\ stage'[Of(d)] = stage[Of(d)] /\ (Of(d) \in wire' <=> Of(d) \in wire)
  /\ said'[d] = said[d] /\ passed'[d] = passed[d]
  /\ refused'[d] = refused[d] /\ handled'[d] = handled[d]

Keeps == raised \subseteq raised'

LEMMA Elsewhere ==
  ASSUME NEW d \in Call, CallInv(d), Same(d), Keeps
  PROVE  CallInv(d)'
<1>1. CallerInv(d)'
  BY DEF Same, CallInv, CallerInv, Before, Of
<1>2. StageInv(d)'
  BY DEF Same, CallInv, StageInv, Before, Of
<1>3. VerdictInv(d)'
  BY DEF Same, CallInv, VerdictInv, Of
<1>4. InboxInv(d)'
  BY DEF Same, Keeps, CallInv, InboxInv, Vouched, Of
<1> QED BY <1>1, <1>2, <1>3, <1>4 DEF CallInv

LEMMA ReplySame ==
  ASSUME TypeOK, NEW m \in Message, NEW a, Reply(m, a), NEW d \in Call, m # Of(d)
  PROVE  inbox'[Of(d)] = inbox[Of(d)] /\ said'[d] = said[d]
<1>1. m[2] = "call" => m[1] # d
  BY Messages DEF Of
<1> QED BY <1>1, MessagesOf DEF Reply, TypeOK

LEMMA MessageSame ==
  ASSUME TypeOK, NEW m \in Message, NEW d \in Call, m # Of(d),
         OfMessage(m) \/ Request(m) \/ SendFails(m)
  PROVE  Same(d) /\ Keeps
<1>0. Of(d) \in Message
  BY MessagesOf
<1> USE <1>0 DEF TypeOK, senders, process_, history, Same, Keeps
<1>1. CASE Request(m) \/ SendFails(m)
  BY <1>1 DEF Request, SendFails, Return
<1>2. CASE Waiting(m)
  <2>1. CASE Receive(m)
    BY <2>1 DEF Receive, Return
  <2>2. CASE Extend(m) \/ TimeOut(m)
    BY <2>2 DEF Extend, TimeOut, Return
  <2> QED BY <1>2, <2>1, <2>2 DEF Waiting
<1>3. CASE Deliver(m) \/ Lose(m)
  BY <1>3 DEF Deliver, Lose, Goto
<1>4. CASE NoResponders(m)
  BY <1>4, ReplySame DEF NoResponders
<1>5. CASE Panics(m)
  BY <1>5 DEF Panics, Goto
<1>6. CASE Recovers(m)
  <2>1. inbox'[Of(d)] = inbox[Of(d)] /\ said'[d] = said[d]
    BY <1>6, ReplySame DEF Recovers
  <2> QED BY <1>6, <2>1 DEF Recovers, Goto
<1> QED BY <1>1, <1>2, <1>3, <1>4, <1>5, <1>6 DEF OfMessage

LEMMA RouteSame ==
  ASSUME TypeOK, NEW c \in Call, NEW d \in Call, RouteAnswers(c)
  PROVE  Same(d) /\ Keeps
<1>0. Of(d) \in Message
  BY MessagesOf
<1> USE <1>0 DEF TypeOK, senders, process_
<1>1. PICK check \in {"token", "permission"}, a \in {"data", "bare", "error"} :
        Goto(<<c, check>>, "ended") /\ Reply(<<c, check>>, a)
  BY DEF RouteAnswers
<1>2. <<c, check>> \in Message /\ <<c, check>> # Of(d)
  BY MessagesAsked
<1>3. inbox'[Of(d)] = inbox[Of(d)] /\ said'[d] = said[d]
  BY <1>1, <1>2, ReplySame
<1> QED BY <1>1, <1>2, <1>3 DEF RouteAnswers, Goto, Same, Keeps

LEMMA OthersSame ==
  ASSUME TypeOK, NEW c \in Call, NEW d \in Call, d # c, OfCall(c)
  PROVE  Same(d) /\ Keeps
<1>0. Of(c) \in Message /\ Of(d) \in Message /\ Of(d) # Of(c)
  BY MessagesOf
<1> USE <1>0 DEF TypeOK, senders, process_, history, Same, Keeps
<1>1. ASSUME NEW check, Refuses(c, check) PROVE Same(d) /\ Keeps
  BY <1>1, ReplySame DEF Refuses, Goto
<1>2. ASSUME NEW check, NEW next, Verify(c, check, next) PROVE Same(d) /\ Keeps
  BY <1>1, <1>2 DEF Verify, Goto
<1>3. CASE AuthMiddleware(c) \/ CallerForbids(c)
  BY <1>3 DEF AuthMiddleware, CallerForbids, CallerRefuses, Return
<1>4. CASE Request(Of(c)) \/ SendFails(Of(c))
  BY <1>4, MessageSame
<1>5. CASE Publish(c)
  BY <1>5 DEF Publish, Return
<1>6. CASE Wrapper(c)
  <2>1. ASSUME NEW check \in {"token", "permission"},
               Request(<<c, check>>) \/ SendFails(<<c, check>>)
        PROVE  Same(d) /\ Keeps
    <3>1. <<c, check>> \in Message /\ <<c, check>> # Of(d)
      BY MessagesAsked
    <3> QED BY <2>1, <3>1, MessageSame
  <2> QED BY <1>1, <1>2, <1>6, <2>1
          DEF Wrapper, NoToken, ValidateToken, UserHavePermission
<1>7. CASE AccessDenied(c)
  BY <1>1, <1>7 DEF AccessDenied
<1>8. CASE CallHandler(c) \/ HandlerReturns(c)
  BY <1>8 DEF CallHandler, HandlerReturns, Goto
<1>9. CASE HandlerReplies(c)
  <2>1. PICK a : Reply(Of(c), a)
    BY <1>9 DEF HandlerReplies
  <2>2. inbox'[Of(d)] = inbox[Of(d)] /\ said'[d] = said[d]
    BY <2>1, ReplySame
  <2> QED BY <1>9, <2>2 DEF HandlerReplies
<1>10. CASE RouteAnswers(c)
  BY <1>10, RouteSame
<1>11. CASE DeliverRefused(c)
  BY <1>11 DEF DeliverRefused, Goto
<1> QED BY <1>3, <1>4, <1>5, <1>6, <1>7, <1>8, <1>9, <1>10, <1>11 DEF OfCall

-----------------------------------------------------------------------------
(* What the steps of a call make of it. *)

LEMMA SenderStep ==
  ASSUME TypeOK, NEW c \in Call, CallInv(c),
         \/ AuthMiddleware(c) \/ CallerForbids(c) \/ Publish(c)
         \/ Request(Of(c)) \/ SendFails(Of(c)) \/ Waiting(Of(c))
  PROVE  CallInv(c)'
<1>0. Of(c) \in Message /\ Of(c)[1] = c /\ Of(c)[2] = "call"
  BY MessagesOf
<1> USE <1>0 DEF TypeOK, senders, process_, history, Return, CallInv, CallerInv,
        StageInv, VerdictInv, InboxInv, Before
<1>1. CASE AuthMiddleware(c) \/ CallerForbids(c)
  BY <1>1 DEF AuthMiddleware, CallerForbids, CallerRefuses, Check, Vouched
<1>2. CASE Publish(c)
  BY <1>2 DEF Publish, Sends, Vouched
<1>3. CASE Request(Of(c))
  BY <1>3 DEF Request, Sends, Vouched
<1>4. CASE SendFails(Of(c))
  BY <1>4 DEF SendFails, Vouched
<1>5. CASE Receive(Of(c))
  <2>1. PICK a \in inbox[Of(c)] \ {"extend"}, w \in Wants(Of(c)) :
          Return(Of(c), Decoded(w, a))
    BY <1>5 DEF Receive
  <2>2. /\ a \in Answer /\ Vouched(c, a)
        /\ Decoded(w, a) \in {"nil", "hollow", "error"}
        /\ Decoded(w, a) = "nil" => a \notin {"error", "absent", "blank"}
        /\ Decoded(w, a) = "hollow" => a \in {"absent", "blank"}
    BY <2>1 DEF Decoded
  <2>3. Decoded(w, a) = "nil" => a \in {"data", "bare"}
    BY <2>1, <2>2 DEF Answer
  <2>4. UNCHANGED <<kind, stage, wire, raised, said, passed, refused, handled>>
          /\ inbox'[Of(c)] = {} /\ pc[Of(c)] = "waiting"
    BY <1>5 DEF Receive
  <2>5. pc'[Of(c)] = "returned" /\ result'[Of(c)] = Decoded(w, a)
    BY <2>1
  <2> QED BY <2>2, <2>3, <2>4, <2>5 DEF Vouched
<1>6. CASE Extend(Of(c))
  BY <1>6 DEF Extend, Vouched
<1>7. CASE TimeOut(Of(c))
  BY <1>7 DEF TimeOut, Vouched
<1> QED BY <1>1, <1>2, <1>3, <1>4, <1>5, <1>6, <1>7 DEF Waiting

\* What a reply to c changes, and that the answers stay vouched for.
LEMMA ReplyStep ==
  ASSUME TypeOK, NEW c \in Call, CallInv(c), NEW a \in Answer, Reply(Of(c), a),
         a \in {"data", "bare"} => handled[c] > 0,
         a = "blank" => "blank" \in raised',
         handled' = handled, kind' = kind, result' = result, Keeps
  PROVE  InboxInv(c)'
BY MessagesOf DEF TypeOK, CallInv, InboxInv, Vouched, Reply, Keeps, Of

LEMMA ServiceStep ==
  ASSUME TypeOK, TextInv, TokenInv, NEW c \in Call, CallInv(c),
         \/ Deliver(Of(c)) \/ NoResponders(Of(c)) \/ Lose(Of(c)) \/ Panics(Of(c))
         \/ Recovers(Of(c)) \/ NoToken(c) \/ ValidateToken(c)
         \/ UserHavePermission(c) \/ AccessDenied(c) \/ CallHandler(c)
         \/ HandlerReplies(c) \/ HandlerReturns(c) \/ DeliverRefused(c)
  PROVE  CallInv(c)'
<1>0. Of(c) \in Message /\ Of(c)[1] = c /\ Of(c)[2] = "call"
  BY MessagesOf
<1> USE <1>0 DEF TypeOK, senders, process_, history, Goto, CallInv, CallerInv,
        StageInv, VerdictInv, Before
<1>1. CASE Deliver(Of(c)) \/ Lose(Of(c)) \/ Panics(Of(c)) \/ HandlerReturns(c)
  <2>1. InboxInv(c)'
    BY <1>1 DEF Deliver, Lose, Panics, HandlerReturns, InboxInv, Vouched
  <2>2. CASE Deliver(Of(c))
    BY <2>1, <2>2 DEF Deliver, FirstStage
  <2>3. CASE Lose(Of(c)) \/ Panics(Of(c)) \/ HandlerReturns(c)
    BY <2>1, <2>3 DEF Lose, Panics, HandlerReturns
  <2> QED BY <1>1, <2>2, <2>3
<1>2. ASSUME stage[Of(c)] \in {"token", "permission", "access"},
             NEW check \in Check, Refuses(c, check)
      PROVE  CallInv(c)'
  <2>1. InboxInv(c)'
    BY <1>2, ReplyStep DEF Refuses, Answer, Keeps
  <2> QED BY <1>2, <2>1 DEF Refuses, Check, Reply
<1>3. ASSUME NEW note, NEW next \in {"permission", "access"},
             stage[Of(c)] \in {"token", "permission"},
             stage' = [stage EXCEPT ![Of(c)] = next],
             passed' = [passed EXCEPT ![c] = @ \cup {note}],
             UNCHANGED <<senders, process_, raised, wire, inbox, replies, said,
                         refused, handled>>,
             next = "permission" => note = "token",
             next = "access" => note \in {"permission", "silence"} /\ "token" \in passed[c]
      PROVE  CallInv(c)'
  <2>1. InboxInv(c)'
    BY <1>3 DEF InboxInv, Vouched
  <2> QED BY <1>3, <2>1
<1>4. CASE NoToken(c)
  BY <1>2, <1>4, Checks DEF NoToken
<1>5. CASE ValidateToken(c)
  <2>1. Noted(c, "token") = "token"
    BY DEF Noted, TokenInv
  <2> QED BY <1>2, <1>3, <1>5, <2>1, Checks DEF ValidateToken, Verify
<1>6. CASE UserHavePermission(c)
  <2>1. Noted(c, "permission") \in {"permission", "silence"}
    BY DEF Noted
  <2> QED BY <1>2, <1>3, <1>6, <2>1, Checks DEF UserHavePermission, Verify
<1>7. CASE AccessDenied(c)
  BY <1>2, <1>7, Checks DEF AccessDenied
<1>8. CASE CallHandler(c)
  <2>1. InboxInv(c)'
    BY <1>8 DEF CallHandler, InboxInv, Vouched
  <2> QED BY <1>8, <2>1 DEF CallHandler
<1>9. CASE NoResponders(Of(c))
  <2>1. InboxInv(c)'
    BY <1>9, ReplyStep DEF NoResponders, Answer, Keeps
  <2> QED BY <1>9, <2>1 DEF NoResponders, Reply
<1>10. CASE Recovers(Of(c))
  <2>1. InboxInv(c)'
    BY <1>10, ReplyStep DEF Recovers, Answer, Keeps, TextInv
  <2> QED BY <1>10, <2>1 DEF Recovers, Reply
<1>11. CASE HandlerReplies(c)
  <2>1. PICK a \in Answer :
          /\ Reply(Of(c), a) /\ raised \subseteq raised'
          /\ a \in {"data", "bare"} => stage[Of(c)] = "handle"
          /\ a = "blank" => "blank" \in raised'
    BY <1>11 DEF HandlerReplies, Answer
  <2>2. InboxInv(c)'
    BY <1>11, <2>1, ReplyStep DEF HandlerReplies, Keeps
  <2> QED BY <1>11, <2>1, <2>2 DEF HandlerReplies, Reply
<1>12. CASE DeliverRefused(c)
  <2>1. InboxInv(c)'
    BY <1>12 DEF DeliverRefused, InboxInv, Vouched
  <2> QED BY <1>12, <2>1 DEF DeliverRefused
<1> QED BY <1>1, <1>4, <1>5, <1>6, <1>7, <1>8, <1>9, <1>10, <1>11, <1>12

-----------------------------------------------------------------------------
(* Every step. *)

LEMMA TextStep == TypeOK /\ TextInv /\ [Next]_vars => TextInv' /\ Keeps
<1> SUFFICES ASSUME TypeOK, TextInv, [Next]_vars PROVE TextInv' /\ Keeps
  OBVIOUS
<1> USE DEF TypeOK, senders, process_, history, TextInv, Keeps
<1>1. ASSUME NEW m, Request(m) \/ SendFails(m) PROVE TextInv' /\ Keeps
  BY <1>1 DEF Request, SendFails
<1>2. ASSUME NEW c \in Call, OfCall(c) PROVE TextInv' /\ Keeps
  <2>1. CASE AuthMiddleware(c) \/ CallerForbids(c) \/ Publish(c)
    BY <2>1 DEF AuthMiddleware, CallerForbids, CallerRefuses, Publish
  <2>2. CASE Wrapper(c) \/ AccessDenied(c)
    BY <1>1, <2>2 DEF Wrapper, NoToken, ValidateToken, UserHavePermission, Verify,
                      AccessDenied, Refuses
  <2>3. CASE \/ CallHandler(c) \/ HandlerReplies(c) \/ HandlerReturns(c)
             \/ RouteAnswers(c) \/ DeliverRefused(c)
    BY <2>3 DEF CallHandler, HandlerReplies, HandlerReturns, RouteAnswers, DeliverRefused
  <2> QED BY <1>1, <1>2, <2>1, <2>2, <2>3 DEF OfCall
<1>3. ASSUME NEW m \in Message, OfMessage(m) PROVE TextInv' /\ Keeps
  BY <1>3 DEF OfMessage, Waiting, Receive, Extend, TimeOut, Deliver, NoResponders,
              Lose, Panics, Recovers
<1>4. CASE Crash \/ Restart \/ UNCHANGED vars
  BY <1>4 DEF Crash, Restart, vars
<1> QED BY <1>2, <1>3, <1>4 DEF Next

LEMMA TokenStep == TypeOK /\ TokenInv /\ [Next]_vars => TokenInv'
<1> SUFFICES ASSUME TypeOK, TokenInv, [Next]_vars, NEW c \in Call
             PROVE  result'[<<c, "token">>] # "hollow"
  BY DEF TokenInv
<1> DEFINE t == <<c, "token">>
<1>0. t \in Message /\ t[2] = "token" /\ result[t] # "hollow"
  BY MessagesOf DEF TokenInv
<1> HIDE DEF t
<1> SUFFICES result'[t] # "hollow"
  BY DEF t
<1> USE <1>0 DEF TypeOK, senders, process_, history
<1>1. ASSUME NEW m \in Message, NEW r, Return(m, r), m # t \/ r # "hollow"
      PROVE  result'[t] # "hollow"
  BY <1>1 DEF Return
<1>2. ASSUME NEW m \in Message, Request(m) \/ SendFails(m) PROVE result'[t] # "hollow"
  BY <1>1, <1>2 DEF Request, SendFails
<1>3. ASSUME NEW d \in Call, OfCall(d) PROVE result'[t] # "hollow"
  <2>1. Of(d) \in Message
    BY MessagesOf
  <2>2. CASE AuthMiddleware(d) \/ CallerForbids(d) \/ Publish(d)
    BY <1>1, <2>1, <2>2 DEF AuthMiddleware, CallerForbids, CallerRefuses, Publish
  <2>3. CASE Wrapper(d) \/ AccessDenied(d)
    BY <1>2, <2>3, MessagesOf DEF Wrapper, NoToken, ValidateToken, UserHavePermission,
                                  Verify, AccessDenied, Refuses
  <2>4. CASE \/ CallHandler(d) \/ HandlerReplies(d) \/ HandlerReturns(d)
             \/ RouteAnswers(d) \/ DeliverRefused(d)
    BY <2>4 DEF CallHandler, HandlerReplies, HandlerReturns, RouteAnswers, DeliverRefused
  <2> QED BY <1>2, <1>3, <2>1, <2>2, <2>3, <2>4 DEF OfCall
<1>4. ASSUME NEW m \in Message, OfMessage(m) PROVE result'[t] # "hollow"
  <2>1. CASE Receive(m)
    <3>1. PICK a \in inbox[m] \ {"extend"}, w \in Wants(m) : Return(m, Decoded(w, a))
      BY <2>1 DEF Receive
    <3>2. m = t => Decoded(w, a) # "hollow"
      BY <3>1 DEF Wants, Decoded
    <3> QED BY <1>1, <3>1, <3>2
  <2>2. CASE Extend(m) \/ TimeOut(m)
    BY <1>1, <2>2 DEF Extend, TimeOut
  <2>3. CASE ~Waiting(m)
    BY <1>4, <2>3 DEF OfMessage, Deliver, NoResponders, Lose, Panics, Recovers
  <2> QED BY <2>1, <2>2, <2>3 DEF Waiting
<1>5. CASE Crash \/ Restart \/ UNCHANGED vars
  BY <1>5 DEF Crash, Restart, vars
<1> QED BY <1>3, <1>4, <1>5 DEF Next

LEMMA SameStep ==
  ASSUME TypeOK, NEW d \in Call, Restart \/ UNCHANGED vars
  PROVE  Same(d) /\ Keeps
BY DEF Restart, vars, senders, history, Same, Keeps

LEMMA CrashStep ==
  ASSUME TypeOK, NEW d \in Call, CallInv(d), Crash
  PROVE  CallInv(d)'
<1>1. Of(d) \in Message /\ Of(d)[2] = "call"
  BY MessagesOf
<1>2. /\ pc'[Of(d)] = pc[Of(d)] /\ inbox'[Of(d)] = inbox[Of(d)]
      /\ stage'[Of(d)] = IF stage[Of(d)] = "none" THEN "none" ELSE "ended"
      /\ UNCHANGED <<kind, result, wire, raised, said, passed, refused, handled>>
  BY <1>1 DEF Crash, history
<1> QED BY <1>2 DEF CallInv, CallerInv, StageInv, VerdictInv, InboxInv, Vouched, Before, Of

\* A step of OfCall or OfMessage is one of the call d itself, or leaves it.
LEMMA OwnOrSame ==
  ASSUME TypeOK, NEW d \in Call,
         (\E c \in Call : OfCall(c)) \/ (\E m \in Message : OfMessage(m))
  PROVE  \/ Same(d) /\ Keeps
         \/ AuthMiddleware(d) \/ CallerForbids(d) \/ Publish(d)
         \/ Request(Of(d)) \/ SendFails(Of(d)) \/ OfMessage(Of(d))
         \/ NoToken(d) \/ ValidateToken(d) \/ UserHavePermission(d)
         \/ AccessDenied(d) \/ CallHandler(d) \/ HandlerReplies(d) \/ HandlerReturns(d)
         \/ DeliverRefused(d)
<1>1. ASSUME NEW m \in Message, OfMessage(m), m # Of(d) PROVE Same(d) /\ Keeps
  BY <1>1, MessageSame
<1>2. ASSUME NEW c \in Call, OfCall(c), c # d PROVE Same(d) /\ Keeps
  BY <1>2, OthersSame
<1>3. ASSUME NEW check \in {"token", "permission"},
             Request(<<d, check>>) \/ SendFails(<<d, check>>)
      PROVE  Same(d) /\ Keeps
  BY <1>3, MessagesAsked, MessageSame
<1>4. RouteAnswers(d) => Same(d) /\ Keeps
  BY RouteSame
<1> QED BY <1>1, <1>2, <1>3, <1>4 DEF OfCall, Wrapper

LEMMA NextIInv == TypeOK /\ IInv /\ [Next]_vars => IInv'
<1> SUFFICES ASSUME TypeOK, IInv, [Next]_vars, NEW d \in Call PROVE CallInv(d)'
  BY TextStep, TokenStep DEF IInv
<1>1. CallInv(d) /\ TextInv /\ TokenInv
  BY DEF IInv
<1>2. CASE (\E c \in Call : OfCall(c)) \/ (\E m \in Message : OfMessage(m))
  BY <1>1, <1>2, OwnOrSame, Elsewhere, SenderStep, ServiceStep DEF OfMessage
<1>3. CASE Crash
  BY <1>1, <1>3, CrashStep
<1>4. CASE Restart \/ UNCHANGED vars
  BY <1>1, <1>4, SameStep, Elsewhere
<1> QED BY <1>2, <1>3, <1>4 DEF Next

\* The invariant holds of every execution.
THEOREM Invariant == Spec => []IInv
<1>1. Init => IInv
  <2> SUFFICES ASSUME Init PROVE IInv
    OBVIOUS
  <2>1. TextInv
    BY DEF Init, TextInv
  <2>3. TokenInv
    BY MessagesOf DEF Init, TokenInv
  <2>2. ASSUME NEW c \in Call PROVE CallInv(c)
    <3>1. Of(c) \in Message
      BY MessagesOf
    <3> QED BY <3>1 DEF Init, CallInv, CallerInv, StageInv, VerdictInv, InboxInv,
                        Vouched, Before
  <2> QED BY <2>1, <2>2, <2>3 DEF IInv
<1> QED BY <1>1, NextIInv, TypeCorrect, PTL DEF Spec

\* nil means that the handler said so or, when the answer was hollow, that nobody
\* was there or that some handler of the process had an error without a message
\* (nats-provider.go:176, 228-232, 433).
THEOREM NilIsSaid == Spec => []NilMeansSaid
<1>1. TypeOK /\ IInv => NilMeansSaid
  BY DEF IInv, CallInv, InboxInv, Vouched, NilMeansSaid
<1> QED BY <1>1, Invariant, TypeCorrect, PTL

-----------------------------------------------------------------------------
(* The refinement. *)

Excuses == {"absent", "blank"}

Stutters(c) ==
  PassedBy(c)' = PassedBy(c) /\ VerdictOn(c)' = VerdictOn(c)
    /\ OutcomeOf(c)' = OutcomeOf(c)

PassesOne(c) ==
  /\ \E k \in Check \cup Excuses \cup {"silence"} :
       /\ VerdictOn(c) = "open" \/ k \in Excuses
       /\ PassedBy(c)' = PassedBy(c) \cup {k}
  /\ VerdictOn(c)' = VerdictOn(c) /\ OutcomeOf(c)' = OutcomeOf(c)

IsRefused(c) ==
  /\ VerdictOn(c) = "open" /\ VerdictOn(c)' = "refused"
  /\ PassedBy(c)' = PassedBy(c)
  /\ \/ OutcomeOf(c)' = OutcomeOf(c)
     \/ OutcomeOf(c) = "pending" /\ OutcomeOf(c)' = "failure"

IsHandled(c) ==
  /\ VerdictOn(c) = "open" /\ VerdictOn(c)' = "handled"
  /\ PassedBy(c)' = PassedBy(c) \cup {"access"}
  /\ \A d \in TermsOf(c).demands :
       d \in PassedBy(c)' \/ (d = "permission" /\ "silence" \in PassedBy(c)')
  /\ OutcomeOf(c)' = OutcomeOf(c)

Returns(c) ==
  /\ PassedBy(c)' = PassedBy(c) /\ VerdictOn(c)' = VerdictOn(c)
  /\ OutcomeOf(c) = "pending"
  /\ \/ OutcomeOf(c)' = "failure"
     \/ /\ OutcomeOf(c)' = "success"
        /\ IF kind[c] = "event" THEN VerdictOn(c) # "refused"
           ELSE VerdictOn(c) = "handled" \/ PassedBy(c) \cap Excuses # {}

LEMMA Lift ==
  ASSUME NEW c \in Call, kind' = kind,
         \A d \in Call \ {c} : Stutters(d),
         \/ Stutters(c) \/ PassesOne(c) \/ IsRefused(c)
         \/ IsHandled(c) \/ Returns(c)
  PROVE  [G!GuardedNext]_(G!guardedVars)
<1> DEFINE terms    == [d \in Call |-> TermsOf(d)]
           passedBy == [d \in Call |-> PassedBy(d)]
           judged   == [d \in Call |-> VerdictOn(d)]
           outcomes == [d \in Call |-> OutcomeOf(d)]
<1>1. terms' = terms
  BY DEF TermsOf
<1>2. CASE Stutters(c)
  <2>1. passedBy' = passedBy /\ judged' = judged /\ outcomes' = outcomes
    BY <1>2 DEF Stutters
  <2> QED BY <1>1, <2>1 DEF G!guardedVars
<1>3. CASE PassesOne(c)
  <2>1. PICK k \in Check \cup Excuses \cup {"silence"} :
          /\ VerdictOn(c) = "open" \/ k \in Excuses
          /\ PassedBy(c)' = PassedBy(c) \cup {k}
    BY <1>3 DEF PassesOne
  <2>2. passedBy' = [passedBy EXCEPT ![c] = @ \cup {k}]
    BY <2>1 DEF Stutters
  <2>3. judged' = judged /\ outcomes' = outcomes
    BY <1>3 DEF PassesOne, Stutters
  <2>4. G!Pass(c, k)
    BY <1>1, <2>1, <2>2, <2>3 DEF G!Pass, Excuses
  <2> QED BY <2>4 DEF G!GuardedNext, Excuses
<1>4. CASE IsRefused(c)
  <2>1. passedBy' = passedBy /\ judged[c] = "open"
    BY <1>4 DEF IsRefused, Stutters
  <2>2. judged' = [judged EXCEPT ![c] = "refused"]
    BY <1>4 DEF IsRefused, Stutters
  <2>3. \/ outcomes' = outcomes
        \/ outcomes[c] = "pending" /\ outcomes' = [outcomes EXCEPT ![c] = "failure"]
    BY <1>4 DEF IsRefused, Stutters
  <2>4. G!Refuse(c) \/ G!RefuseAtOnce(c)
    BY <1>1, <2>1, <2>2, <2>3 DEF G!Refuse, G!RefuseAtOnce
  <2> QED BY <2>4 DEF G!GuardedNext
<1>5. CASE IsHandled(c)
  <2>1. passedBy' = [passedBy EXCEPT ![c] = @ \cup {"access"}]
    BY <1>5 DEF IsHandled, Stutters
  <2>2. outcomes' = outcomes /\ judged[c] = "open"
    BY <1>5 DEF IsHandled, Stutters
  <2>3. judged' = [judged EXCEPT ![c] = "handled"]
    BY <1>5 DEF IsHandled, Stutters
  <2>4. ASSUME NEW d \in terms[c].demands
        PROVE  \/ d \in passedBy'[c]
               \/ \E n \in passedBy'[c] : <<n, d>> \in {<<"silence", "permission">>}
    BY <1>5, <2>4 DEF IsHandled
  <2>5. G!Handle(c, "access")
    BY <1>1, <2>1, <2>2, <2>3, <2>4 DEF G!Handle
  <2> QED BY <2>5, Checks DEF G!GuardedNext
<1>6. CASE Returns(c)
  <2>1. passedBy' = passedBy /\ judged' = judged /\ outcomes[c] = "pending"
    BY <1>6 DEF Returns, Stutters
  <2>2. PICK o \in {"success", "failure"} :
          /\ outcomes' = [outcomes EXCEPT ![c] = o]
          /\ o = "success" =>
               IF kind[c] = "event" THEN VerdictOn(c) # "refused"
               ELSE VerdictOn(c) = "handled" \/ PassedBy(c) \cap Excuses # {}
    BY <1>6 DEF Returns, Stutters
  <2>3. o = "success" => G!Succeeds(c)
    BY <2>2 DEF G!Succeeds, TermsOf, Excuses
  <2>4. G!Return(c, o)
    BY <1>1, <2>1, <2>2, <2>3 DEF G!Return
  <2> QED BY <2>4 DEF G!GuardedNext
<1> QED BY <1>2, <1>3, <1>4, <1>5, <1>6

LEMMA SameStutters ==
  ASSUME NEW d \in Call, Same(d) PROVE Stutters(d)
BY DEF Same, Stutters, PassedBy, VerdictOn, OutcomeOf, Of

LEMMA SenderRefines ==
  ASSUME TypeOK, NEW c \in Call, CallInv(c),
         \/ AuthMiddleware(c) \/ CallerForbids(c) \/ Publish(c)
         \/ Request(Of(c)) \/ SendFails(Of(c)) \/ Waiting(Of(c))
  PROVE  kind' = kind /\ (Stutters(c) \/ IsRefused(c) \/ Returns(c))
<1>0. Of(c) \in Message /\ Of(c)[1] = c /\ Of(c)[2] = "call"
  BY MessagesOf
<1> USE <1>0 DEF TypeOK, senders, process_, history, Return, PassedBy, VerdictOn,
        OutcomeOf, CallInv, CallerInv, VerdictInv, Before
<1>1. CASE AuthMiddleware(c) \/ CallerForbids(c)
  BY <1>1 DEF AuthMiddleware, CallerForbids, CallerRefuses, IsRefused, Nil
<1>2. CASE Publish(c)
  BY <1>2 DEF Publish, Sends, Returns, Nil
<1>3. CASE Request(Of(c))
  BY <1>3 DEF Request, Stutters
<1>4. CASE SendFails(Of(c))
  BY <1>4 DEF SendFails, Sends, Returns, Nil
<1>5. CASE Receive(Of(c))
  <2>1. PICK a \in inbox[Of(c)] \ {"extend"}, w \in Wants(Of(c)) :
          Return(Of(c), Decoded(w, a))
    BY <1>5 DEF Receive
  <2>2. /\ a \in Answer /\ Vouched(c, a)
        /\ Decoded(w, a) \in {"nil", "hollow", "error"}
        /\ Decoded(w, a) \in Nil => a # "error"
    BY <2>1 DEF Decoded, InboxInv, Nil
  <2>3. Decoded(w, a) \in Nil => handled[c] > 0 \/ said[c] \cap {"absent", "blank"} # {}
    BY <2>1, <2>2 DEF Answer, Vouched
  <2>4. UNCHANGED <<kind, said, passed, refused, handled>>
          /\ pc[Of(c)] = "waiting" /\ result'[Of(c)] = Decoded(w, a)
    BY <1>5, <2>1 DEF Receive
  <2> QED BY <2>2, <2>3, <2>4 DEF Returns, Excuses, Nil
<1>6. CASE Extend(Of(c))
  BY <1>6 DEF Extend, Stutters
<1>7. CASE TimeOut(Of(c))
  BY <1>7 DEF TimeOut, Returns, Nil
<1> QED BY <1>1, <1>2, <1>3, <1>4, <1>5, <1>6, <1>7 DEF Waiting

LEMMA ServiceRefines ==
  ASSUME TypeOK, NEW c \in Call, CallInv(c),
         \/ Deliver(Of(c)) \/ NoResponders(Of(c)) \/ Lose(Of(c)) \/ Panics(Of(c))
         \/ Recovers(Of(c)) \/ NoToken(c) \/ ValidateToken(c)
         \/ UserHavePermission(c) \/ AccessDenied(c) \/ CallHandler(c)
         \/ HandlerReplies(c) \/ HandlerReturns(c) \/ DeliverRefused(c)
  PROVE  /\ kind' = kind
         /\ Stutters(c) \/ PassesOne(c) \/ IsRefused(c) \/ IsHandled(c)
<1>0. Of(c) \in Message /\ Of(c)[1] = c /\ Of(c)[2] = "call"
  BY MessagesOf
<1> USE <1>0 DEF TypeOK, senders, process_, history, PassedBy, VerdictOn, OutcomeOf,
        CallInv, StageInv, VerdictInv, Before
<1>1. ASSUME NEW a \in Answer, Reply(Of(c), a),
             UNCHANGED <<kind, result, passed, refused, handled>>
      PROVE  kind' = kind /\ (Stutters(c) \/ PassesOne(c))
  <2>1. CASE a \in Excuses
    <3>1. PassedBy(c)' = PassedBy(c) \cup {a}
      BY <1>1, <2>1 DEF Reply, Excuses
    <3> QED BY <1>1, <2>1, <3>1 DEF PassesOne
  <2>2. CASE a \notin Excuses
    BY <1>1, <2>2 DEF Reply, Excuses, Stutters
  <2> QED BY <2>1, <2>2
<1>2. ASSUME NEW check \in Check, Refuses(c, check), Before(c)
      PROVE  kind' = kind /\ IsRefused(c)
  <2>1. said'[c] = said[c]
    BY <1>2 DEF Refuses, Reply
  <2> QED BY <1>2, <2>1 DEF Refuses, IsRefused, Check
<1>3. ASSUME NEW note \in Check \cup {"silence"}, Before(c),
             passed' = [passed EXCEPT ![c] = @ \cup {note}],
             UNCHANGED <<kind, result, said, refused, handled>>
      PROVE  kind' = kind /\ PassesOne(c)
  BY <1>3 DEF PassesOne
<1>4. CASE \/ Deliver(Of(c)) \/ Lose(Of(c)) \/ Panics(Of(c)) \/ HandlerReturns(c)
           \/ DeliverRefused(c)
  BY <1>4 DEF Deliver, Lose, Panics, HandlerReturns, DeliverRefused, Stutters
<1>5. CASE NoResponders(Of(c))
  BY <1>1, <1>5 DEF NoResponders, Answer
<1>6. CASE Recovers(Of(c))
  BY <1>1, <1>6 DEF Recovers, Answer
<1>7. CASE NoToken(c)
  BY <1>2, <1>7, Checks DEF NoToken
<1>8. CASE ValidateToken(c)
  BY <1>2, <1>3, <1>8, Checks DEF ValidateToken, Verify, Noted
<1>9. CASE UserHavePermission(c)
  BY <1>2, <1>3, <1>9, Checks DEF UserHavePermission, Verify, Noted
<1>10. CASE AccessDenied(c)
  BY <1>2, <1>10, Checks DEF AccessDenied
<1>11. CASE CallHandler(c)
  <2>1. PassedBy(c)' = PassedBy(c) \cup {"access"}
    BY <1>11 DEF CallHandler
  <2>2. ASSUME NEW d \in TermsOf(c).demands
        PROVE  d \in PassedBy(c)' \/ (d = "permission" /\ "silence" \in PassedBy(c)')
    BY <1>11, <2>1, <2>2 DEF CallHandler, TermsOf, Check
  <2> QED BY <1>11, <2>1, <2>2 DEF CallHandler, IsHandled
<1>12. CASE HandlerReplies(c)
  <2>1. PICK a \in Answer : Reply(Of(c), a)
    BY <1>12 DEF HandlerReplies, Answer
  <2> QED BY <1>1, <1>12, <2>1 DEF HandlerReplies
<1> QED BY <1>4, <1>5, <1>6, <1>7, <1>8, <1>9, <1>10, <1>11, <1>12

LEMMA StepRefines ==
  ASSUME TypeOK, IInv, [Next]_vars
  PROVE  [G!GuardedNext]_(G!guardedVars)
<1>1. ASSUME NEW c \in Call, \A d \in Call \ {c} : Same(d),
             \/ AuthMiddleware(c) \/ CallerForbids(c) \/ Publish(c)
             \/ Request(Of(c)) \/ SendFails(Of(c)) \/ OfMessage(Of(c))
             \/ NoToken(c) \/ ValidateToken(c) \/ UserHavePermission(c)
             \/ AccessDenied(c) \/ CallHandler(c) \/ HandlerReplies(c)
             \/ HandlerReturns(c) \/ DeliverRefused(c)
      PROVE  [G!GuardedNext]_(G!guardedVars)
  <2>1. CallInv(c)
    BY DEF IInv
  <2>2. \A d \in Call \ {c} : Stutters(d)
    BY <1>1, SameStutters
  <2> QED BY <1>1, <2>1, <2>2, SenderRefines, ServiceRefines, Lift DEF OfMessage
<1>2. ASSUME kind' = kind, \A d \in Call : Same(d)
      PROVE  UNCHANGED G!guardedVars
  <2>1. \A d \in Call : Stutters(d)
    BY <1>2, SameStutters
  <2> QED BY <1>2, <2>1 DEF G!guardedVars, TermsOf, Stutters
<1>3. ASSUME NEW c \in Call, OfCall(c) PROVE [G!GuardedNext]_(G!guardedVars)
  <2>1. \A d \in Call \ {c} : Same(d)
    BY <1>3, OthersSame
  <2>2. ASSUME NEW m \in Message, Request(m) \/ SendFails(m) PROVE kind' = kind
    BY <2>2 DEF Request, SendFails
  <2>3. CASE RouteAnswers(c)
    BY <1>2, <2>3, RouteSame DEF RouteAnswers, senders
  <2>4. ASSUME NEW check \in {"token", "permission"},
               Request(<<c, check>>) \/ SendFails(<<c, check>>)
        PROVE  UNCHANGED G!guardedVars
    BY <1>2, <2>2, <2>4, MessagesAsked, MessageSame
  <2> QED BY <1>1, <1>3, <2>1, <2>3, <2>4 DEF OfCall, Wrapper
<1>4. ASSUME NEW m \in Message, OfMessage(m) PROVE [G!GuardedNext]_(G!guardedVars)
  <2>1. kind' = kind
    BY <1>4 DEF OfMessage, Waiting, Receive, Extend, TimeOut, Deliver, NoResponders,
                Lose, Panics, Recovers, senders
  <2>2. \A d \in Call : m # Of(d) => Same(d)
    BY <1>4, MessageSame
  <2>3. CASE \E c \in Call : m = Of(c)
    <3>1. PICK c \in Call : m = Of(c)
      BY <2>3
    <3>2. \A d \in Call \ {c} : Same(d)
      BY <2>2, <3>1, MessagesOf
    <3> QED BY <1>1, <1>4, <3>1, <3>2
  <2>4. CASE ~\E c \in Call : m = Of(c)
    BY <1>2, <2>1, <2>2, <2>4
  <2> QED BY <2>3, <2>4
<1>5. CASE Crash \/ Restart \/ UNCHANGED vars
  <2>1. UNCHANGED <<kind, result, said, passed, refused, handled>>
    BY <1>5 DEF Crash, Restart, vars, senders, history
  <2> QED BY <2>1 DEF G!guardedVars, TermsOf, PassedBy, VerdictOn, OutcomeOf
<1> QED BY <1>3, <1>4, <1>5 DEF Next

\* A call over v1 is what GuardedCall says a call is: checked, then handled once
\* or refused, its caller told of a success only then, except for hollow answers,
\* which its caller takes for a success and its wrapper for a permission
\* (nats-provider.go:188-262, 228-232, 433).
THEOREM Refinement == Spec => ImplementsGuardedCall
<1>1. Init => G!GuardedInit
  <2> SUFFICES ASSUME Init PROVE G!GuardedInit
    OBVIOUS
  <2>1. \A c \in Call : Of(c) \in Message
    BY MessagesOf
  <2>2. \A c \in Call : TermsOf(c) \in G!Terms
    BY DEF TermsOf, G!Terms, Check
  <2>3. ASSUME NEW c \in Call
        PROVE  PassedBy(c) = {} /\ VerdictOn(c) = "open" /\ OutcomeOf(c) = "pending"
    BY <2>1 DEF Init, PassedBy, VerdictOn, OutcomeOf
  <2> QED BY <2>2, <2>3 DEF G!GuardedInit
<1>2. TypeOK /\ IInv /\ [Next]_vars => [G!GuardedNext]_(G!guardedVars)
  BY StepRefines
<1> QED BY <1>1, <1>2, Invariant, TypeCorrect, PTL
        DEF Spec, ImplementsGuardedCall, G!GuardedSpec
=============================================================================
