--------------------------- MODULE V2ProcessProofs ---------------------------
(***************************************************************************)
(* For any number of handlers, monitors, HTTP requests, StartServices and  *)
(* requests of a burst: the types and the safety properties of V2Process.  *)
(***************************************************************************)
EXTENDS V2Process, TLAPS

\* Whatever StartService subscribes is of a StartService there was.
Begun ==
  pc \in {"handlers", "live", "monitors", "validators", "start", "failed", "started"} =>
    starts \in 1..MaxStarts

HandlersDone ==
  pc \in {"live", "monitors", "validators", "start", "started"} =>
    \A h \in Handler : <<h, starts>> \in subscribed \cup refused

\* Stop finds the monitors of the last StartService in s.monitorSubs.
Monitored ==
  /\ monitored \subseteq Monitor \X (1..starts)
  /\ pc \in {"handlers", "live", "wait", "cancel", "stopped"} =>
       \A m \in Monitor : <<m, starts>> \notin monitored
  /\ \A m \in Monitor : <<m, starts>> \in monitored => <<m, starts>> \in monitorSubs

AnsweredFirst ==
  /\ pc \in {"cancel", "stopped"} => service = "stopped"
  /\ ctx = "cancelled" => pc = "stopped"

\* A service that was started: its StartService was the last one and has asked
\* for every handler; there is no other once it is stopped.
WasStarted ==
  /\ pc \in {"started", "unmonitor", "wait", "cancel", "stopped"}
  /\ \A h \in Handler : <<h, starts>> \in subscribed \cup refused

ServiceInv ==
  /\ TypeOK /\ Begun /\ HandlersDone /\ Monitored /\ AnsweredFirst
  /\ service = "started" => WasStarted

HttpInv ==
  /\ HttpTypeOK
  /\ shutdown # "uncalled" => server = "closed"
  /\ shutdown = "returned" => \A r \in HttpRequest : request[r] # "accepted"

ReadyInv ==
  /\ ready \subseteq HttpRequest
  /\ ready # {} => WasStarted
  /\ ServedOnceStarted

-----------------------------------------------------------------------------
(* The service. *)

LEMMA ServiceTypeStep ==
  ASSUME ServiceAssumption, TypeOK, Begun, Next
  PROVE  TypeOK' /\ Begun'
<1> USE ServiceAssumption DEF TypeOK, Begun
<1>1. CASE Begin
  BY <1>1 DEF Begin
<1>2. ASSUME NEW e \in Endpoint, Subscribe(e) PROVE TypeOK' /\ Begun'
  <2>1. <<e, starts>> \in Endpoint \X (1..MaxStarts)
    BY <1>2 DEF Subscribe
  <2>2. /\ subscribed' \in {subscribed, subscribed \cup {<<e, starts>>}}
        /\ refused' \in {refused, refused \cup {<<e, starts>>}}
    BY <1>2 DEF Subscribe
  <2> QED BY <1>2, <2>1, <2>2 DEF Subscribe
<1>3. ASSUME NEW m \in Monitor, MonitorEvent(m) PROVE TypeOK' /\ Begun'
  <2>1. <<m, starts>> \in Monitor \X (1..MaxStarts)
    BY <1>3 DEF MonitorEvent
  <2> QED BY <1>3, <2>1 DEF MonitorEvent
<1>4. CASE SubscribeFails
  BY <1>4 DEF SubscribeFails
<1>5. CASE PhaseDone
  BY <1>5 DEF PhaseDone, After
<1>6. CASE StartImpl
  BY <1>6 DEF StartImpl
<1>7. CASE BeginStop
  BY <1>7 DEF BeginStop
<1>8. CASE Stopping
  BY <1>8 DEF Stopping, Unsubscribe, StopImpl, Answered, Cancel
<1>9. CASE Answer
  BY <1>9 DEF Answer
<1> QED BY <1>1, <1>2, <1>3, <1>4, <1>5, <1>6, <1>7, <1>8, <1>9 DEF Next, StartService

\* The phase of the handlers ends when all are subscribed; no monitor stands
\* for a handler.
LEMMA HandlersStep ==
  ASSUME ServiceAssumption, TypeOK, HandlersDone, Next
  PROVE  HandlersDone'
<1> USE ServiceAssumption DEF TypeOK, HandlersDone
<1>1. CASE Begin
  BY <1>1 DEF Begin
<1>2. ASSUME NEW e \in Endpoint, Subscribe(e) PROVE HandlersDone'
  BY <1>2 DEF Subscribe
<1>3. ASSUME NEW m \in Monitor, MonitorEvent(m) PROVE HandlersDone'
  BY <1>3 DEF MonitorEvent
<1>4. CASE SubscribeFails
  BY <1>4 DEF SubscribeFails
<1>5. CASE PhaseDone
  <2>1. CASE pc = "handlers"
    <3>1. SUFFICES ASSUME NEW h \in Handler
                   PROVE  <<h, starts>> \in subscribed \cup refused
      BY <1>5, <2>1 DEF PhaseDone
    <3>2. <<h, starts>> \in subscribed \cup refused \cup monitored
      BY <1>5, <2>1 DEF PhaseDone, Missing, Of, Tried
    <3>3. <<h, starts>> \notin monitored
      BY DEF TypeOK
    <3> QED BY <3>2, <3>3
  <2>2. CASE pc # "handlers"
    BY <1>5, <2>2 DEF PhaseDone, After
  <2> QED BY <2>1, <2>2
<1>6. CASE StartImpl
  BY <1>6 DEF StartImpl
<1>7. CASE BeginStop
  BY <1>7 DEF BeginStop
<1>8. CASE Stopping
  BY <1>8 DEF Stopping, Unsubscribe, StopImpl, Answered, Cancel
<1>9. CASE Answer
  BY <1>9 DEF Answer
<1> QED BY <1>1, <1>2, <1>3, <1>4, <1>5, <1>6, <1>7, <1>8, <1>9 DEF Next, StartService

LEMMA MonitoredStep ==
  ASSUME ServiceAssumption, TypeOK, Begun, Monitored, Next
  PROVE  Monitored'
<1> USE ServiceAssumption DEF Monitored
<1>0. starts \in Nat
  BY DEF TypeOK
<1>1. CASE Begin
  <2>1. monitored \subseteq Monitor \X (1..starts')
    BY <1>0, <1>1 DEF Begin
  <2>2. \A m \in Monitor : <<m, starts'>> \notin monitored
    BY <1>0, <1>1 DEF Begin
  <2> QED BY <1>1, <2>1, <2>2 DEF Begin
<1>2. ASSUME NEW e \in Endpoint, Subscribe(e) PROVE Monitored'
  BY <1>2 DEF Subscribe
<1>3. ASSUME NEW m \in Monitor, MonitorEvent(m) PROVE Monitored'
  <2>1. <<m, starts>> \in Monitor \X (1..starts)
    BY <1>3 DEF MonitorEvent, Begun
  <2> QED BY <1>3, <2>1 DEF MonitorEvent
<1>4. CASE SubscribeFails
  BY <1>4 DEF SubscribeFails
<1>5. CASE PhaseDone
  BY <1>5 DEF PhaseDone, After
<1>6. CASE StartImpl
  BY <1>6 DEF StartImpl
<1>7. CASE BeginStop
  BY <1>7 DEF BeginStop
<1>8. CASE Stopping
  <2>1. ASSUME NEW m \in monitorSubs, Unsubscribe(m) PROVE Monitored'
    BY <2>1 DEF Unsubscribe
  <2>2. CASE StopImpl
    BY <2>2 DEF StopImpl
  <2>3. CASE Answered \/ Cancel
    BY <2>3 DEF Answered, Cancel
  <2> QED BY <1>8, <2>1, <2>2, <2>3 DEF Stopping
<1>9. CASE Answer
  BY <1>9 DEF Answer
<1> QED BY <1>1, <1>2, <1>3, <1>4, <1>5, <1>6, <1>7, <1>8, <1>9 DEF Next, StartService

LEMMA AnsweredStep ==
  ASSUME TypeOK, AnsweredFirst, Next
  PROVE  AnsweredFirst'
<1> USE DEF AnsweredFirst, TypeOK
<1>1. CASE StartService
  BY <1>1 DEF StartService, Begin, Subscribe, MonitorEvent, SubscribeFails, PhaseDone,
              After, StartImpl
<1>2. CASE BeginStop \/ Stopping \/ Answer
  BY <1>2 DEF BeginStop, Stopping, Unsubscribe, StopImpl, Answered, Cancel, Answer
<1> QED BY <1>1, <1>2 DEF Next

\* After a service that was started no StartService begins, and nothing is
\* subscribed.
LEMMA StaysStarted ==
  ASSUME WasStarted, Next
  PROVE  WasStarted' /\ UNCHANGED <<starts, subscribed, refused>>
<1> USE DEF WasStarted
<1>1. ~StartService
  BY DEF StartService, Begin, Subscribe, MonitorEvent, SubscribeFails, PhaseDone,
         StartImpl
<1>2. CASE BeginStop
  BY <1>2 DEF BeginStop
<1>3. CASE Stopping \/ Answer
  BY <1>3 DEF Stopping, Unsubscribe, StopImpl, Answered, Cancel, Answer
<1> QED BY <1>1, <1>2, <1>3 DEF Next

\* A service is started by the last step of StartService alone.
LEMMA StartedStep ==
  ASSUME ServiceAssumption, ServiceInv, Next, service' = "started"
  PROVE  WasStarted'
<1>1. CASE service = "started"
  BY <1>1, StaysStarted DEF ServiceInv
<1>2. CASE service # "started"
  <2>1. StartImpl
    BY <1>2 DEF ServiceInv, TypeOK, Next, StartService, Begin, Subscribe, MonitorEvent,
             SubscribeFails, PhaseDone, BeginStop, Stopping, Unsubscribe, StopImpl,
             Answered, Cancel, Answer
  <2> QED BY <1>2, <2>1 DEF StartImpl, ServiceInv, HandlersDone, WasStarted
<1> QED BY <1>1, <1>2

LEMMA ServiceStepInv ==
  ASSUME ServiceAssumption, ServiceInv, Next
  PROVE  ServiceInv'
BY ServiceTypeStep, HandlersStep, MonitoredStep, AnsweredStep, StartedStep DEF ServiceInv

LEMMA ServiceStutter ==
  ASSUME ServiceInv, UNCHANGED vars
  PROVE  ServiceInv'
BY DEF ServiceInv, vars, TypeOK, Begun, HandlersDone, Monitored, AnsweredFirst,
       WasStarted

-----------------------------------------------------------------------------
(* The HTTP server. *)

\* Only a server that was never shut down listens, so nothing is accepted
\* after Shutdown, and Shutdown waits for what was.
LEMMA HttpStepInv ==
  ASSUME HttpInv,
         \/ HttpOwner \/ Serving
         \/ \E r \in HttpRequest : \/ Accept(r)
                                   \/ \E answer \in Response : HttpHandler(r, answer)
  PROVE  HttpInv'
<1> USE DEF HttpInv, HttpTypeOK
<1>1. CASE ListenAndServe \/ Shutdown
  BY <1>1 DEF ListenAndServe, Shutdown
<1>2. CASE Serving
  BY <1>2 DEF Serving, HttpSetup, Slept, Listen, ShutdownReturns
<1>3. ASSUME NEW r \in HttpRequest, Accept(r) PROVE HttpInv'
  BY <1>3 DEF Accept
<1>4. ASSUME NEW r \in HttpRequest, NEW answer \in Response, HttpHandler(r, answer)
      PROVE  HttpInv'
  BY <1>4 DEF HttpHandler, Response
<1> QED BY <1>1, <1>2, <1>3, <1>4 DEF HttpOwner

LEMMA HttpStutter ==
  ASSUME HttpInv, UNCHANGED httpVars
  PROVE  HttpInv'
BY DEF HttpInv, HttpTypeOK, httpVars

\* A request that came while the service was started finds every handler
\* subscribed or refused.
LEMMA ReadyStep ==
  ASSUME ServiceAssumption, ServiceInv, HttpInv, ReadyInv, ProcessNext
  PROVE  ReadyInv'
<1> USE DEF ReadyInv, ServedOnceStarted
<1>1. CASE ServiceStep
  <2>1. Next /\ UNCHANGED <<request, ready>>
    BY <1>1 DEF ServiceStep, httpVars
  <2>2. CASE ready = {}
    BY <2>1, <2>2
  <2>3. CASE ready # {}
    <3>1. WasStarted' /\ UNCHANGED <<starts, subscribed, refused>>
      BY <2>1, <2>3, StaysStarted
    <3> QED BY <2>1, <3>1 DEF Served
  <2> QED BY <2>2, <2>3
<1>2. CASE HttpStep \/ TestStep
  <2>1. UNCHANGED <<request, ready, pc, starts, subscribed, refused>>
    BY <1>2 DEF HttpStep, TestStep, httpVars, vars, HttpOwner, Serving, ListenAndServe,
             Shutdown, HttpSetup, Slept, Listen, ShutdownReturns
  <2> QED BY <2>1 DEF WasStarted, Served
<1>3. ASSUME NEW r \in HttpRequest, AcceptRequest(r) PROVE ReadyInv'
  <2>1. UNCHANGED <<pc, starts, subscribed, refused, service>>
    BY <1>3 DEF AcceptRequest, vars
  <2>2. WasStarted' <=> WasStarted
    BY <2>1 DEF WasStarted
  <2>3. request' = [request EXCEPT ![r] = "accepted"]
    BY <1>3 DEF AcceptRequest, Accept
  <2>4. \A q \in ready' : request'[q] = "unavailable" => q \in ready /\ request[q] = "unavailable"
    BY <1>3, <2>3 DEF AcceptRequest, HttpInv, HttpTypeOK
  <2>5. ready' \subseteq HttpRequest /\ (ready' # {} => WasStarted')
    BY <1>3, <2>2 DEF AcceptRequest, ServiceInv
  <2> QED BY <2>1, <2>4, <2>5 DEF Served
<1>4. ASSUME NEW r \in HttpRequest, HandleHttp(r) PROVE ReadyInv'
  <2>1. UNCHANGED <<pc, starts, subscribed, refused, ready>>
    BY <1>4 DEF HandleHttp, vars
  <2>2. WasStarted' <=> WasStarted
    BY <2>1 DEF WasStarted
  <2>3. PICK h \in Handler, answer \in Response :
          (answer = "unavailable" => ~Served(h)) /\ HttpHandler(r, answer)
    BY <1>4 DEF HandleHttp
  <2>4. request' = [request EXCEPT ![r] = answer]
    BY <2>3 DEF HttpHandler
  <2>5. ASSUME r \in ready, answer = "unavailable"
        PROVE  ~Served(h) /\ <<h, starts>> \in refused
    <3>1. <<h, starts>> \in subscribed \cup refused /\ starts \in Nat
      BY <2>5 DEF WasStarted, ServiceInv, TypeOK, ServiceAssumption
    <3>2. <<h, starts>> \in subscribed => Served(h)
      <4> SUFFICES ASSUME <<h, starts>> \in subscribed PROVE Served(h)
        OBVIOUS
      <4>1. starts \in 1..starts
        BY <3>1 DEF ServiceInv, TypeOK, ServiceAssumption
      <4> QED BY <4>1 DEF Served
    <3> QED BY <2>3, <2>5, <3>1, <3>2
  <2>6. ASSUME NEW q \in ready, request'[q] = "unavailable"
        PROVE  \E g \in Handler : ~Served(g) /\ <<g, starts>> \in refused
    <3>1. CASE q = r
      BY <2>4, <2>5, <2>6, <3>1 DEF HttpInv, HttpTypeOK
    <3>2. CASE q # r
      BY <2>4, <2>6, <3>2 DEF HttpInv, HttpTypeOK
    <3> QED BY <3>1, <3>2
  <2> QED BY <2>1, <2>2, <2>6 DEF Served
<1> QED BY <1>1, <1>2, <1>3, <1>4 DEF ProcessNext

-----------------------------------------------------------------------------
(* The burst. *)

Values == {params[j] : j \in Index}

AtPlaces == {"select", "pass", "repository", "apis", "mocks", "handle", "request",
             "sent", "gone", "exited"}

\* Before the burst nothing has run, and when it returns nil nothing runs.
OwnerInv ==
  /\ owner \in {"idle", "order"} =>
       /\ chans = <<>>
       /\ \A i \in Index : at[i] = "select" /\ result[i] = "none" /\ seen[i] = Nothing
  /\ owner = "nil" => \A i \in Index : at[i] = "sent"
  /\ \A k \in DOMAIN chans : at[chans[k]] = "sent"

\* What a request of the burst has set is there until the burst ends.
SetInv(i) ==
  /\ at[i] \in {"apis", "mocks", "handle", "request"} => shared.repository \in Values
  /\ at[i] \in {"mocks", "handle", "request"} /\ params[i] \in WithAPIs =>
       shared.apis \in Values
  /\ at[i] \in {"handle", "request"} => shared.mocks \in Values

SeenInv(i) ==
  /\ at[i] = "request" \/ seen[i] # Nothing =>
       /\ seen[i].repository \in Values
       /\ params[i] \in WithAPIs => seen[i].apis \in Values
  /\ result[i] = "nil" => at[i] = "sent" /\ seen[i].mocks \in Values

AccessInv ==
  access = "judge" =>
    /\ owner \notin {"order", "collect"}
    /\ shared.mocks = given.mocks /\ shared.repository = given.repository
    /\ given.mocks \in WithAPIs => shared.apis = given.mocks

BurstInv ==
  /\ BurstTypeOK
  /\ owner # "error" => /\ OwnerInv /\ AccessInv
                        /\ \A i \in Index : SetInv(i) /\ SeenInv(i)

LEMMA Shares ==
  ASSUME BurstAssumption, BurstTypeOK
  PROVE  /\ \A m \in Mock : SetAPIs(shared.apis, m) \in MaybeMock
         /\ \A m \in WithAPIs : SetAPIs(shared.apis, m) = m
         /\ \A i \in Index : params[i] \in Values /\ params[i] \in Mock
         /\ StartMock \in Mock
         /\ shared = [repository |-> shared.repository, apis |-> shared.apis,
                      mocks |-> shared.mocks]
BY DEF SetAPIs, Values, BurstTypeOK, BurstAssumption, Reads, MaybeMock

LEMMA SharedTypes ==
  ASSUME BurstTypeOK
  PROVE  /\ \A f \in Reads : shared[f] \in MaybeMock
         /\ "repository" \in Reads /\ "apis" \in Reads /\ "mocks" \in Reads
BY DEF BurstTypeOK, Reads

LEMMA SendTypes ==
  ASSUME BurstTypeOK, NEW i \in Index, NEW error \in {"nil", "error"}, Send(i, error)
  PROVE  /\ at' \in [Index -> AtPlaces]
         /\ result' \in [Index -> {"none", "nil", "error"}]
         /\ chans' \in Seq(Index)
BY DEF BurstTypeOK, Send, AtPlaces

LEMMA RequestTypeStep ==
  ASSUME BurstAssumption, BurstTypeOK, NEW i \in Index, BurstRequest(i)
  PROVE  BurstTypeOK'
<1> USE BurstAssumption DEF BurstTypeOK, AtPlaces, MaybeMock
<1>1. CASE i < BurstSize /\ PassOrder(i)
  <2>1. i + 1 \in Index
    BY <1>1 DEF Index
  <2> QED BY <1>1, <2>1 DEF PassOrder, Ordered
<1>2. CASE CtxDone(i)
  BY <1>2 DEF CtxDone
<1>3. CASE SetRepository(i)
  <2>1. shared' \in [Reads -> MaybeMock]
    BY <1>3, Shares DEF SetRepository
  <2> QED BY <1>3, <2>1, SendTypes DEF SetRepository
<1>4. CASE SetExternalAPIs(i)
  <2>1. SetAPIs(shared.apis, params[i]) \in MaybeMock
    BY Shares
  <2>2. shared' \in [Reads -> MaybeMock]
    BY <1>4, <2>1 DEF SetExternalAPIs
  <2> QED BY <1>4, <2>2, SendTypes DEF SetExternalAPIs
<1>5. CASE SetMocks(i)
  <2>1. shared' \in [Reads -> MaybeMock]
    BY <1>5, Shares DEF SetMocks
  <2>2. at' \in [Index -> {"select", "pass", "repository", "apis", "mocks",
                           "handle", "request", "sent", "gone", "exited"}]
    BY <1>5 DEF SetMocks
  <2> QED BY <1>5, <2>1, <2>2 DEF SetMocks
<1>6. CASE HandleRequestForTest(i)
  <2>1. seen' \in [Index -> [Reads -> MaybeMock]]
    BY <1>6 DEF HandleRequestForTest
  <2> QED BY <1>6, <2>1, SendTypes DEF HandleRequestForTest, CallbackExits
<1>7. CASE MockedRequest(i)
  <2>1. seen' \in [Index -> [Reads -> MaybeMock]]
    BY <1>7, SharedTypes DEF MockedRequest
  <2> QED BY <1>7, <2>1, SendTypes DEF MockedRequest, CallbackExits
<1> QED BY <1>1, <1>2, <1>3, <1>4, <1>5, <1>6, <1>7 DEF BurstRequest

LEMMA BurstTypeStep ==
  ASSUME BurstAssumption, BurstTypeOK, BurstNext
  PROVE  BurstTypeOK'
<1> USE BurstAssumption DEF BurstTypeOK
<1>1. CASE OrderFirst
  <2>1. at' \in [Index -> AtPlaces]
    BY <1>1 DEF OrderFirst, Ordered, AtPlaces
  <2> QED BY <1>1, <2>1 DEF OrderFirst, AtPlaces
<1>2. CASE Collect
  <2>1. chans' \in Seq(Index)
    BY <1>2 DEF Collect
  <2> QED BY <1>2, <2>1 DEF Collect
<1>3. CASE Judge
  BY <1>3 DEF Judge, NotGiven, MaybeMock
<1>4. CASE Burst
  BY <1>4 DEF Burst
<1>5. CASE StartTest
  <2>1. SetAPIs(shared.apis, StartMock) \in MaybeMock /\ StartMock \in MaybeMock
    BY Shares DEF MaybeMock
  <2>2. CASE shared' = shared
    BY <1>5, <2>2 DEF StartTest
  <2>3. CASE shared' = [shared EXCEPT !.apis = SetAPIs(@, StartMock), !.mocks = StartMock]
    <3>1. shared' = [shared EXCEPT !["apis"] = SetAPIs(shared["apis"], StartMock),
                                   !["mocks"] = StartMock]
      BY <2>3
    <3>2. shared' \in [Reads -> MaybeMock]
      BY <2>1, <3>1
    <3> QED BY <1>5, <3>2 DEF StartTest
  <2> QED BY <1>5, <2>2, <2>3 DEF StartTest
<1>6. ASSUME NEW m \in Mock, TestAccess(m) PROVE BurstTypeOK'
  <2>1. PICK r \in MaybeMock :
          /\ shared' = [repository |-> r, apis |-> SetAPIs(shared.apis, m), mocks |-> m]
          /\ given' = [mocks |-> m, repository |-> r]
    BY <1>6 DEF TestAccess, Repositories, MaybeMock
  <2>2. shared' \in [Reads -> MaybeMock]
    BY <2>1, Shares DEF Reads, MaybeMock
  <2>3. given' \in [mocks : MaybeMock, repository : MaybeMock]
    BY <2>1 DEF MaybeMock
  <2> QED BY <1>6, <2>2, <2>3 DEF TestAccess
<1>8. ASSUME NEW m \in Mock, TestAccessFails(m) PROVE BurstTypeOK'
  <2>1. shared' \in [Reads -> MaybeMock]
    BY <1>8 DEF TestAccessFails, Repositories, MaybeMock, Reads
  <2> QED BY <1>8, <2>1 DEF TestAccessFails
<1>7. ASSUME NEW i \in Index, BurstRequest(i) PROVE BurstTypeOK'
  BY <1>7, RequestTypeStep
<1> QED BY <1>1, <1>2, <1>3, <1>4, <1>5, <1>6, <1>7, <1>8 DEF BurstNext, BurstStep

\* While a burst runs only its requests set what they share.
LEMMA ErrorStays ==
  ASSUME owner = "error", BurstNext
  PROVE  owner' = "error"
BY DEF BurstNext, BurstStep, OrderFirst, Collect, Judge, Burst, StartTest, TestAccess,
       TestAccessFails, BurstRequest, PassOrder, CtxDone, SetRepository, SetExternalAPIs, SetMocks,
       HandleRequestForTest, MockedRequest

SafeInv == OwnerInv /\ AccessInv /\ \A i \in Index : SetInv(i) /\ SeenInv(i)

\* Sending a result ends a request.
LEMMA SendInv ==
  ASSUME BurstTypeOK, OwnerInv, NEW i \in Index, NEW error \in {"nil", "error"},
         Send(i, error), owner \notin {"idle", "order", "nil"}, owner' = owner
  PROVE  OwnerInv' /\ at' = [at EXCEPT ![i] = "sent"]
                   /\ result' = [result EXCEPT ![i] = error]
<1>1. \A k \in DOMAIN chans' : chans'[k] = i \/ (k \in DOMAIN chans /\ chans'[k] = chans[k])
  BY DEF Send, BurstTypeOK
<1>2. \A k \in DOMAIN chans : chans[k] \in Index
  BY DEF BurstTypeOK
<1> QED BY <1>1, <1>2 DEF Send, OwnerInv, BurstTypeOK

LEMMA RequestStep ==
  ASSUME BurstAssumption, BurstTypeOK, owner # "error", SafeInv,
         NEW i \in Index, BurstRequest(i)
  PROVE  SafeInv'
<1> USE BurstAssumption DEF SafeInv, AccessInv
<1>0. /\ \A j \in Index : params[j] \in Values
      /\ UNCHANGED <<params, owner, access>> => Values' = Values
  BY DEF Values
<1>1. owner = "collect" \/ PassOrder(i) \/ CtxDone(i)
  BY DEF BurstRequest, SetRepository, SetExternalAPIs, SetMocks, HandleRequestForTest,
         MockedRequest, OwnerInv, BurstTypeOK
<1>2. \A k \in DOMAIN chans : chans[k] \in Index
  BY DEF BurstTypeOK
<1>3. CASE i < BurstSize /\ PassOrder(i)
  <2>1. i + 1 \in Index /\ owner = "collect"
    BY <1>3 DEF Index, PassOrder, OwnerInv, BurstTypeOK
  <2>2. /\ at' \in [Index -> AtPlaces]
        /\ \A j \in Index : at'[j] = at[j] \/ at'[j] \in {"pass", "repository"}
        /\ \A j \in Index : at[j] = "sent" => at'[j] = "sent"
    BY <1>3, <2>1 DEF PassOrder, Ordered, BurstTypeOK, AtPlaces
  <2>3. OwnerInv'
    BY <1>2, <1>3, <2>1, <2>2 DEF PassOrder, OwnerInv
  <2>4. \A j \in Index : SetInv(j)' /\ SeenInv(j)'
    BY <1>0, <1>3, <2>2 DEF PassOrder, SetInv, SeenInv
  <2> QED BY <1>3, <2>3, <2>4 DEF PassOrder
<1>4. CASE CtxDone(i)
  BY <1>4 DEF CtxDone, OwnerInv
<1>5. ASSUME NEW error \in {"nil", "error"}, Send(i, error), owner = "collect",
             error = "nil" => seen'[i].mocks \in Values,
             UNCHANGED <<owner, access, params, shared, given>>,
             \A j \in Index : \/ seen'[j] = seen[j]
                              \/ /\ j = i /\ at[i] = "request"
                                 /\ seen'[i].repository = seen[i].repository
                                 /\ seen'[i].apis = seen[i].apis
      PROVE  SafeInv'
  <2>1. /\ OwnerInv' /\ at' = [at EXCEPT ![i] = "sent"]
        /\ result' = [result EXCEPT ![i] = error]
    BY <1>5, SendInv
  <2>2. ASSUME NEW j \in Index PROVE SetInv(j)' /\ SeenInv(j)'
    <3>1. CASE j = i
      BY <1>0, <1>5, <2>1, <3>1 DEF SetInv, SeenInv, BurstTypeOK
    <3>2. CASE j # i
      BY <1>0, <1>5, <2>1, <3>2 DEF SetInv, SeenInv, BurstTypeOK
    <3> QED BY <3>1, <3>2
  <2> QED BY <1>5, <2>1, <2>2
<1>6. ASSUME NEW p \in AtPlaces \ {"sent"}, at[i] # "sent", at' = [at EXCEPT ![i] = p],
             UNCHANGED <<owner, access, params, result, chans, given>>,
             owner = "collect", \A j \in Index : SetInv(j)' /\ SeenInv(j)'
      PROVE  SafeInv'
  BY <1>2, <1>6 DEF OwnerInv, BurstTypeOK
<1>12. ASSUME CallbackExits(i), owner = "collect", at[i] # "sent",
              UNCHANGED <<owner, access, params, shared, given>>,
              \A j \in Index : \/ seen'[j] = seen[j]
                               \/ /\ j = i /\ at[i] = "request"
                                  /\ seen'[i].repository = seen[i].repository
                                  /\ seen'[i].apis = seen[i].apis
       PROVE  SafeInv'
  <2>1. at' = [at EXCEPT ![i] = "exited"] /\ UNCHANGED <<result, chans>>
    BY <1>12 DEF CallbackExits
  <2>2. result[i] # "nil"
    BY <1>12 DEF SeenInv
  <2>3. ASSUME NEW j \in Index PROVE SetInv(j)' /\ SeenInv(j)'
    <3>1. CASE j = i
      BY <1>0, <1>12, <2>1, <2>2, <3>1 DEF SetInv, SeenInv, BurstTypeOK
    <3>2. CASE j # i
      BY <1>0, <1>12, <2>1, <3>2 DEF SetInv, SeenInv, BurstTypeOK
    <3> QED BY <3>1, <3>2
  <2> QED BY <1>2, <1>12, <2>1, <2>3 DEF OwnerInv, BurstTypeOK
<1>7. CASE SetRepository(i)
  <2>1. owner = "collect" /\ at[i] = "repository"
    BY <1>1, <1>7 DEF SetRepository, PassOrder, CtxDone
  <2>2. CASE Send(i, "error") /\ UNCHANGED shared
    BY <1>5, <1>7, <2>1, <2>2 DEF SetRepository
  <2>3. CASE at' = [at EXCEPT ![i] = "apis"] /\ shared' = [shared EXCEPT !.repository = params[i]]
             /\ UNCHANGED <<result, chans>>
    <3>1. shared'.repository \in Values /\ shared'.apis = shared.apis
          /\ shared'.mocks = shared.mocks
      BY <1>0, <2>3 DEF BurstTypeOK, Reads
    <3>2. \A j \in Index : SetInv(j)' /\ SeenInv(j)'
      BY <1>0, <1>7, <2>1, <2>3, <3>1 DEF SetRepository, SetInv, SeenInv, BurstTypeOK
    <3> QED BY <1>6, <1>7, <2>1, <2>3, <3>2 DEF SetRepository, AtPlaces
  <2> QED BY <1>7, <2>2, <2>3 DEF SetRepository
<1>8. CASE SetExternalAPIs(i)
  <2>1. owner = "collect" /\ at[i] = "apis"
    BY <1>1, <1>8 DEF SetExternalAPIs, PassOrder, CtxDone
  <2>2. CASE Send(i, "error") /\ UNCHANGED shared
    BY <1>5, <1>8, <2>1, <2>2 DEF SetExternalAPIs
  <2>3. CASE /\ shared' = [shared EXCEPT !.apis = SetAPIs(shared.apis, params[i])]
             /\ at' = [at EXCEPT ![i] = "mocks"]
             /\ UNCHANGED <<result, chans>>
    <3>1. /\ shared'.repository = shared.repository /\ shared'.mocks = shared.mocks
          /\ shared'.apis = SetAPIs(shared.apis, params[i])
      BY <2>3 DEF BurstTypeOK, Reads
    <3>2. /\ shared.apis \in Values => shared'.apis \in Values
          /\ params[i] \in WithAPIs => shared'.apis \in Values
      BY <1>0, <3>1 DEF SetAPIs
    <3>3. \A j \in Index : SetInv(j)' /\ SeenInv(j)'
      BY <1>0, <1>8, <2>1, <2>3, <3>1, <3>2
         DEF SetExternalAPIs, SetInv, SeenInv, BurstTypeOK
    <3> QED BY <1>6, <1>8, <2>1, <2>3, <3>3 DEF SetExternalAPIs, AtPlaces
  <2> QED BY <1>8, <2>2, <2>3 DEF SetExternalAPIs
<1>9. CASE SetMocks(i)
  <2>1. owner = "collect" /\ at[i] = "mocks"
    BY <1>1, <1>9 DEF SetMocks, PassOrder, CtxDone
  <2>2. /\ shared'.repository = shared.repository /\ shared'.apis = shared.apis
        /\ shared'.mocks \in Values
    BY <1>0, <1>9 DEF SetMocks, BurstTypeOK, Reads
  <2>3. \A j \in Index : SetInv(j)' /\ SeenInv(j)'
    BY <1>0, <1>9, <2>1, <2>2 DEF SetMocks, SetInv, SeenInv, BurstTypeOK
  <2> QED BY <1>6, <1>9, <2>1, <2>3 DEF SetMocks, AtPlaces
<1>10. CASE HandleRequestForTest(i)
  <2>1. owner = "collect" /\ at[i] = "handle"
    BY <1>1, <1>10 DEF HandleRequestForTest, PassOrder, CtxDone
  <2>2. CASE Send(i, "error") /\ UNCHANGED seen
    BY <1>5, <1>10, <2>1, <2>2 DEF HandleRequestForTest
  <2>4. CASE CallbackExits(i) /\ UNCHANGED seen
    BY <1>10, <1>12, <2>1, <2>4 DEF HandleRequestForTest
  <2>3. CASE /\ seen' = [seen EXCEPT ![i] = [shared EXCEPT !.mocks = NoMock]]
             /\ at' = [at EXCEPT ![i] = "request"]
             /\ UNCHANGED <<result, chans>>
    <3>1. /\ seen'[i].repository = shared.repository /\ seen'[i].apis = shared.apis
          /\ \A j \in Index \ {i} : seen'[j] = seen[j]
      BY <2>3 DEF BurstTypeOK, Reads
    <3>2. SetInv(i) /\ result[i] # "nil"
      BY <2>1 DEF SeenInv
    <3>3. \A j \in Index : SetInv(j)' /\ SeenInv(j)'
      BY <1>0, <1>10, <2>1, <2>3, <3>1, <3>2
         DEF HandleRequestForTest, SetInv, SeenInv, BurstTypeOK
    <3> QED BY <1>6, <1>10, <2>1, <2>3, <3>3 DEF HandleRequestForTest, AtPlaces
  <2> QED BY <1>10, <2>2, <2>3, <2>4 DEF HandleRequestForTest
<1>11. CASE MockedRequest(i)
  <2>1. owner = "collect" /\ at[i] = "request"
    BY <1>1, <1>11 DEF MockedRequest, PassOrder, CtxDone
  <2>2. /\ seen'[i].repository = seen[i].repository /\ seen'[i].apis = seen[i].apis
        /\ seen'[i].mocks = shared.mocks
        /\ \A j \in Index \ {i} : seen'[j] = seen[j]
    BY <1>11 DEF MockedRequest, BurstTypeOK, Reads
  <2>3. seen'[i].mocks \in Values
    BY <2>1, <2>2 DEF SetInv
  <2> QED BY <1>5, <1>11, <1>12, <2>1, <2>2, <2>3 DEF MockedRequest
<1> QED BY <1>3, <1>4, <1>7, <1>8, <1>9, <1>10, <1>11 DEF BurstRequest

LEMMA CallerStep ==
  ASSUME BurstAssumption, BurstTypeOK, owner # "error", SafeInv, owner' # "error",
         \/ OrderFirst \/ Collect \/ Judge \/ Burst \/ StartTest
         \/ \E m \in Mock : TestAccess(m) \/ TestAccessFails(m)
  PROVE  SafeInv'
<1> USE BurstAssumption DEF SafeInv, AccessInv
<1>0. /\ \A k \in DOMAIN chans : chans[k] \in Index
      /\ UNCHANGED params => Values' = Values
  BY DEF BurstTypeOK, Values
<1>1. CASE OrderFirst
  <2>1. /\ \A j \in Index : at'[j] \in {"select", "pass", "repository"}
        /\ chans' = <<>>
    BY <1>1 DEF OrderFirst, Ordered, OwnerInv, BurstTypeOK
  <2>2. \A j \in Index : result[j] = "none" /\ seen[j] = Nothing
    BY <1>1 DEF OrderFirst, OwnerInv
  <2>3. OwnerInv'
    BY <1>1, <2>1 DEF OrderFirst, OwnerInv
  <2>4. \A j \in Index : SetInv(j)' /\ SeenInv(j)'
    BY <1>1, <2>1, <2>2 DEF OrderFirst, SetInv, SeenInv
  <2> QED BY <1>1, <2>3, <2>4 DEF OrderFirst
<1>2. CASE Collect
  <2>1. /\ chans # <<>> /\ Head(chans) = chans[1] /\ 1 \in DOMAIN chans
        /\ \A k \in DOMAIN chans' : k + 1 \in DOMAIN chans /\ chans'[k] = chans[k + 1]
    BY <1>2 DEF Collect, BurstTypeOK
  <2>2. owner' \in {"nil", "collect"}
    BY <1>2 DEF Collect
  <2>3. owner' = "nil" => \A j \in Index : at[j] = "sent"
    BY <1>2, <2>1 DEF Collect, Collected, OwnerInv
  <2>4. OwnerInv'
    BY <1>2, <2>1, <2>2, <2>3 DEF Collect, OwnerInv
  <2>5. \A j \in Index : SetInv(j)' /\ SeenInv(j)'
    BY <1>0, <1>2 DEF Collect, SetInv, SeenInv
  <2>6. access # "judge"
    BY <1>2 DEF Collect
  <2> QED BY <1>2, <2>4, <2>5, <2>6 DEF Collect
<1>3. CASE Judge
  <2>1. \A j \in Index : SetInv(j)' /\ SeenInv(j)'
    BY <1>0, <1>3 DEF Judge, SetInv, SeenInv
  <2> QED BY <1>3, <2>1 DEF Judge, OwnerInv
<1>4. CASE Burst
  <2>1. \A j \in Index : SetInv(j)' /\ SeenInv(j)'
    BY <1>0, <1>4 DEF Burst, SetInv, SeenInv
  <2> QED BY <1>4, <2>1 DEF Burst, Free, OwnerInv
<1>5. ASSUME StartTest \/ \E m \in Mock : TestAccess(m) \/ TestAccessFails(m)
      PROVE  SafeInv'
  <2>1. /\ UNCHANGED <<owner, params, at, result, chans, seen>>
        /\ owner \in {"idle", "nil"} /\ access # "judge"
    BY <1>5 DEF StartTest, TestAccess, TestAccessFails, Free
  <2>2. \A j \in Index : at[j] \in {"select", "sent"}
    BY <2>1 DEF OwnerInv
  <2>3. \A j \in Index : SetInv(j)' /\ SeenInv(j)'
    BY <1>0, <2>1, <2>2 DEF SetInv, SeenInv
  <2>4. AccessInv'
    <3>1. CASE StartTest
      BY <2>1, <3>1 DEF StartTest
    <3>2. ASSUME NEW m \in Mock, TestAccess(m) PROVE AccessInv'
      <4>1. PICK r \in MaybeMock :
              /\ shared' = [repository |-> r, apis |-> SetAPIs(shared.apis, m),
                            mocks |-> m]
              /\ given' = [mocks |-> m, repository |-> r]
        BY <3>2 DEF TestAccess, Repositories, MaybeMock
      <4>2. m \in WithAPIs => SetAPIs(shared.apis, m) = m
        BY Shares
      <4> QED BY <2>1, <4>1, <4>2
    <3>3. ASSUME NEW m \in Mock, TestAccessFails(m) PROVE AccessInv'
      BY <3>3 DEF TestAccessFails
    <3> QED BY <1>5, <3>1, <3>2, <3>3
  <2> QED BY <2>1, <2>3, <2>4 DEF OwnerInv
<1> QED BY <1>1, <1>2, <1>3, <1>4, <1>5

LEMMA BurstStepInv ==
  ASSUME BurstAssumption, BurstInv, BurstNext
  PROVE  BurstInv'
<1>1. BurstTypeOK'
  BY BurstTypeStep DEF BurstInv
<1>2. ASSUME owner' # "error" PROVE SafeInv'
  <2>1. owner # "error" /\ SafeInv
    BY <1>2, ErrorStays DEF BurstInv, SafeInv
  <2>2. ASSUME NEW i \in Index, BurstRequest(i) PROVE SafeInv'
    BY <2>1, <2>2, RequestStep DEF BurstInv
  <2> QED BY <1>2, <2>1, <2>2, CallerStep DEF BurstInv, BurstNext, BurstStep
<1> QED BY <1>1, <1>2 DEF BurstInv, SafeInv

LEMMA BurstStutter ==
  ASSUME BurstInv, UNCHANGED burstVars
  PROVE  BurstInv'
BY DEF BurstInv, burstVars, BurstTypeOK, OwnerInv, AccessInv, SetInv, SeenInv, Values

-----------------------------------------------------------------------------
(* The process. *)

IInv == ServiceInv /\ HttpInv /\ BurstInv /\ ReadyInv /\ api \in {"production", "test"}

LEMMA InitInv == ServiceAssumption /\ BurstAssumption /\ ProcessInit => IInv
<1> SUFFICES ASSUME ServiceAssumption, BurstAssumption, ProcessInit PROVE IInv
  OBVIOUS
<1>1. ServiceInv
  BY DEF ProcessInit, Init, ServiceInv, TypeOK, Begun, HandlersDone, Monitored,
         AnsweredFirst, ServiceAssumption
<1>2. HttpInv
  BY DEF ProcessInit, HttpInit, HttpInv, HttpTypeOK
<1>3. BurstTypeOK
  BY DEF ProcessInit, BurstInit, BurstTypeOK, Nothing, NotGiven, MaybeMock
<1>4. BurstInv
  BY <1>3 DEF ProcessInit, BurstInit, BurstInv, OwnerInv, AccessInv, SetInv, SeenInv
<1>5. ReadyInv /\ api \in {"production", "test"}
  BY DEF ProcessInit, ReadyInv, ServedOnceStarted
<1> QED BY <1>1, <1>2, <1>4, <1>5 DEF IInv

LEMMA StepInv ==
  ASSUME ServiceAssumption, BurstAssumption, IInv, [ProcessNext]_processVars
  PROVE  IInv'
<1> USE DEF IInv
<1>1. CASE ServiceStep
  <2>1. Next /\ UNCHANGED <<httpVars, burstVars, api, ready>> /\ ProcessNext
    BY <1>1 DEF ServiceStep, ProcessNext
  <2> QED BY <2>1, ServiceStepInv, HttpStutter, BurstStutter, ReadyStep
<1>2. CASE HttpStep
  <2>1. /\ HttpOwner \/ Serving
        /\ UNCHANGED <<vars, burstVars, api, ready>> /\ ProcessNext
    BY <1>2 DEF HttpStep, ProcessNext
  <2> QED BY <2>1, HttpStepInv, ServiceStutter, BurstStutter, ReadyStep
<1>3. CASE TestStep
  <2>1. BurstNext /\ UNCHANGED <<vars, httpVars, api, ready>> /\ ProcessNext
    BY <1>3 DEF TestStep, ProcessNext
  <2> QED BY <2>1, BurstStepInv, HttpStutter, ServiceStutter, ReadyStep
<1>4. ASSUME NEW r \in HttpRequest, AcceptRequest(r) PROVE IInv'
  <2>1. Accept(r) /\ UNCHANGED <<vars, burstVars, api>> /\ ProcessNext
    BY <1>4 DEF AcceptRequest, ProcessNext
  <2> QED BY <2>1, HttpStepInv, ServiceStutter, BurstStutter, ReadyStep
<1>5. ASSUME NEW r \in HttpRequest, HandleHttp(r) PROVE IInv'
  <2>1. /\ \E answer \in Response : HttpHandler(r, answer)
        /\ UNCHANGED <<vars, burstVars, api, ready>> /\ ProcessNext
    BY <1>5 DEF HandleHttp, ProcessNext
  <2> QED BY <2>1, HttpStepInv, ServiceStutter, BurstStutter, ReadyStep
<1>6. CASE UNCHANGED processVars
  <2>1. UNCHANGED <<vars, httpVars, burstVars, api, ready>>
    BY <1>6 DEF processVars
  <2>2. ReadyInv'
    BY <2>1 DEF ReadyInv, ServedOnceStarted, WasStarted, Served, vars, httpVars
  <2> QED BY <2>1, <2>2, ServiceStutter, HttpStutter, BurstStutter
<1> QED BY <1>1, <1>2, <1>3, <1>4, <1>5, <1>6 DEF ProcessNext

\* The invariant holds of every execution of the process.
THEOREM Invariant == ProcessSpec => []IInv
<1>1. ProcessInit => IInv
  BY InitInv, ServiceAssumption, BurstAssumption
<1>2. IInv /\ [ProcessNext]_processVars => IInv'
  BY StepInv, ServiceAssumption, BurstAssumption
<1> QED BY <1>1, <1>2, PTL DEF ProcessSpec

\* Every variable of the process, of its service, its HTTP server and its
\* bursts keeps its type (api-service-impl.go, http-server.go,
\* api-test-service-impl.go).
THEOREM ProcessTypeCorrect == ProcessSpec => []ProcessTypeOK
<1>1. IInv => ProcessTypeOK
  BY DEF IInv, ServiceInv, HttpInv, BurstInv, ReadyInv, ProcessTypeOK
<1> QED BY <1>1, Invariant, PTL

\* A client whose request came while the service was started is not told that
\* there is none, unless all connections refused a handler's subscription
\* (service.go:13, provider.go:93-99).
THEOREM NeverUnserved == ProcessSpec => []ServedOnceStarted
<1>1. IInv => ServedOnceStarted
  BY DEF IInv, ReadyInv
<1> QED BY <1>1, Invariant, PTL

\* Stop leaves no monitor of the last StartService behind, however that ended,
\* and cancels the context last (api-service-impl.go:150-171).
THEOREM StopInOrder == ProcessSpec => []OrderlyStop
<1>1. IInv => OrderlyStop
  BY DEF IInv, ServiceInv, Monitored, AnsweredFirst, OrderlyStop, TypeOK
<1> QED BY <1>1, Invariant, PTL

\* Nothing listens and nothing is under way after Shutdown, whatever
\* ListenAndServe was doing (http-server.go:146).
THEOREM QuietAfterShutdown == ProcessSpec => []ShutMeansQuiet
<1>1. IInv => ShutMeansQuiet
  BY DEF IInv, HttpInv, ShutMeansQuiet
<1> QED BY <1>1, Invariant, PTL

\* Until a burst fails, its handlers find what the requests of the burst set,
\* and a TestAccess its own mocks (api-test-service-impl.go:148-196).
THEOREM BurstMocks == ProcessSpec => []MocksOfTest
<1>1. IInv => MocksOfTest
  BY DEF IInv, BurstInv, OwnerInv, AccessInv, SeenInv, Values, MocksOfTest
<1> QED BY <1>1, Invariant, PTL
=============================================================================
