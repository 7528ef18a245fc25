------------------------------ MODULE TestBurst ------------------------------
(***************************************************************************)
(* The v2 test API: StartService, TestAccess and the burst of              *)
(* v2/pkg/spike/api-test-service-impl.go:44-217, test-request-handler.go   *)
(* and the test provider.  The requests of a burst each have a goroutine.  *)
(* They are started in order, over unbuffered channels, but each passes    *)
(* the order on before it runs, so they run at the same time and share     *)
(* what each of them sets first: the repository and the external APIs of   *)
(* the service and the mocks of the one test provider of the process.      *)
(***************************************************************************)
EXTENDS Naturals, Sequences

CONSTANTS
  BurstSize,   \* requests of a burst; an empty one panics at once
  Mock,        \* values of testProvider.Mocks
  WithAPIs,    \* those with an external API in ExternalAPIs
  StartMock,   \* startRequestMocks
  NoMock

ASSUME BurstAssumption ==
  /\ BurstSize \in Nat \ {0}
  /\ StartMock \in Mock /\ WithAPIs \subseteq Mock /\ NoMock \notin Mock

Index == 1..BurstSize
Reads == {"repository", "apis", "mocks"}

VARIABLES
  owner,      \* where the test that calls the API is
  access,     \* its TestAccess
  params,     \* the Mocks of each request of the burst
  at,         \* where the goroutine of each request is
  result,     \* what TestRequestOrPublish returned to it
  chans,      \* the results sent and not yet received
  shared,     \* repository, external APIs and mocks that all share
  seen,       \* what the handler of each request found in shared
  given       \* the Mocks of the TestAccess under way and the repository of
              \* its deprecated parameter

burstVars == <<owner, access, params, at, result, chans, shared, seen, given>>

Nothing == [f \in Reads |-> NoMock]
MaybeMock == Mock \cup {NoMock}
NotGiven == [mocks |-> NoMock, repository |-> NoMock]

BurstTypeOK ==
  /\ owner \in {"idle", "order", "collect", "nil", "error"}
  /\ access \in {"no", "judge", "done"}
  /\ params \in [Index -> Mock]
  /\ at \in [Index -> {"select", "pass", "repository", "apis", "mocks", "handle",
                       "request", "sent", "gone", "exited"}]
  /\ result \in [Index -> {"none", "nil", "error"}]
  /\ chans \in Seq(Index)
  /\ shared \in [Reads -> MaybeMock]
  /\ seen \in [Index -> [Reads -> MaybeMock]]
  /\ given \in [mocks : MaybeMock, repository : MaybeMock]

BurstInit ==
  /\ owner = "idle" /\ access = "no"
  /\ params \in [Index -> Mock]
  /\ at = [i \in Index |-> "select"]
  /\ result = [i \in Index |-> "none"]
  /\ chans = <<>>
  /\ shared = Nothing
  /\ seen = [i \in Index |-> Nothing]
  /\ given = NotGiven

-----------------------------------------------------------------------------
(* What the test calls besides the burst. *)

\* The test calls one thing at a time.
Free == owner \in {"idle", "nil", "error"} /\ access # "judge"

SetAPIs(old, m) == IF m \in WithAPIs THEN m ELSE old

\* StartService sets the external APIs and the mocks, unless a monitor or an
\* external API is refused before; a service that does not start leaves them.
StartTest ==
  /\ Free
  /\ shared' \in {shared, [shared EXCEPT !.apis = SetAPIs(@, StartMock),
                                        !.mocks = StartMock]}
  /\ UNCHANGED <<owner, access, params, at, result, chans, seen, given>>

\* TestAccess of the mocks m, whose repository comes in the deprecated parameter
\* or, in the Mocks, is dropped: it sets that or nothing, then the external APIs
\* and the mocks.
Repositories(m) == {m, NoMock}

TestAccess(m) ==
  /\ Free /\ access = "no"
  /\ access' = "judge"
  /\ \E r \in Repositories(m) :
       /\ shared' = [repository |-> r, apis |-> SetAPIs(shared.apis, m), mocks |-> m]
       /\ given' = [mocks |-> m, repository |-> r]
  /\ UNCHANGED <<owner, params, at, result, chans, seen>>

\* The repository or an external API is refused: TestAccess returns its error.
TestAccessFails(m) ==
  /\ Free /\ access = "no"
  /\ access' = "done"
  /\ shared' \in {shared} \cup {[shared EXCEPT !.repository = r] : r \in Repositories(m)}
  /\ UNCHANGED <<owner, params, at, result, chans, seen, given>>

\* handleAccessForTest and its validators are through, whatever the verdict.
Judge ==
  /\ access = "judge"
  /\ access' = "done"
  /\ given' = NotGiven
  /\ UNCHANGED <<owner, params, at, result, chans, shared, seen>>

-----------------------------------------------------------------------------
(* TestRequestOrPublishBurst, its caller. *)

Burst ==
  /\ Free /\ owner = "idle"
  /\ owner' = "order"
  /\ UNCHANGED <<access, params, at, result, chans, shared, seen, given>>

\* The order reaches a goroutine, which passes it on if there is a next one.
Ordered(i) == [at EXCEPT ![i] = IF i < BurstSize THEN "pass" ELSE "repository"]

\* order[0] <- true
OrderFirst ==
  /\ owner = "order" /\ at[1] = "select"
  /\ owner' = "collect"
  /\ at' = Ordered(1)
  /\ UNCHANGED <<access, params, result, chans, shared, seen, given>>

Collected == {i \in Index : at[i] = "sent"} \ {chans[k] : k \in DOMAIN chans}

\* Mutant of Collect: one result fewer is waited for.
CollectOneLess ==
  /\ owner = "collect" /\ chans # <<>>
  /\ chans' = Tail(chans)
  /\ owner' = IF result[Head(chans)] = "error" THEN "error"
              ELSE IF \E i \in Index : Collected \cup {Head(chans), i} = Index
              THEN "nil" ELSE "collect"
  /\ UNCHANGED <<access, params, at, result, shared, seen, given>>

\* err := <-chans: the first error ends the burst, and so do all results.
Collect ==
  /\ owner = "collect" /\ chans # <<>>
  /\ chans' = Tail(chans)
  /\ owner' = IF result[Head(chans)] = "error" THEN "error"
              ELSE IF Collected \cup {Head(chans)} = Index THEN "nil"
              ELSE "collect"
  /\ UNCHANGED <<access, params, at, result, shared, seen, given>>

-----------------------------------------------------------------------------
(* The goroutine of request i. *)

\* order[nextIdx] <- true: meets the next one's select, or blocks for ever.
PassOrder(i) ==
  /\ at[i] = "pass" /\ at[i + 1] = "select"
  /\ at' = [Ordered(i + 1) EXCEPT ![i] = "repository"]
  /\ UNCHANGED <<owner, access, params, result, chans, shared, seen, given>>

\* <-ctx.Done(): done() was called before the burst returned.
CtxDone(i) ==
  /\ at[i] = "select" /\ owner \in {"nil", "error"}
  /\ at' = [at EXCEPT ![i] = "gone"]
  /\ UNCHANGED <<owner, access, params, result, chans, shared, seen, given>>

\* chans <- the error, or nil; the channel has room for all.
Send(i, error) ==
  /\ at' = [at EXCEPT ![i] = "sent"]
  /\ result' = [result EXCEPT ![i] = error]
  /\ chans' = Append(chans, i)

\* The callback Ok or Err that an answer or an error calls ends its goroutine,
\* as the Require of a test does (runtime.Goexit): nothing is sent.
CallbackExits(i) ==
  /\ at' = [at EXCEPT ![i] = "exited"]
  /\ UNCHANGED <<result, chans>>

\* TestRequestOrPublish: SetRepository, SetExternalAPI for each, SetMocks.
SetRepository(i) ==
  /\ at[i] = "repository"
  /\ \/ /\ shared' = [shared EXCEPT !.repository = params[i]]
        /\ at' = [at EXCEPT ![i] = "apis"]
        /\ UNCHANGED <<result, chans>>
     \/ Send(i, "error") /\ UNCHANGED shared
  /\ UNCHANGED <<owner, access, params, seen, given>>

\* Mutant of SetExternalAPIs: the mocks are not set.
SetExternalAPIsLast(i) ==
  /\ at[i] = "apis"
  /\ shared' = [shared EXCEPT !.apis = SetAPIs(@, params[i])]
  /\ at' = [at EXCEPT ![i] = "handle"]
  /\ UNCHANGED <<owner, access, params, result, chans, seen, given>>

SetExternalAPIs(i) ==
  /\ at[i] = "apis"
  /\ \/ /\ shared' = [shared EXCEPT !.apis = SetAPIs(@, params[i])]
        /\ at' = [at EXCEPT ![i] = "mocks"]
        /\ UNCHANGED <<result, chans>>
     \/ params[i] \in WithAPIs /\ Send(i, "error") /\ UNCHANGED shared
  /\ UNCHANGED <<owner, access, params, seen, given>>

SetMocks(i) ==
  /\ at[i] = "mocks"
  /\ shared' = [shared EXCEPT !.mocks = params[i]]
  /\ at' = [at EXCEPT ![i] = "handle"]
  /\ UNCHANGED <<owner, access, params, result, chans, seen, given>>

\* handleRequestForTest: no handler (503), or the handler, which uses the
\* repository and the external APIs.
HandleRequestForTest(i) ==
  /\ at[i] = "handle"
  /\ \/ (Send(i, "error") \/ CallbackExits(i)) /\ UNCHANGED seen
     \/ /\ seen' = [seen EXCEPT ![i] = [shared EXCEPT !.mocks = NoMock]]
        /\ at' = [at EXCEPT ![i] = "request"]
        /\ UNCHANGED <<result, chans>>
  /\ UNCHANGED <<owner, access, params, shared, given>>

\* The handler's own requests find the provider's mocks (requestMocked); it
\* answers, or fails, or panics, which is an error too.
MockedRequest(i) ==
  /\ at[i] = "request"
  /\ seen' = [seen EXCEPT ![i].mocks = shared.mocks]
  /\ (\E error \in {"nil", "error"} : Send(i, error)) \/ CallbackExits(i)
  /\ UNCHANGED <<owner, access, params, shared, given>>

BurstRequest(i) ==
  \/ i < BurstSize /\ PassOrder(i)
  \/ CtxDone(i)
  \/ SetRepository(i) \/ SetExternalAPIs(i) \/ SetMocks(i)
  \/ HandleRequestForTest(i) \/ MockedRequest(i)

-----------------------------------------------------------------------------
BurstStep == OrderFirst \/ Collect \/ Judge \/ \E i \in Index : BurstRequest(i)

BurstNext ==
  \/ BurstStep \/ Burst \/ StartTest
  \/ \E m \in Mock : TestAccess(m) \/ TestAccessFails(m)

\* Goroutines go on; what a handler does returns.
BurstFairness == WF_burstVars(BurstStep)

-----------------------------------------------------------------------------
(* Properties. *)

\* A burst returns: nil only when every request has run without an error, an
\* error only if a request had one; unless a callback has ended the goroutine of
\* a request, whose result the burst then awaits (api-test-service-impl.go:196,
\* 208-216).
BurstEnds ==
  owner = "order" ~>
    \/ owner = "nil" /\ \A i \in Index : at[i] = "sent" /\ result[i] = "nil"
    \/ owner = "error" /\ \E i \in Index : result[i] = "error"
    \/ \E i \in Index : at[i] = "exited"

\* Until a burst ends with an error and leaves requests running, the handler
\* of a request finds the repository, the external APIs and the mocks of a
\* request of its burst, hence its own if all agree
\* (api-test-service-impl.go:148-172, 196).  The validators of a TestAccess find
\* its mocks, its external APIs and the repository of its deprecated parameter:
\* never that of Mocks.Repository, which api-test-service.go:25 would have one
\* use instead (api-test-service-impl.go:112-134).
MocksOfTest ==
  owner # "error" =>
    /\ \A i \in Index :
         /\ seen[i] # Nothing =>
              /\ seen[i].repository \in {params[j] : j \in Index}
              /\ params[i] \in WithAPIs => seen[i].apis \in {params[j] : j \in Index}
         /\ result[i] = "nil" => seen[i].mocks \in {params[j] : j \in Index}
    /\ access = "judge" =>
         /\ shared.mocks = given.mocks
         /\ given.mocks \in WithAPIs => shared.apis = given.mocks
         /\ shared.repository = given.repository
=============================================================================
