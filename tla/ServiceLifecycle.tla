-------------------------- MODULE ServiceLifecycle --------------------------
(***************************************************************************)
(* One service of the v2 API: Setup, StartService and Stop of              *)
(* v2/pkg/spike/api-service-impl.go:24-171 as its owner calls them.        *)
(* StartService subscribes the handlers, Live, the monitors and the two    *)
(* validation endpoints and then starts the service; it returns the first  *)
(* error and leaves what it has subscribed.  That a subscription succeeds  *)
(* does not mean that it is there: the NATS provider logs what its         *)
(* connections refuse and returns no error                                 *)
(* (v2/pkg/broker/providers/nats/provider.go:91-111).  Stop unsubscribes the *)
(* monitors, waits for the service's answer and cancels its context.  The  *)
(* owner may call StartService again after an error.                       *)
(***************************************************************************)
EXTENDS Naturals, FiniteSets

CONSTANTS
  Handler,   \* endpoints of Handlers()
  Monitor,   \* event subscriptions of Monitors(), all groups together
  Live,      \* Rid().Live()
  Validate,  \* ValidateMonitor and ValidatePublish; empty without WithEvents
  MaxStarts, \* bound: calls of StartService
  MaxRefused, \* bound: subscriptions that all connections refuse
  Answers    \* whether the service is known to answer on the channel of Stop

ASSUME ServiceAssumption ==
  /\ MaxStarts \in Nat \ {0} /\ MaxRefused \in Nat
  /\ Answers \in BOOLEAN
  /\ Live \notin Handler \cup Monitor \cup Validate
  /\ Handler \cap Monitor = {} /\ Validate \cap (Handler \cup Monitor) = {}

Endpoint == Handler \cup {Live} \cup Validate

VARIABLES
  pc,         \* where the owner is
  starts,     \* calls of StartService so far; each has its own subscriptions
  subscribed, \* <<e, n>>: the n-th StartService has subscribed e
  refused,    \* and those that no connection took, to StartService's ignorance
  monitored,  \* <<m, n>>: and monitors m
  monitorSubs, \* the monitors whose unsubscribe function s.monitorSubs holds
  service,    \* the service behind the interface
  ctx         \* the context given to it

vars == <<pc, starts, subscribed, refused, monitored, monitorSubs, service, ctx>>

Of == [handlers |-> Handler, live |-> {Live}, monitors |-> Monitor,
       validators |-> Validate]
After == [handlers |-> "live", live |-> "monitors", monitors |-> "validators",
          validators |-> "start"]

TypeOK ==
  /\ pc \in {"setup", "handlers", "live", "monitors", "validators", "start",
             "failed", "started", "unmonitor", "wait", "cancel", "stopped"}
  /\ starts \in 0..MaxStarts
  /\ subscribed \subseteq Endpoint \X (1..MaxStarts)
  /\ refused \subseteq Endpoint \X (1..MaxStarts)
  /\ monitored \subseteq Monitor \X (1..MaxStarts)
  /\ monitorSubs \subseteq Monitor \X (1..MaxStarts)
  /\ service \in {"new", "started", "stopping", "stopped"}
  /\ ctx \in {"live", "cancelled"}

Init ==
  /\ pc = "setup"
  /\ starts = 0
  /\ subscribed = {} /\ refused = {} /\ monitored = {} /\ monitorSubs = {}
  /\ service = "new"
  /\ ctx = "live"

-----------------------------------------------------------------------------
(* StartService. *)

\* Setup is done, or a StartService has failed and is called again.
Begin ==
  /\ pc \in {"setup", "failed"}
  /\ starts < MaxStarts
  /\ pc' = "handlers"
  /\ starts' = starts + 1
  /\ UNCHANGED <<subscribed, refused, monitored, monitorSubs, service, ctx>>

Missing(S, done) == {e \in S : <<e, starts>> \notin done}

Tried == subscribed \cup refused \cup monitored

\* s.broker.Subscribe: of a handler, of Live, of a validation endpoint.  It
\* returns no error, whether a connection takes the subscription or none.
Subscribe(e) ==
  /\ pc \in {"handlers", "live", "validators"}
  /\ e \in Missing(Of[pc], Tried)
  /\ \/ subscribed' = subscribed \cup {<<e, starts>>} /\ UNCHANGED refused
     \/ /\ Cardinality(refused) < MaxRefused
        /\ refused' = refused \cup {<<e, starts>>} /\ UNCHANGED subscribed
  /\ UNCHANGED <<pc, starts, monitored, monitorSubs, service, ctx>>

\* Mutant of MonitorEvent: the unsubscribe function is not kept.
MonitorUnrecorded(m) ==
  /\ pc = "monitors"
  /\ m \in Missing(Monitor, monitored)
  /\ monitored' = monitored \cup {<<m, starts>>}
  /\ UNCHANGED <<pc, starts, subscribed, refused, monitorSubs, service, ctx>>

\* s.broker.Monitor; refused or not, it has a function to unsubscribe.
MonitorEvent(m) ==
  /\ pc = "monitors"
  /\ m \in Missing(Monitor, monitored)
  /\ monitored' = monitored \cup {<<m, starts>>}
  /\ monitorSubs' = monitorSubs \cup {<<m, starts>>}
  /\ UNCHANGED <<pc, starts, subscribed, refused, service, ctx>>

\* Monitor refuses what is no event, and providers other than NATS may fail in
\* Subscribe: the error is returned.
SubscribeFails ==
  /\ pc \in {"handlers", "live", "monitors", "validators"}
  /\ Missing(Of[pc], Tried) # {}
  /\ pc' = "failed"
  /\ UNCHANGED <<starts, subscribed, refused, monitored, monitorSubs, service, ctx>>

\* Mutant of PhaseDone: a loop ends after its first subscription.
PhaseCutShort ==
  /\ pc \in {"handlers", "live", "monitors", "validators"}
  /\ Of[pc] = {} \/ Missing(Of[pc], Tried) # Of[pc]
  /\ pc' = After[pc]
  /\ monitorSubs' = IF pc = "live" THEN {} ELSE monitorSubs
  /\ UNCHANGED <<starts, subscribed, refused, monitored, service, ctx>>

\* One of the loops is through; before the monitors s.monitorSubs is made anew.
PhaseDone ==
  /\ pc \in {"handlers", "live", "monitors", "validators"}
  /\ Missing(Of[pc], Tried) = {}
  /\ pc' = After[pc]
  /\ monitorSubs' = IF pc = "live" THEN {} ELSE monitorSubs
  /\ UNCHANGED <<starts, subscribed, refused, monitored, service, ctx>>

\* s.opts.Service.Start(s.id, s.ctx)
StartImpl ==
  /\ pc = "start"
  /\ \/ pc' = "started" /\ service' = "started"
     \/ pc' = "failed" /\ UNCHANGED service
  /\ UNCHANGED <<starts, subscribed, refused, monitored, monitorSubs, ctx>>

StartService ==
  \/ Begin
  \/ \E e \in Endpoint : Subscribe(e)
  \/ \E m \in Monitor : MonitorEvent(m)
  \/ SubscribeFails \/ PhaseDone \/ StartImpl

-----------------------------------------------------------------------------
(* Stop, once StartService has returned. *)

BeginStop ==
  /\ pc \in {"setup", "failed", "started"}
  /\ pc' = "unmonitor"
  /\ UNCHANGED <<starts, subscribed, refused, monitored, monitorSubs, service, ctx>>

\* unsubscribe(), for each of s.monitorSubs; the slice itself is kept.
Unsubscribe(m) ==
  /\ pc = "unmonitor"
  /\ m \in monitorSubs \cap monitored
  /\ monitored' = monitored \ {m}
  /\ UNCHANGED <<pc, starts, subscribed, refused, monitorSubs, service, ctx>>

\* Mutant of StopImpl: the service is not asked to stop.
StopImplUnasked ==
  /\ pc = "unmonitor"
  /\ monitorSubs \cap monitored = {}
  /\ pc' = "wait"
  /\ UNCHANGED <<starts, subscribed, refused, monitored, monitorSubs, service, ctx>>

\* s.opts.Service.Stop()
StopImpl ==
  /\ pc = "unmonitor"
  /\ monitorSubs \cap monitored = {}
  /\ pc' = "wait"
  /\ service' = "stopping"
  /\ UNCHANGED <<starts, subscribed, refused, monitored, monitorSubs, ctx>>

\* The service sends on the channel it returned (test/v2/service.go:48-52).
Answer ==
  /\ service = "stopping"
  /\ service' = "stopped"
  /\ UNCHANGED <<pc, starts, subscribed, refused, monitored, monitorSubs, ctx>>

\* The receive on the channel, without a timeout.
Answered ==
  /\ pc = "wait"
  /\ service = "stopped"
  /\ pc' = "cancel"
  /\ UNCHANGED <<starts, subscribed, refused, monitored, monitorSubs, service, ctx>>

Cancel ==
  /\ pc = "cancel"
  /\ ctx' = "cancelled"
  /\ pc' = "stopped"
  /\ UNCHANGED <<starts, subscribed, refused, monitored, monitorSubs, service>>

Stopping ==
  \/ \E m \in monitorSubs : Unsubscribe(m)
  \/ StopImpl \/ Answered \/ Cancel

-----------------------------------------------------------------------------
Next == StartService \/ BeginStop \/ Stopping \/ Answer

\* Stop keeps going; whether the service answers is its own affair.
Fairness == WF_vars(Stopping) /\ (Answers => WF_vars(Answer))

Spec == Init /\ [][Next]_vars /\ Fairness

-----------------------------------------------------------------------------
(* Properties. *)

\* Stop goes in order: no monitor of the last StartService outlives the part
\* that unsubscribes them, also when that StartService failed half-way, and the
\* service has its context until it has answered (api-service-impl.go:150-171).
OrderlyStop ==
  /\ pc \in {"wait", "cancel", "stopped"} =>
       \A m \in Monitor : <<m, starts>> \notin monitored
  /\ ctx = "cancelled" => service = "stopped"

\* Stop returns.
StopReturns == pc = "unmonitor" ~> pc = "stopped"
=============================================================================
