-------------------------- MODULE ServerLifecycle --------------------------
(***************************************************************************)
(* A process of the HTTP service: RunServerInterruptible with its server   *)
(* goroutine, its stop goroutine and the caller that stops it, around the  *)
(* requests of ConfigCache.  The cache lives and dies with the process.    *)
(***************************************************************************)
EXTENDS ConfigCache

CONSTANT Grace       \* Shutdown's deadline, 15 seconds in the code

ASSUME GraceAssumption == Grace \in Nat \ {0}

VARIABLES
  serving,           \* the server goroutine is in ListenAndServe
  stopper,           \* the stop goroutine: "waiting", "shutdown" or "over"
  grace,             \* seconds left of Shutdown's context
  doneCh,            \* what is in the channel: "empty", "nil" or "err"
  caller             \* "running", "stopping" (it has sent stop) or "finished"

serverVars == <<serving, stopper, grace, doneCh, caller>>
vars == <<storeVars, cacheVars, serverVars>>

ServerInit ==
  /\ serving = TRUE /\ stopper = "waiting" /\ grace = Grace
  /\ doneCh = "empty" /\ caller = "running"

Init == StoreInit /\ CacheInit /\ ServerInit

\* The listener is open until Shutdown begins.
Accept(r) ==
  /\ serving /\ stopper = "waiting"
  /\ LookUp(r)
  /\ UNCHANGED serverVars

\* Mutant: a clean exit is not signalled.
SignalErrorsOnly(err) == doneCh' = IF err = "nil" THEN doneCh ELSE err

Signal(err) == doneCh' = err

\* ListenAndServe returns an error, or ErrServerClosed as soon as Shutdown
\* begins.
ServeReturns ==
  /\ serving
  /\ serving' = FALSE
  /\ Signal("err") \/ (stopper # "waiting" /\ Signal("nil"))
  /\ UNCHANGED <<storeVars, cacheVars, stopper, grace, caller>>

\* The caller sends on stop, which the stop goroutine receives.
Stop ==
  /\ caller = "running" /\ stopper = "waiting"
  /\ caller' = "stopping" /\ stopper' = "shutdown"
  /\ UNCHANGED <<storeVars, cacheVars, serving, grace, doneCh>>

\* Mutant: the context has no deadline.
DeadlineNever == FALSE

Deadline == grace = 0

\* Shutdown returns when no request is in flight, or at its deadline.
ShutdownReturns ==
  /\ stopper = "shutdown" /\ (InFlight = {} \/ Deadline)
  /\ stopper' = "over" /\ grace' = Grace
  /\ UNCHANGED <<storeVars, cacheVars, serving, doneCh, caller>>

ReceiveDone ==
  /\ caller # "finished" /\ doneCh # "empty"
  /\ caller' = "finished" /\ doneCh' = "empty"
  /\ UNCHANGED <<storeVars, cacheVars, serving, stopper, grace>>

\* The process exits, because it has been told done or because it crashed, and
\* another one starts: requests in flight are lost, the cache is empty, and a
\* missing table is created.
Restart ==
  /\ cache' = [c \in Clients |-> NoEntry] /\ req' = [r \in Requests |-> Idle]
  /\ serving' = TRUE /\ stopper' = "waiting" /\ grace' = Grace
  /\ doneCh' = "empty" /\ caller' = "running"
  /\ createTableIfNotExists
  /\ UNCHANGED <<backend, profile, clear>>

Tick ==
  /\ Elapse
  /\ grace' = IF stopper = "shutdown" /\ grace > 0 THEN grace - 1 ELSE grace
  /\ UNCHANGED <<serving, stopper, doneCh, caller>>

Handle(r) == (Read(r) \/ Fill(r) \/ Serve(r)) /\ UNCHANGED serverVars

Next ==
  \/ \E r \in Requests : Accept(r) \/ Handle(r)
  \/ ServeReturns \/ Stop \/ ShutdownReturns \/ ReceiveDone \/ Restart \/ Tick
  \/ Operate /\ UNCHANGED <<cacheVars, serverVars>>

\* The clock runs, goroutines are scheduled, ListenAndServe returns once
\* Shutdown has begun, and reads of a configuration return.  A request may be
\* served for ever: its body is read without a deadline.
Spec ==
  /\ Init /\ [][Next]_vars
  /\ WF_vars(Tick) /\ WF_vars(stopper # "waiting" /\ ServeReturns)
  /\ WF_vars(ShutdownReturns) /\ WF_vars(ReceiveDone)
  /\ \A r \in Requests : WF_vars((Read(r) \/ Fill(r)) /\ UNCHANGED serverVars)
-----------------------------------------------------------------------------
\* Only validated configurations are stored, cached and used, and the
\* counters of time stay in their ranges.
TypeOK ==
  /\ profile \in [Clients -> Valid \cup {Nil}]
  /\ \A c \in Clients : cache[c].cc \in Valid \cup {Nil} /\ cache[c].left \in 0..TTL
  /\ \A r \in InFlight : req[r].client \in Clients /\ req[r].cc \in Valid \cup {Nil}
  /\ grace \in 0..Grace /\ doneCh \in {"empty", "nil", "err"}
  /\ caller = "stopping" => stopper # "waiting"

\* Who stops the server is told done, whatever requests and failures are going
\* on: every way out of ListenAndServe signals, and the channel has room.
StopIsAnswered == caller = "stopping" ~> caller # "stopping"

\* Shutdown gives up on requests that never end.
ShutdownEnds == stopper = "shutdown" ~> stopper # "shutdown"
=============================================================================
