------------------------- MODULE MessengerLifecycle -------------------------
(***************************************************************************)
(* Construction, background goroutines and Close of the network messenger *)
(* of src/libp2p/netMessenger.go.                                          *)
(*                                                                         *)
(* newNetworkMessenger checks its arguments, builds the libp2p host with   *)
(* constructNodeWithPortRetry (retrying only on "address already in use"), *)
(* validates the seeders and adds the components, any of which can fail.   *)
(* pubsub.NewGossipSub starts its processing loop on the messenger's      *)
(* context, newPeersOnChannel its refresh loop (stopped by the poc's own   *)
(* Close), createConnectionMonitor the connection-check goroutine and      *)
(* printLogs the stats and external-logger goroutines; the others loop     *)
(* until the messenger's context is cancelled.  Close runs seven stages    *)
(* one after the other while those goroutines run.                         *)
(*                                                                         *)
(* What each collaborator does is abstracted to whether its call fails.    *)
(***************************************************************************)
EXTENDS Naturals, Sequences

CONSTANTS
    MaxRetriesIfBindError,  \* maxRetriesIfBindError (10 in the code)
    Goroutines              \* the goroutines modelled, a subset of AllGoroutines

AllGoroutines == {"pubsubLoop", "pocRefresh", "connCheck", "printStats", "extLoggers"}

ASSUME MaxRetriesIfBindError \in Nat \ {0} /\ Goroutines \subseteq AllGoroutines

\* the calls of addComponentsToNode that return an error, in order
Components == <<"gossipSub", "peersOnChannel", "sharder", "discoverer",
                "connMonitor", "directSender", "throttler", "messagesHandler">>

\* addComponentsToNode returns the error of Components[i], or none when
\* i = Len(Components) + 1
FailPoints == 1..(Len(Components) + 1)

\* the index in Components of the call that starts each goroutine;
\* printLogs runs after the last one
StartedAfter ==
    [g \in AllGoroutines |->
        CASE g = "pubsubLoop" -> 1
          [] g = "pocRefresh" -> 2
          [] g = "connCheck"  -> 5
          [] OTHER            -> Len(Components)]

\* the stages of Close, in order; "cancel" is netMes.cancelFunc()
CloseStages == <<"messagesHandler", "host", "connWatcher", "poc",
                 "connMonitor", "cancel", "peerstore">>

\* the stages whose error Close assigns to err
ErrAssigned == {"messagesHandler", "host", "connWatcher", "peerstore"}

VARIABLES
    phase,         \* "new", "constructing", "validating", "adding",
                   \* "running", "closing", "closed" or "failed"
    attempt,       \* constructNode calls made by constructNodeWithPortRetry
    lastErr,       \* error of the last constructNode call
    openHosts,     \* libp2p hosts built and not closed
    ctxCancelled,  \* netMes.ctx is done
    pocClosed,     \* netMes.poc.Close() has run
    gpc,           \* goroutine -> "none", "work", "select" or "exited"
    cstage,        \* index in CloseStages of the next stage of Close
    err,           \* Close's err
    failures       \* ghost: the Close stages that failed, in order

vars == <<phase, attempt, lastErr, openHosts, ctxCancelled, pocClosed, gpc, cstage, err, failures>>

-----------------------------------------------------------------------------
(* Construction                                                            *)

\* newNetworkMessenger: the nil checks on its arguments
NewNetworkMessenger(argsValid) ==
    /\ phase = "new"
    /\ phase' = IF argsValid THEN "constructing" ELSE "failed"
    /\ UNCHANGED <<attempt, lastErr, openHosts, ctxCancelled, pocClosed, gpc, cstage, err, failures>>

\* the outcomes of constructNode: "ok", a bind error from libp2p.New,
\* another error before the host exists (getPort, the watcher, the key
\* conversion, libp2p.New), or an error of NewP2PSignerWrapper, returned
\* after libp2p.New has built the host
Outcomes == {"ok", "bind", "other", "signer"}

\* one iteration of constructNodeWithPortRetry
ConstructNode(o) ==
    /\ phase = "constructing"
    /\ attempt < MaxRetriesIfBindError
    /\ attempt' = attempt + 1
    /\ lastErr' = o
    /\ openHosts' = IF o \in {"ok", "signer"} THEN openHosts + 1 ELSE openHosts
    /\ phase' = CASE o = "ok" -> "validating"
                  [] o = "bind" /\ attempt + 1 < MaxRetriesIfBindError -> "constructing"
                  [] OTHER -> "failed"
    /\ UNCHANGED <<ctxCancelled, pocClosed, gpc, cstage, err, failures>>

\* validateSeeders: an error returns without closing the host
ValidateSeeders(ok) ==
    /\ phase = "validating"
    /\ phase' = IF ok THEN "adding" ELSE "failed"
    /\ UNCHANGED <<attempt, lastErr, openHosts, ctxCancelled, pocClosed, gpc, cstage, err, failures>>

\* addComponentsToNode, failing at Components[failAt]: the goroutines of
\* the calls before it are running; on failure newNetworkMessenger closes
\* the host, but neither cancels the context nor closes the poc
AddComponentsToNode(failAt) ==
    LET ok == failAt > Len(Components)
    IN  /\ phase = "adding"
        /\ gpc' = [g \in Goroutines |->
                     IF failAt <= StartedAfter[g] THEN "none"
                     ELSE IF g = "connCheck" THEN "work" ELSE "select"]
        /\ phase' = IF ok THEN "running" ELSE "failed"
        /\ openHosts' = IF ok THEN openHosts ELSE openHosts - 1
        /\ UNCHANGED <<attempt, lastErr, ctxCancelled, pocClosed, cstage, err, failures>>

-----------------------------------------------------------------------------
(* The goroutines: the connection check calls CheckConnectionsBlocking     *)
(* and then selects; the others select and then work.  A select whose two  *)
(* cases are ready picks one at random.  The poc refresh loop stops on     *)
(* the poc's own context, the others on the messenger's.                   *)

Stopped(g) == IF g = "pocRefresh" THEN pocClosed ELSE ctxCancelled

Work(g) ==
    /\ gpc[g] = "work"
    /\ gpc' = [gpc EXCEPT ![g] = "select"]
    /\ UNCHANGED <<phase, attempt, lastErr, openHosts, ctxCancelled, pocClosed, cstage, err, failures>>

\* case <-time.After(...)
TimerFired(g) ==
    /\ gpc[g] = "select"
    /\ gpc' = [gpc EXCEPT ![g] = "work"]
    /\ UNCHANGED <<phase, attempt, lastErr, openHosts, ctxCancelled, pocClosed, cstage, err, failures>>

\* mutant: the connection-check loop has no case for ctx.Done()
ExitWithoutCtxCase(g) ==
    /\ g # "connCheck"
    /\ gpc[g] = "select" /\ Stopped(g)
    /\ gpc' = [gpc EXCEPT ![g] = "exited"]
    /\ UNCHANGED <<phase, attempt, lastErr, openHosts, ctxCancelled, pocClosed, cstage, err, failures>>

\* case <-netMes.ctx.Done(): return (the poc loop: its own context's Done)
Exit(g) ==
    /\ gpc[g] = "select" /\ Stopped(g)
    /\ gpc' = [gpc EXCEPT ![g] = "exited"]
    /\ UNCHANGED <<phase, attempt, lastErr, openHosts, ctxCancelled, pocClosed, cstage, err, failures>>

-----------------------------------------------------------------------------
(* Close                                                                   *)

StartClose ==
    /\ phase = "running"
    /\ phase' = "closing" /\ cstage' = 1
    /\ UNCHANGED <<attempt, lastErr, openHosts, ctxCancelled, pocClosed, gpc, err, failures>>

\* one stage of Close; the error of a failing stage is logged, and assigned
\* to err only for the stages of ErrAssigned; the last stage returns err
CloseStage(fails) ==
    LET s == CloseStages[cstage] IN
    /\ phase = "closing"
    /\ ~(s = "cancel" /\ fails)
    /\ ctxCancelled' = (ctxCancelled \/ s = "cancel")
    /\ pocClosed' = (pocClosed \/ s = "poc")
    /\ openHosts' = IF s = "host" THEN openHosts - 1 ELSE openHosts
    /\ failures' = IF fails THEN Append(failures, s) ELSE failures
    /\ err' = IF fails /\ s \in ErrAssigned THEN s ELSE err
    /\ cstage' = cstage + 1
    /\ phase' = IF cstage = Len(CloseStages) THEN "closed" ELSE "closing"
    /\ UNCHANGED <<attempt, lastErr, gpc>>

-----------------------------------------------------------------------------

Init ==
    /\ phase = "new" /\ attempt = 0 /\ lastErr = "ok" /\ openHosts = 0
    /\ ctxCancelled = FALSE /\ pocClosed = FALSE
    /\ gpc = [g \in Goroutines |-> "none"]
    /\ cstage = 0 /\ err = "none" /\ failures = <<>>

Next ==
    \/ \E ok \in BOOLEAN : NewNetworkMessenger(ok) \/ ValidateSeeders(ok)
    \/ \E o \in Outcomes : ConstructNode(o)
    \/ \E i \in FailPoints : AddComponentsToNode(i)
    \/ \E g \in Goroutines : Work(g) \/ TimerFired(g) \/ Exit(g)
    \/ StartClose
    \/ \E fails \in BOOLEAN : CloseStage(fails)

\* A goroutine keeps running once it is scheduled; Go's select picks among
\* ready cases uniformly at random, so a cancelled context, ready at every
\* select from then on, is eventually picked (strong fairness); Close, once
\* called, runs to its end.
Fairness ==
    /\ \A g \in Goroutines : WF_vars(Work(g)) /\ SF_vars(Exit(g))
    /\ WF_vars(\E fails \in BOOLEAN : CloseStage(fails))

Spec == Init /\ [][Next]_vars /\ Fairness

-----------------------------------------------------------------------------
(* Properties                                                              *)

TypeOK ==
    /\ phase \in {"new", "constructing", "validating", "adding", "running",
                  "closing", "closed", "failed"}
    /\ attempt \in 0..MaxRetriesIfBindError
    /\ lastErr \in Outcomes
    /\ openHosts \in 0..MaxRetriesIfBindError
    /\ ctxCancelled \in BOOLEAN /\ pocClosed \in BOOLEAN
    /\ gpc \in [Goroutines -> {"none", "work", "select", "exited"}]
    /\ cstage \in 0..(Len(CloseStages) + 1)
    /\ err \in ErrAssigned \cup {"none"}
    /\ failures \in Seq({CloseStages[i] : i \in DOMAIN CloseStages})

\* Once Close has returned, every goroutine the messenger started (the
\* pubsub loop, the poc refresh, the connection check, printLogsStats,
\* checkExternalLoggers) eventually
\* returns, although the connection check runs CheckConnectionsBlocking on
\* the closed host before it looks at the context.
GoroutinesStopAfterClose ==
    phase = "closed" ~> \A g \in Goroutines : gpc[g] \in {"none", "exited"}

\* Spec 4.5: Close runs every stage and returns the first non-nil error.
CloseReturnsFirstError ==
    phase = "closed" =>
        err = IF failures = <<>> THEN "none" ELSE Head(failures)

FailedConstructionStopsGoroutines ==
    phase = "failed" => \A g \in Goroutines : gpc[g] \in {"none", "exited"}
=============================================================================
