------------------------- MODULE WaitForConnections -------------------------
(***************************************************************************)
(* networkMessenger.WaitForConnections (src/libp2p/netMessenger.go).       *)
(*                                                                         *)
(* With minNumOfPeers = 0 the call sleeps maxWaitingTime.  Otherwise       *)
(* waitForConnections makes one deadline context of maxWaitingTime and     *)
(* calls shouldStopWaiting in a loop; each call makes a poll context of    *)
(* pollWaitForConnectionsInterval and selects on the two.  When both are   *)
(* done the Go runtime picks one of them at random.                        *)
(*                                                                         *)
(* Time is counted in ticks.  toDeadline and toPoll are the ticks left on  *)
(* the two contexts; time passes only while no select case is ready (the   *)
(* waiting goroutine is woken when a timer fires).  Other goroutines       *)
(* connect and disconnect peers meanwhile.                                 *)
(***************************************************************************)
EXTENDS Naturals

CONSTANTS
    MaxWaitingTime,   \* maxWaitingTime, in ticks
    PollInterval,     \* pollWaitForConnectionsInterval (one second), in ticks
    MaxPeers          \* bound on the connected peers

ASSUME MaxWaitingTime \in Nat /\ PollInterval \in Nat \ {0} /\ MaxPeers \in Nat

VARIABLES
    pc,            \* "start", "sleep", "select" or "returned"
    minNumOfPeers,
    connected,     \* len(netMes.ConnectedPeers())
    toDeadline,    \* ticks left on ctxMaxWaitingTime
    toPoll         \* ticks left on the current poll context

vars == <<pc, minNumOfPeers, connected, toDeadline, toPoll>>

-----------------------------------------------------------------------------

\* WaitForConnections: sleep when no peer is required, else waitForConnections
\* creates ctxMaxWaitingTime and the first shouldStopWaiting its poll context
WaitForConnectionsCall ==
    /\ pc = "start"
    /\ pc' = IF minNumOfPeers = 0 THEN "sleep" ELSE "select"
    /\ toDeadline' = MaxWaitingTime
    /\ toPoll' = PollInterval
    /\ UNCHANGED <<minNumOfPeers, connected>>

\* time.Sleep(maxWaitingTime) ends
SleepDone ==
    /\ pc = "sleep" /\ toDeadline = 0
    /\ pc' = "returned"
    /\ UNCHANGED <<minNumOfPeers, connected, toDeadline, toPoll>>

\* mutant: the deadline case returns false, so the loop goes on polling
DeadlineCaseContinues ==
    /\ pc = "select" /\ toDeadline = 0
    /\ toPoll' = PollInterval
    /\ UNCHANGED <<pc, minNumOfPeers, connected, toDeadline>>

\* case <-ctxMaxWaitingTime.Done(): return true
DeadlineCase ==
    /\ pc = "select" /\ toDeadline = 0
    /\ pc' = "returned"
    /\ UNCHANGED <<minNumOfPeers, connected, toDeadline, toPoll>>

\* case <-ctx.Done(): return int(minNumOfPeers) <= len(ConnectedPeers());
\* on false the loop calls shouldStopWaiting again, with a new poll context
PollCase ==
    /\ pc = "select" /\ toPoll = 0
    /\ IF minNumOfPeers <= connected
         THEN pc' = "returned" /\ UNCHANGED toPoll
         ELSE toPoll' = PollInterval /\ UNCHANGED pc
    /\ UNCHANGED <<minNumOfPeers, connected, toDeadline>>

\* a tick passes while the goroutine is blocked with no timer fired
Tick ==
    /\ \/ pc = "sleep" /\ toDeadline > 0
       \/ pc = "select" /\ toDeadline > 0 /\ toPoll > 0
    /\ toDeadline' = toDeadline - 1
    /\ toPoll' = IF pc = "select" THEN toPoll - 1 ELSE toPoll
    /\ UNCHANGED <<pc, minNumOfPeers, connected>>

\* other goroutines: a peer connects or disconnects
PeerConnects ==
    /\ connected < MaxPeers /\ connected' = connected + 1
    /\ UNCHANGED <<pc, minNumOfPeers, toDeadline, toPoll>>

PeerDisconnects ==
    /\ connected > 0 /\ connected' = connected - 1
    /\ UNCHANGED <<pc, minNumOfPeers, toDeadline, toPoll>>

Init ==
    /\ pc = "start"
    /\ minNumOfPeers \in 0..(MaxPeers + 1)
    /\ connected \in 0..MaxPeers
    /\ toDeadline = MaxWaitingTime /\ toPoll = PollInterval

Next ==
    \/ WaitForConnectionsCall \/ SleepDone \/ DeadlineCase \/ PollCase
    \/ Tick \/ PeerConnects \/ PeerDisconnects

\* Timers fire and the blocked goroutine is scheduled: each step of the
\* call, and the passing of time, is weakly fair.  Connections are not.
Fairness == WF_vars(SleepDone) /\ WF_vars(DeadlineCase) /\ WF_vars(PollCase)
            /\ WF_vars(Tick)

Spec == Init /\ [][Next]_vars /\ WF_vars(WaitForConnectionsCall) /\ Fairness

-----------------------------------------------------------------------------

TypeOK ==
    /\ pc \in {"start", "sleep", "select", "returned"}
    /\ minNumOfPeers \in 0..(MaxPeers + 1) /\ connected \in 0..MaxPeers
    /\ toDeadline \in 0..MaxWaitingTime /\ toPoll \in 0..PollInterval

=============================================================================
