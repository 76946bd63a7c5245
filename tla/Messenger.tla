----------------------------- MODULE Messenger -----------------------------
(***************************************************************************)
(* The network messenger's lifecycle (MessengerLifecycle) composed with a  *)
(* caller of WaitForConnections (WaitForConnections): the call can be made *)
(* once newNetworkMessenger has returned the messenger, also while or after *)
(* Close runs.  The two share no variable: waitForConnections makes its    *)
(* contexts from context.Background(), not from the messenger's context,   *)
(* and Close does not wake it.                                             *)
(***************************************************************************)
EXTENDS MessengerLifecycle

CONSTANTS MaxWaitingTime, PollInterval, MaxPeers

VARIABLES pc, minNumOfPeers, connected, toDeadline, toPoll

W == INSTANCE WaitForConnections

wvars == <<pc, minNumOfPeers, connected, toDeadline, toPoll>>
allVars == <<vars, wvars>>

\* the messenger was returned to its caller
Created == phase \in {"running", "closing", "closed"}

\* a step of the WaitForConnections caller, or of the peers of the host
WaitStep ==
    /\ Created
    /\ \/ W!WaitForConnectionsCall \/ W!SleepDone \/ W!DeadlineCase
       \/ W!PollCase \/ W!Tick \/ W!PeerConnects \/ W!PeerDisconnects

MessengerInit == Init /\ W!Init

MessengerNext ==
    \/ Next /\ UNCHANGED wvars
    \/ WaitStep /\ UNCHANGED vars

MessengerSpec ==
    MessengerInit /\ [][MessengerNext]_allVars /\ Fairness /\ W!Fairness

-----------------------------------------------------------------------------

\* WaitForConnections returns once called: a poll that keeps coming out
\* false, the random select picking the poll case after the deadline, or a
\* Close of the messenger meanwhile never keeps the loop going forever.
WaitReturns == pc \in {"sleep", "select"} ~> pc = "returned"

=============================================================================
