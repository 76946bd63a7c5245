----------------------- MODULE MCMessengerLifecycle -----------------------
(* Instantiates MessengerLifecycle for TLC: three constructNode attempts  *)
(* (the code allows ten), enough for a bind error to be retried and for   *)
(* the retries to run out.                                                *)
EXTENDS MessengerLifecycle, TLC
=============================================================================
