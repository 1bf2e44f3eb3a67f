-------------------------- MODULE MCDefaultPoller ---------------------------
(* Values of the constants of DefaultPoller for TLC: for EPollPoller, two
   channels share a descriptor. *)
EXTENDS DefaultPoller, TLC

MCFdOf == "c1" :> 0 @@ "c2" :> 0 @@ "c3" :> 1
=============================================================================
