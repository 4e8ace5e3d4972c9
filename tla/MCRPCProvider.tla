--------------------------- MODULE MCRPCProvider ---------------------------
(* Four endpoints, in configuration order.  e1 and e2 serve chain c1 over *)
(* rest at a1 and a2: they race for the c1 tracker, and both write the    *)
(* c1/rest gauge.  e3 (chain c2, rest) has an empty address and inherits  *)
(* a2 from e2, so e2 and e3 race for one listener.  e4 (c2, grpc) also    *)
(* inherits a2 but has an invalid descriptor, so the retry goroutine      *)
(* keeps running up to MaxRetry and reaches its parallel rounds.          *)
EXTENDS RPCProvider

MCConfig ==
    << [chain |-> "c1", iface |-> "rest", addr |-> "a1", valid |-> TRUE],
       [chain |-> "c1", iface |-> "rest", addr |-> "a2", valid |-> TRUE],
       [chain |-> "c2", iface |-> "rest", addr |-> NoAddress, valid |-> TRUE],
       [chain |-> "c2", iface |-> "grpc", addr |-> NoAddress, valid |-> FALSE] >>
=============================================================================
