----------------------------- MODULE MCCommands -----------------------------
(* Two hosts, one of them in the group, and a service on it.               *)
EXTENDS Commands

MCHostOf == [s \in {"s"} |-> "h"]
MCConfOn == [o \in {"h", "g", "s", "ann"} |->
               IF o = "ann" THEN {"host_notifications", "service_notifications"}
               ELSE IF o = "g" THEN {"active", "flap"}
               ELSE {"notifications", "active", "passive", "handler", "flap", "perf"}]
MCConfFlags == Flags \ {"failure_prediction", "obsess_over_hosts", "obsess_over_services"}
=============================================================================
