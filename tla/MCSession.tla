----------------------------- MODULE MCSession ------------------------------
EXTENDS Session

Files == {"found", "missing", "too_long"}

\* Everything UDP, sendto_Err and the disks may do.
Hostile == [faults |-> Ends \X FaultKinds, limit |-> 2, timely |-> FALSE,
            ioErrors |-> TRUE, requests |-> Files]

\* What sendto_Err does at both ends, and packets of any age.
Lossy == [faults |-> Ends \X {"drop", "flip"}, limit |-> 2, timely |-> FALSE,
          ioErrors |-> FALSE, requests |-> {"found"}]

\* Only rcopy's packets are lost, repeated or overtake each other.
BadWayBack == [faults |-> {"server"} \X FaultKinds, limit |-> 1,
               timely |-> FALSE, ioErrors |-> TRUE, requests |-> Files]

\* A perfect network but for `limit' packets that are dropped towards `end'.
Dropping(end, limit) ==
  [faults |-> {<<end, "drop">>}, limit |-> limit, timely |-> TRUE,
   ioErrors |-> FALSE, requests |-> {"found"}]

AllEnvironments == {Hostile, Lossy, BadWayBack, Dropping("server", 1)}

OneLostToClient == {Dropping("client", 1)}
ThreeLostToClient == {Dropping("client", 3)}
=============================================================================
