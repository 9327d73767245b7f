----------------------------- MODULE MCUdpEcho ------------------------------
EXTENDS UdpEcho

CONSTANTS c1, c2, srv

Rates(forClients, forServer) ==
  [p \in Programs |-> IF p = Server THEN forServer ELSE forClients]
Silent == [p \in Programs |-> NoOverrides]

\* The lab as its README starts it.
Plain ==
  [clients |-> {c1}, lines |-> 3, rate |-> Rates(7, 7), set |-> Silent]

\* Two clients, drops and flips switched off.
Quiet == [NoOverrides EXCEPT !.drop = << <<0>> >>, !.flip = << <<0>> >>]
Perfect ==
  [clients |-> {c1, c2}, lines |-> 2, rate |-> Rates(0, 0),
   set |-> [p \in Programs |-> Quiet]]

\* Two such clients, a server that drops and flips.
Crowd ==
  [Perfect EXCEPT !.lines = 1, !.rate[Server] = 7, !.set[Server] = NoOverrides]

\* A drop list for the server, which flips at a rate of 0.
Listing ==
  [Perfect EXCEPT !.set[Server].drop = << <<1, -4, 3>> >>, !.set[Server].flip = Unset]

\* testRandError.sh: rates and seeds from the environment, "-1" for the lists.
Script ==
  [clients |-> {c1}, lines |-> 2, rate |-> Rates(14, 14),
   set |-> [p \in Programs |->
              [seed |-> <<IF p = Server THEN 10 ELSE 2>>, rate |-> <<7>>,
               drop |-> << <<-1>> >>, flip |-> << <<-1>> >>]]]

\* A flip list for the client, which switches its flips off.
NoFlips == [Plain EXCEPT !.lines = 2, !.set[c1].flip = << <<2>> >>]

AllSetups == {Plain, Crowd, Perfect, Listing, Script, NoFlips}

SomeDraws == {0, 6, 13}

\* A short line, one that leaves an empty one behind, one whose rest ends the
\* client, and one that does so at once.
Lines == {<<1>>, <<1, 2>>, <<1, 2, 3>>, <<3>>}
=============================================================================
