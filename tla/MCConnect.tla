----------------------------- MODULE MCConnect ------------------------------
EXTENDS Connect

CONSTANTS r1, r2

Lengths(first, second) == [r \in Rcopies |-> IF r = r1 THEN first ELSE second]

\* Everything may go wrong, once, and answers may be late.
Rough == [faults |-> Faults, limit |-> 1, timely |-> FALSE,
          length |-> Lengths(96, 101), found |-> TRUE]

\* sendto_Err's faults, twice.
Lossy == [Rough EXCEPT !.faults = {"drop", "flip"}, !.limit = 2]

\* Two rcopies that find the server slow; the files exist or not.
Slow == [faults |-> {}, limit |-> 0, timely |-> FALSE,
         length |-> Lengths(96, 97), found |-> TRUE]
Missing == [Slow EXCEPT !.found = FALSE]

\* Nothing goes wrong, but for the lengths of names.
Quick == [Slow EXCEPT !.timely = TRUE, !.length = Lengths(96, 97)]
Longest == [Slow EXCEPT !.timely = TRUE, !.length = Lengths(100, 101)]

LongName == {Quick}

AllCases == {Rough, Lossy, Slow, Missing, Quick, Longest}
=============================================================================
