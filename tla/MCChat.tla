------------------------------- MODULE MCChat -------------------------------
EXTENDS Chat

CONSTANTS ann, bob, eve         \* clients; eve may use ann's handle, or bob's

AnnsName == <<97, 110>>
BobsName == <<98, 111>>
NoOnes   == <<110, 111>>
Full     == <<102, 117, 108>>           \* of the greatest length
Long     == <<108, 111, 110, 103>>
Hi       == <<104, 105>>

TestNames == ann :> {AnnsName} @@ bob :> {BobsName, Full, << >>} @@
             eve :> {AnnsName, Full, Long}

Line(letter, number, words) == [letter |-> letter, number |-> number, words |-> words]

\* %L
List    == Line("l", 0, << >>)
\* %M an hi, %M an (no text), %M an hihi (the longest text)
ToAnn   == Line("m", 0, <<AnnsName, Hi>>)
NoText  == Line("m", 0, <<AnnsName>>)
Longest == Line("m", 0, <<AnnsName, Hi \o Hi>>)
\* %C 2 an no hi, %C 3 an no hi (too many)
ToBoth  == Line("c", 2, <<AnnsName, NoOnes, Hi>>)
\* %C 2 an no hih, which is longer than MAXBUF
TooLong == Line("c", 2, <<AnnsName, NoOnes, <<104, 105, 104>> >>)
ToThree == Line("c", 3, <<AnnsName, NoOnes, Hi>>)
\* %B i i, %X
ToAll   == Line("b", 0, << <<105>>, <<105>> >>)
Unknown == Line("x", 0, << >>)

TestLines == ann :> {List}
             @@ bob :> {ToAnn, NoText, Longest, ToBoth, TooLong, ToThree}
             @@ eve :> {ToAll, Unknown}
=============================================================================
