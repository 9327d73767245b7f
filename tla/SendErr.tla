------------------------------ MODULE SendErr -------------------------------
(***************************************************************************)
(* libcpe464: the library a program sends through.  One record per process *)
(* holds what the globals g_PktMgr, g_SetsMgr and nextSeed hold; a send    *)
(* counts the message, runs the constant events on it, throws dice for one *)
(* of the chance events, and sends, changes or drops it.                   *)
(*                                                                         *)
(* drand48 is a fixed sequence of draws for each seed, the same in every   *)
(* process: `rand' holds what is known of them, and a draw that nobody has *)
(* made yet may come out as any of Draws.  A draw v stands for the value   *)
(* v / Dice, which may be 0; a rate r for r / Dice.                        *)
(***************************************************************************)
EXTENDS Integers, FiniteSets, Checksum

CONSTANTS Dice,         \* how finely draws and rates are told apart
          Draws,        \* the draws that can occur
          Seeds         \* the seeds that can occur

ASSUME SendErrAssumption == 
  Dice \in Nat \ {0} /\ Draws \subseteq 0 .. Dice - 1 /\ Seeds \subseteq Nat

RANDOM_SEED == 10

\* The CPE464_OVERRIDE_ variables of a process: << >> if not set (or, for a
\* number, if the text is none), <<v>> if set.  Of a list, v is the sequence of
\* its numbers up to the first token that is none.
Unset == << >>
NoOverrides == [seed |-> Unset, rate |-> Unset, drop |-> Unset, flip |-> Unset]
IsSet(setting) == setting # Unset

\* parserLong2Uint32
Numbers(list) == {n \in ToSet(list) : n >= 0}

DropAll == [kind |-> "drop", all |-> TRUE, numbers |-> {}]
DropThese(numbers) == [kind |-> "drop", all |-> FALSE, numbers |-> numbers]
FlipBits == [kind |-> "flip", all |-> TRUE, numbers |-> {}]
InfoSeqNo == [kind |-> "info", all |-> TRUE, numbers |-> {}]

-----------------------------------------------------------------------------
(***************************************************************************)
(* SettingsManager: the environment first, the program's wishes only where *)
(* the environment is silent.                                              *)
(***************************************************************************)

SetRandSeed(lib, seed) == [lib EXCEPT !.seed = seed, !.drawn = 0]
AddStandard(lib, event) == [lib EXCEPT !.constant = Append(@, event)]
AddRandom(lib, event) == [lib EXCEPT !.chance = Append(@, event)]

LoadSeed(lib) ==
  IF IsSet(lib.set.seed) THEN SetRandSeed(lib, lib.set.seed[1]) ELSE lib

LoadRate(lib) ==
  IF IsSet(lib.set.rate) THEN [lib EXCEPT !.rate = lib.set.rate[1]] ELSE lib

\* A list without a number, the empty text included, asks for random drops.
LoadDrop(lib) ==
  IF ~IsSet(lib.set.drop) THEN lib
  ELSE LET numbers == Numbers(lib.set.drop[1])
       IN  IF numbers = {} THEN AddRandom(lib, DropAll)
           ELSE AddStandard(lib, DropThese(numbers))

\* A list with a number is not implemented: no flips at all.
LoadFlip(lib) ==
  IF IsSet(lib.set.flip) /\ Numbers(lib.set.flip[1]) = {}
  THEN AddRandom(lib, FlipBits) ELSE lib

\* The constructors, before main.
Loaded(overrides, time) ==
  LoadFlip(LoadDrop(LoadRate(LoadSeed(
    [rate |-> 0, msgNo |-> 0, constant |-> << >>, chance |-> << >>,
     seed |-> time, drawn |-> 0, nextSeed |-> RANDOM_SEED,
     set |-> overrides, reported |-> 0]))))

SetUserSeed(lib, seed) ==
  IF IsSet(lib.set.seed) THEN lib ELSE SetRandSeed(lib, seed)

SetUserRate(lib, rate) ==
  IF IsSet(lib.set.rate) THEN lib ELSE [lib EXCEPT !.rate = rate]

\* Faulty variant: the program's wish adds to what the environment has set.
MutSetUserDrop(lib, enabled) == IF enabled THEN AddRandom(lib, DropAll) ELSE lib

SetUserDrop(lib, enabled) ==
  IF IsSet(lib.set.drop) \/ ~enabled THEN lib ELSE AddRandom(lib, DropAll)

SetUserFlip(lib, enabled) ==
  IF IsSet(lib.set.flip) \/ ~enabled THEN lib ELSE AddRandom(lib, FlipBits)

\* sendErr_init.  With random seeds, time(NULL) is both this process's seed and
\* the next one, if the second has not changed between the two calls.
SendErrInit(lib, rate, drop, flip, random, time) ==
  [SetUserSeed(SetUserFlip(SetUserDrop(SetUserRate(
     AddStandard(lib, InfoSeqNo), rate), drop), flip),
     IF random THEN time ELSE lib.nextSeed)
   EXCEPT !.nextSeed = IF random THEN time ELSE @ + 1]

-----------------------------------------------------------------------------
(***************************************************************************)
(* PacketManager                                                           *)
(***************************************************************************)

\* The three draws a send may make, given what is known of the seed's sequence.
Throws(rand, lib) ==
  {t \in [1 .. 3 -> Draws] :
     \A i \in 1 .. 3 :
       lib.drawn + i <= Len(rand[lib.seed]) => t[i] = rand[lib.seed][lib.drawn + i]}

\* runMsgEvents on the constant events: the first that drops ends the loop.
Drops(event, msgNo) == event.kind = "drop" /\ (event.all \/ msgNo \in event.numbers)

Listed(lib, msgNo) == \E i \in DOMAIN lib.constant : Drops(lib.constant[i], msgNo)

\* How often infoSeqNo has run after message msgNo.
Reported(lib, msgNo) ==
  lib.reported + Cardinality({i \in DOMAIN lib.constant :
                   /\ lib.constant[i].kind = "info"
                   /\ \A j \in 1 .. i - 1 : ~Drops(lib.constant[j], msgNo)})

\* The chance event thrown, if any.  A rate of 0 does not rule one out: a draw
\* of 0 is not above it.
Chosen(lib, t) ==
  IF lib.chance # << >> /\ t[1] <= lib.rate
  THEN {lib.chance[1 + (Len(lib.chance) * t[2]) \div Dice]} ELSE {}

FlippedByte(bytes, t) == 1 + (Len(bytes) * t[3]) \div Dice

\* Faulty variant: only messages that go out are counted.
MutCounted(lib, dropped) == IF dropped THEN lib.msgNo ELSE lib.msgNo + 1

Counted(lib, dropped) == lib.msgNo + 1

\* sendto_Err of `bytes' with the draws t: the library afterwards, the known
\* draws, and what goes out (a sequence of no or one packet).
Sent(lib, rand, bytes, t) ==
  LET msgNo == lib.msgNo + 1
      event == Chosen(lib, t)
      dropped == Listed(lib, msgNo) \/ \E e \in event : Drops(e, msgNo)
      used == IF event = {} THEN 1 ELSE IF FlipBits \in event THEN 3 ELSE 2
  IN  [lib  |-> [lib EXCEPT !.msgNo = Counted(lib, dropped),
                            !.drawn = @ + used,
                            !.reported = Reported(lib, msgNo)],
       rand |-> IF lib.drawn + used <= Len(rand[lib.seed]) THEN rand
                ELSE [rand EXCEPT ![lib.seed] =
                        SubSeq(@, 1, lib.drawn) \o SubSeq(t, 1, used)],
       out  |-> IF dropped THEN << >>
                ELSE IF FlipBits \in event
                     THEN <<FlipByte(bytes, FlippedByte(bytes, t))>>
                     ELSE <<bytes>>]

\* sendto_Err: one outcome for each way the dice may fall.
SendtoErr(lib, rand, bytes) == {Sent(lib, rand, bytes, t) : t \in Throws(rand, lib)}

-----------------------------------------------------------------------------
(***************************************************************************)
(* forkMod                                                                 *)
(***************************************************************************)

\* The child's copy of the library, and the parent's.
ForkedChild(lib) == SetUserSeed([lib EXCEPT !.nextSeed = @ + 1], lib.nextSeed)

\* Faulty variant: the next seed is moved on in the child only.
MutForkedParent(lib) == lib

ForkedParent(lib) == [lib EXCEPT !.nextSeed = @ + 1]
=============================================================================
