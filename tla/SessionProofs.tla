---------------------------- MODULE SessionProofs ----------------------------
(***************************************************************************)
(* One transfer, for every window size, file, number of retries and        *)
(* environment, in four parts: what is on the wire, what the server still  *)
(* holds and what rcopy expects fit together, whatever is lost, repeated,  *)
(* late or out of order; every variable keeps its type; rcopy's buffer has *)
(* room while packets keep their order; and a transfer whose packets       *)
(* towards rcopy arrive implements FileCopy.                               *)
(***************************************************************************)
EXTENDS Session, RingProofs, SequenceTheorems

\* The server's window.  Every pane carries the chunk of its own number, and no
\* pane is numbered past the packets sent.
WinInv(w) ==
  /\ w \in [live : BOOLEAN, lower : Nat, curr : Nat,
            paneBuff : [Slots -> [packet : Nat, seqNum : Nat, ack : BOOLEAN]]]
  /\ w.live => /\ w.curr >= 1 /\ w.lower <= w.curr
               /\ w.curr - w.lower <= WinSize
               /\ \A i \in Slots : /\ w.paneBuff[i].packet = w.paneBuff[i].seqNum
                                   /\ w.paneBuff[i].seqNum < w.curr

\* The server child: its window is open for business in every state between the
\* request and the end, eofSent splits its states in two, and the file position,
\* the window and nextToSend agree.
ServerInv ==
  /\ sstate \in ServerStates /\ WinInv(win)
  /\ nextToSend \in Nat /\ filePos \in Nat /\ eofSent \in BOOLEAN
  /\ sstate = "FILENAME" => nextToSend = 1 /\ filePos = 0 /\ ~eofSent /\ ~win.live
  /\ sstate \notin {"FILENAME", "DONE", "EXITED"} => win.live
  /\ sstate \in {"WAITER", "HANDLE_FEEDBACK", "TIMEOUT_RESEND"} => ~eofSent
  /\ sstate \in {"WAIT_EOF_ACK", "TIMEOUT_EOF_RESEND"} => eofSent
  /\ win.live => filePos = win.curr - 1
  /\ NextIsCurr

\* rcopy: what is to be flushed starts no lower than what is expected.
RcopyInv ==
  /\ pb \in BufferType
  /\ expectedSeqNum \in Nat \ {0}
  /\ NeedFlush(pb) => pb.nextSeqNum >= expectedSeqNum
  /\ gotEof \in BOOLEAN

\* What may be on its way to rcopy.  Only a chunk sent for the first time may be
\* past what rcopy expects.
Down ==
  {m \in [flag : ServerFlags \cup {"CRC_ERROR"}, seqNum : Nat, data : Nat] :
     /\ m.flag \in DataFlags => /\ m.data = m.seqNum
                                /\ m.seqNum < expectedSeqNum + WinSize
     /\ m.flag = "DATA" => m.seqNum < nextToSend
     /\ m.flag \in DataFlags \ {"DATA"} => m.seqNum <= expectedSeqNum
     /\ m.flag = "END_OF_FILE" => eofSent}

\* What may be on its way to the server.
Up ==
  {m \in [flag : ClientFlags \cup {"CRC_ERROR"}, seqNum : Int, data : Nat] :
     /\ m.flag = "ACK_RR" => m.seqNum < expectedSeqNum
     /\ m.flag = "SREJ" => m.seqNum <= expectedSeqNum
     /\ m.flag = "EOF_ACK" => gotEof}

LinkInv ==
  /\ env \in Environments
  /\ toClient \in Seq(Down)
  /\ toServer \in Seq(Up)
  /\ gotEof => eofSent
  /\ NeverSlidPast

IInv == ServerInv /\ RcopyInv /\ LinkInv

-----------------------------------------------------------------------------
(***************************************************************************)
(* The network invents nothing: what is on its way after a send or a       *)
(* receive was on its way, or was sent, or is flipped.                     *)
(***************************************************************************)

\* A sequence over a set is one over any larger set.
LEMMA SeqGrows ==
  ASSUME NEW S, NEW T, S \subseteq T, NEW q \in Seq(S)
  PROVE  q \in Seq(T)
<1>1. Len(q) \in Nat /\ q \in [1 .. Len(q) -> T]  BY SeqDef
<1> QED  BY <1>1, SeqDef

\* What recvBuff takes was there, and the rest stays.
LEMMA ReceiveKeeps ==
  ASSUME NEW S, NEW q \in Seq(S), NEW dst, NEW r \in Receives(dst, q)
  PROVE  r.packet \in S /\ r.rest \in Seq(S)
<1>1. PICK i \in DOMAIN q : r.packet = q[i] /\ r.rest = RemoveAt(q, i)
  BY DEF Receives
<1>2. i \in 1 .. Len(q)  OBVIOUS
<1>3. SubSeq(q, 1, i - 1) \in Seq(S) /\ SubSeq(q, i + 1, Len(q)) \in Seq(S)
  BY <1>2, SubSeqProperties
<1>4. r.rest \in Seq(S)  BY <1>1, <1>3, ConcatProperties DEF RemoveAt
<1> QED  BY <1>1, <1>2, <1>4, ElementOfSeq

\* What sendBuff makes of a queue: the packet, flipped, doubled or dropped.
LEMMA SendKeeps ==
  ASSUME NEW S, NEW q \in Seq(S), NEW dst, NEW m \in S, Flipped(m) \in S,
         env \in Environments, NEW s \in Sends(dst, q, m)
  PROVE  s.queue \in Seq(S)
<1>1. CASE s.queue = q  BY <1>1
<1>2. CASE s.queue = Append(q, m)  BY <1>2, AppendProperties
<1>3. ASSUME NEW f \in env.faults, f[2] # "reorder", s.queue = AfterFault(f[2], q, m)
      PROVE  s.queue \in Seq(S)
  <2>1. f[2] \in {"drop", "flip", "dup"}
    <3>1. env.faults \subseteq Ends \X FaultKinds
      BY EnvironmentsAssumption DEF Environment
    <3> QED  BY <1>3, <3>1 DEF FaultKinds
  <2>2. CASE f[2] = "drop"  BY <1>3, <2>2 DEF AfterFault
  <2>3. CASE f[2] = "flip"  BY <1>3, <2>3, AppendProperties DEF AfterFault
  <2>4. CASE f[2] = "dup"
    <3>1. s.queue = q \o <<m, m>>  BY <1>3, <2>4 DEF AfterFault
    <3> QED  BY <3>1, ConcatProperties
  <2> QED  BY <2>1, <2>2, <2>3, <2>4
<1> QED  BY <1>1, <1>2, <1>3 DEF Sends

\* A send towards rcopy.
LEMMA ToClientKeeps ==
  ASSUME NEW S, toClient \in Seq(S), NEW packets \in SUBSET S, NEW cost,
         \A m \in packets : Flipped(m) \in S,
         env \in Environments, TransmitToClient(packets, cost)
  PROVE  toClient' \in Seq(S)
<1>1. CASE packets = {}  BY <1>1 DEF TransmitToClient
<1>2. CASE packets # {}
  <2>1. PICK m \in packets : \E s \in Sends("client", toClient, m) :
          toClient' = s.queue
    BY <1>2 DEF TransmitToClient
  <2> QED  BY <2>1, SendKeeps
<1> QED  BY <1>1, <1>2

\* A send towards the server.
LEMMA ToServerKeeps ==
  ASSUME NEW S, toServer \in Seq(S), NEW m \in S, NEW cost, Flipped(m) \in S,
         env \in Environments, TransmitToServer(m, cost)
  PROVE  toServer' \in Seq(S)
<1>1. PICK s \in Sends("server", toServer, m) : toServer' = s.queue
  BY DEF TransmitToServer
<1> QED  BY <1>1, SendKeeps

-----------------------------------------------------------------------------
(***************************************************************************)
(* The window as the server uses it.                                       *)
(***************************************************************************)

\* initWindow opens it at 1.
LEMMA InitWin ==
  /\ WinInv(NullWindow) /\ ~NullWindow.live
  /\ WinInv(FreshWindow) /\ FreshWindow.live
  /\ FreshWindow.lower = 1 /\ FreshWindow.curr = 1
<1>1. [i \in Slots |-> FreePane] \in [Slots -> [packet : Nat, seqNum : Nat, ack : BOOLEAN]]
  BY DEF FreePane, Blank
<1> QED
  BY <1>1, WinSizeAssumption DEF WinInv, NullWindow, FreshWindow, FreePane, Blank

\* addPane takes chunk n under the number n if it is the next one and windowOpen
\* said so: there is no need to look at its result.
LEMMA AddPaneWin ==
  ASSUME NEW w, WinInv(w), w.live, WindowOpen(w), NEW n \in Nat, n = w.curr
  PROVE  /\ WinInv(AddPane(w, n, n))
         /\ AddPane(w, n, n).live
         /\ AddPane(w, n, n).lower = w.lower
         /\ AddPane(w, n, n).curr = w.curr + 1
<1> DEFINE v == AddPane(w, n, n)
           pane == [packet |-> n, seqNum |-> n, ack |-> FALSE]
           P == [packet : Nat, seqNum : Nat, ack : BOOLEAN]
<1>1. /\ w.lower \in Nat /\ w.curr \in Nat /\ w.curr >= 1 /\ w.lower <= w.curr
      /\ w.curr - w.lower < WinSize /\ w.paneBuff[Slot(w.curr)].ack
      /\ w.paneBuff \in [Slots -> P]
  BY DEF WinInv, WindowOpen
<1>2. CanAddPane(w, n)
  BY <1>1, WinSizeAssumption DEF CanAddPane, InWindow
<1>3. v = [live |-> TRUE, lower |-> w.lower, curr |-> w.curr + 1,
           paneBuff |-> [w.paneBuff EXCEPT ![Slot(n)] = pane]]
  BY <1>2 DEF AddPane
<1>4. pane \in P /\ Slot(n) \in Slots  BY SlotType
<1>5. [w.paneBuff EXCEPT ![Slot(n)] = pane] \in [Slots -> P]
  <2> HIDE DEF P, pane
  <2> QED  BY <1>1, <1>4
<1>6. \A i \in Slots : LET p == [w.paneBuff EXCEPT ![Slot(n)] = pane][i]
                       IN  p.packet = p.seqNum /\ p.seqNum < w.curr + 1
  <2> SUFFICES ASSUME NEW i \in Slots
               PROVE  LET p == [w.paneBuff EXCEPT ![Slot(n)] = pane][i]
                      IN  p.packet = p.seqNum /\ p.seqNum < w.curr + 1
    OBVIOUS
  <2>1. CASE i = Slot(n)  BY <1>1, <1>4, <2>1
  <2>2. CASE i # Slot(n)
    <3>1. [w.paneBuff EXCEPT ![Slot(n)] = pane][i] = w.paneBuff[i]
      BY <1>1, <2>2
    <3>2. /\ w.paneBuff[i].packet = w.paneBuff[i].seqNum
          /\ w.paneBuff[i].seqNum < w.curr
      BY DEF WinInv
    <3>3. w.paneBuff[i] \in P  BY <1>1
    <3> QED  BY <1>1, <3>1, <3>2, <3>3
  <2> QED  BY <2>1, <2>2
<1> HIDE DEF pane, P
<1> DEFINE panes == [w.paneBuff EXCEPT ![Slot(n)] = pane]
<1>7. v = [live |-> TRUE, lower |-> w.lower, curr |-> w.curr + 1, paneBuff |-> panes]
  BY <1>3
<1>8. panes \in [Slots -> P]  BY <1>5
<1>9. \A i \in Slots : /\ panes[i].packet = panes[i].seqNum
                       /\ panes[i].seqNum < w.curr + 1
  BY <1>6
<1>10. w.curr + 1 \in Nat /\ w.curr + 1 >= 1 /\ w.lower <= w.curr + 1
       /\ w.curr + 1 - w.lower <= WinSize
  BY <1>1, WinSizeAssumption
<1> HIDE DEF panes, v
<1>11. WinInv(v)
  <2>1. v \in [live : BOOLEAN, lower : Nat, curr : Nat, paneBuff : [Slots -> P]]
    BY <1>1, <1>7, <1>8, <1>10
  <2>2. /\ v.curr = w.curr + 1 /\ v.lower = w.lower /\ v.paneBuff = panes
    BY <1>7
  <2> QED  BY <1>9, <1>10, <2>1, <2>2 DEF WinInv, P
<1> QED  BY <1>7, <1>11 DEF v

\* slideWindow moves the lower bound to the number given, or does nothing.
LEMMA SlideWin ==
  ASSUME NEW w, WinInv(w), NEW low
  PROVE  LET v == SlideWindow(w, low)
         IN  /\ WinInv(v) /\ v.live = w.live /\ v.curr = w.curr
             /\ v.lower \in {w.lower, low}
<1> DEFINE v == SlideWindow(w, low)
           P == [packet : Nat, seqNum : Nat, ack : BOOLEAN]
<1>1. CASE ~CanSlide(w, low)
  <2>1. v = w  BY <1>1 DEF SlideWindow
  <2>2. WinInv(v) /\ v.live = w.live /\ v.curr = w.curr /\ v.lower = w.lower
    BY <2>1
  <2> QED  BY <2>2
<1>2. CASE CanSlide(w, low)
  <2>1. /\ w.live = TRUE /\ w.lower \in Nat /\ w.curr \in Nat
        /\ w.curr - w.lower <= WinSize /\ w.curr >= 1
        /\ w.paneBuff \in [Slots -> P]
    BY <1>2 DEF CanSlide, WinInv
  <2>2. low \in Nat /\ w.lower <= low /\ low <= w.curr
    BY <1>2, <2>1 DEF CanSlide
  <2> DEFINE panes == Cleared(w, w.lower .. low - 1)
  <2>3. v = [live |-> TRUE, lower |-> low, curr |-> w.curr, paneBuff |-> panes]
    BY <1>2 DEF SlideWindow
  <2>4. FreePane \in P  BY DEF FreePane, Blank
  <2>5. \A i \in Slots : panes[i] \in {FreePane, w.paneBuff[i]}
    BY DEF Cleared
  <2>6. panes \in [Slots -> P]  BY <2>1, <2>4 DEF Cleared
  <2>7. \A i \in Slots : /\ panes[i].packet = panes[i].seqNum
                         /\ panes[i].seqNum < w.curr
    BY <1>2, <2>1, <2>5 DEF WinInv, CanSlide, FreePane, Blank
  <2> HIDE DEF panes
  <2>8. WinInv(v)
    <3>1. w.curr - low <= WinSize  BY <2>1, <2>2, WinSizeAssumption
    <3> QED  BY <2>1, <2>2, <2>3, <2>6, <2>7, <3>1 DEF WinInv
  <2> HIDE DEF v
  <2>9. v.live = w.live /\ v.curr = w.curr /\ v.lower = low
    BY <2>1, <2>3
  <2> QED  BY <2>8, <2>9 DEF v
<1> HIDE DEF v, P
<1> QED  BY <1>1, <1>2 DEF v

\* resendPane sends the chunk of the number asked for, one already sent, or
\* nothing.
LEMMA ResendWin ==
  ASSUME NEW w, WinInv(w), NEW seq, NEW p \in ResendPane(w, seq)
  PROVE  /\ w.live /\ seq \in Nat /\ p = seq
         /\ seq < w.lower + WinSize /\ w.lower \in Nat /\ seq < w.curr
<1>1. CanResend(w, seq) /\ p = w.paneBuff[Slot(seq)].packet
  BY DEF ResendPane
<1>2. w.lower \in Nat /\ w.curr \in Nat  BY DEF WinInv
<1>3. seq \in Nat  BY <1>1, <1>2 DEF CanResend
<1>4. Slot(seq) \in Slots  BY <1>3, SlotType
<1>5. p = seq /\ seq < w.curr  BY <1>1, <1>4 DEF WinInv, CanResend
<1> QED  BY <1>1, <1>2, <1>3, <1>5, WinSizeAssumption DEF WinInv, CanResend

-----------------------------------------------------------------------------
(***************************************************************************)
(* What the processes may send.                                            *)
(***************************************************************************)

\* A flipped packet is as good as the packet: nobody reads it.
LEMMA FlippedKeeps ==
  /\ \A m \in Down' : Flipped(m) \in Down'
  /\ \A m \in Up' : Flipped(m) \in Up'
<1>1. ASSUME NEW m \in Down' PROVE Flipped(m) \in Down'
  BY <1>1 DEF Down, Flipped, DataFlags
<1>2. ASSUME NEW m \in Up' PROVE Flipped(m) \in Up'
  BY <1>2 DEF Up, Flipped
<1> QED  BY <1>1, <1>2

\* The directions' contents stay good while rcopy expects more, not less, and
\* what has been sent or accepted stays so.
LEMMA LinkGrows ==
  ASSUME expectedSeqNum \in Nat, expectedSeqNum' \in Nat,
         expectedSeqNum <= expectedSeqNum',
         nextToSend \in Nat, nextToSend' \in Nat, nextToSend <= nextToSend',
         eofSent => eofSent', gotEof => gotEof'
  PROVE  Down \subseteq Down' /\ Up \subseteq Up'
<1>1. ASSUME NEW m \in Down PROVE m \in Down'
  BY <1>1, WinSizeAssumption DEF Down
<1>2. ASSUME NEW m \in Up PROVE m \in Up'
  BY <1>2 DEF Up
<1> QED  BY <1>1, <1>2

\* Answers and END_OF_FILE.
LEMMA ControlDown ==
  ASSUME NEW flag \in {"FNAME_OK", "FNAME_BAD", "END_OF_FILE"}, NEW seq \in Nat,
         flag = "END_OF_FILE" => eofSent'
  PROVE  Packet(flag, seq, Blank) \in Down'
  BY DEF Packet, Down, ServerFlags, DataFlags, Blank

\* A data packet under its own number, no further than the window: the next one
\* for the first time, or one rcopy may be waiting for again.
LEMMA DataDown ==
  ASSUME NEW flag \in DataFlags, NEW seq \in Nat, seq < win.lower + WinSize,
         win.live, NeverSlidPast, win.lower \in Nat,
         expectedSeqNum \in Nat, expectedSeqNum' = expectedSeqNum,
         IF flag = "DATA" THEN seq < nextToSend' ELSE seq <= expectedSeqNum
  PROVE  Packet(flag, seq, seq) \in Down'
<1>1. seq < expectedSeqNum' + WinSize
  BY WinSizeAssumption DEF NeverSlidPast
<1> QED  BY <1>1 DEF Packet, Down, ServerFlags, DataFlags

-----------------------------------------------------------------------------
(***************************************************************************)
(* The server child keeps the invariant.                                   *)
(***************************************************************************)

\* The number to send next has not moved back if it has not moved.
LEMMA NumberKept ==
  ASSUME IInv, UNCHANGED nextToSend
  PROVE  nextToSend' \in Nat /\ nextToSend <= nextToSend'
  BY DEF IInv, ServerInv

\* What the server sends joins what is on its way.
LEMMA ServerSends ==
  ASSUME IInv, UNCHANGED <<rcopyVars, env>>, eofSent => eofSent',
         nextToSend' \in Nat, nextToSend <= nextToSend',
         NEW packets \in SUBSET Down', NEW cost, TransmitToClient(packets, cost)
  PROVE  toClient' \in Seq(Down')
<1>1. Down \subseteq Down'
  BY LinkGrows DEF IInv, RcopyInv, ServerInv, rcopyVars
<1>2. toClient \in Seq(Down')  BY <1>1, SeqGrows DEF IInv, LinkInv
<1>3. env \in Environments  BY DEF IInv, LinkInv
<1> QED  BY <1>2, <1>3, FlippedKeeps, ToClientKeeps

\* A step of the server leaves rcopy what it needs.
LEMMA ServerKeepsLink ==
  ASSUME IInv, UNCHANGED <<rcopyVars, env>>, eofSent => eofSent',
         nextToSend' \in Nat, nextToSend <= nextToSend',
         toClient' \in Seq(Down') \/ UNCHANGED toClient,
         toServer' \in Seq(Up), NeverSlidPast'
  PROVE  RcopyInv' /\ LinkInv'
<1>1. RcopyInv'  BY DEF IInv, RcopyInv, rcopyVars, NeedFlush
<1>2. Down \subseteq Down' /\ Up \subseteq Up'
  BY LinkGrows DEF IInv, RcopyInv, ServerInv, rcopyVars
<1>3. toClient' \in Seq(Down')  BY <1>2, SeqGrows DEF IInv, LinkInv
<1>4. toServer' \in Seq(Up')  BY <1>2, SeqGrows
<1>5. gotEof' => eofSent'  BY DEF IInv, LinkInv, rcopyVars
<1> QED  BY <1>1, <1>3, <1>4, <1>5 DEF IInv, LinkInv

\* A step from one state to another that leaves the window, the file and both
\* numberings as they are.
LEMMA ServerMoves ==
  ASSUME IInv,
         UNCHANGED <<rcopyVars, env, win, nextToSend, eofSent, filePos, toServer>>,
         toClient' \in Seq(Down') \/ UNCHANGED toClient,
         sstate' \in ServerStates \ {"FILENAME", "EXITED"},
         sstate' # "DONE" => win.live,
         sstate' \in {"WAITER", "HANDLE_FEEDBACK", "TIMEOUT_RESEND"} => ~eofSent,
         sstate' \in {"WAIT_EOF_ACK", "TIMEOUT_EOF_RESEND"} => eofSent
  PROVE  IInv'
<1>1. ServerInv'  BY DEF IInv, ServerInv, NextIsCurr
<1>2. NeverSlidPast'  BY DEF IInv, LinkInv, NeverSlidPast, rcopyVars
<1>3. toServer' \in Seq(Up)  BY DEF IInv, LinkInv
<1> QED  BY <1>1, <1>2, <1>3, NumberKept, ServerKeepsLink DEF IInv

\* filename
LEMMA FilenameStep ==
  ASSUME IInv, UNCHANGED <<rcopyVars, env>>,
         FilenameTooLong \/ FilenameMissing \/ FilenameFound
  PROVE  IInv'
<1>1. CASE FilenameTooLong
  BY <1>1, ServerMoves DEF FilenameTooLong, channelVars, ServerStates
<1>2. CASE FilenameMissing
  <2>1. {Packet("FNAME_BAD", 0, Blank)} \subseteq Down'  BY ControlDown
  <2>2. toClient' \in Seq(Down')
    BY <1>2, <2>1, NumberKept, ServerSends DEF FilenameMissing
  <2> QED  BY <1>2, <2>2, ServerMoves DEF FilenameMissing, ServerStates
<1>3. CASE FilenameFound
  <2>1. {Packet("FNAME_OK", 0, Blank)} \subseteq Down'  BY ControlDown
  <2>2. toClient' \in Seq(Down')
    BY <1>3, <2>1, NumberKept, ServerSends DEF FilenameFound
  <2>3. win' = FreshWindow
    BY <1>3 DEF FilenameFound, InitWindow, IInv, ServerInv
  <2>4. ServerInv'
    BY <1>3, <2>3, InitWin DEF FilenameFound, IInv, ServerInv, NextIsCurr, ServerStates
  <2>5. NeverSlidPast'
    BY <2>3, InitWin DEF NeverSlidPast, IInv, RcopyInv, rcopyVars
  <2>6. toServer' \in Seq(Up)  BY <1>3 DEF FilenameFound, IInv, LinkInv
  <2> QED  BY <1>3, <2>2, <2>4, <2>5, <2>6, NumberKept, ServerKeepsLink DEF FilenameFound, IInv
<1> QED  BY <1>1, <1>2, <1>3

\* sendPacket: the chunk read takes the number of the pane that holds it.
LEMMA SendDataStep ==
  ASSUME IInv, UNCHANGED <<rcopyVars, env>>, SendData
  PROVE  IInv'
<1> DEFINE n == nextToSend
<1>1. /\ win.live /\ WindowOpen(win) /\ WinInv(win)
      /\ n \in Nat /\ n = win.curr /\ filePos' = n
      /\ win.curr \in Nat /\ win.lower \in Nat /\ win.curr - win.lower < WinSize
  BY DEF SendData, IInv, ServerInv, NextIsCurr, WinInv, WindowOpen
<1>2. win' = AddPane(win, n, n) /\ nextToSend' = n + 1 /\ sstate' = "WAITER"
  BY <1>1 DEF SendData
<1>3. /\ WinInv(win') /\ win'.live /\ win'.lower = win.lower
      /\ win'.curr = win.curr + 1
  BY <1>1, <1>2, AddPaneWin
<1>4. ~eofSent /\ eofSent' = eofSent /\ toServer' = toServer  BY DEF SendData
<1>5. ServerInv'
  BY <1>1, <1>2, <1>3, <1>4 DEF IInv, ServerInv, NextIsCurr, ServerStates
<1>6. NeverSlidPast'
  BY <1>1, <1>3 DEF NeverSlidPast, IInv, LinkInv, rcopyVars
<1>7. {Packet("DATA", n, n)} \subseteq Down'
  <2>1. n < win.lower + WinSize  BY <1>1, WinSizeAssumption
  <2>2. n < nextToSend'  BY <1>1, <1>2
  <2> QED
    BY <1>1, <2>1, <2>2, DataDown DEF IInv, LinkInv, RcopyInv, rcopyVars, DataFlags
<1>8. nextToSend' \in Nat /\ nextToSend <= nextToSend'  BY <1>1, <1>2
<1>9. toClient' \in Seq(Down')
  BY <1>4, <1>7, <1>8, <1>1, ServerSends DEF SendData
<1> QED  BY <1>4, <1>5, <1>6, <1>8, <1>9, ServerKeepsLink DEF IInv, LinkInv

\* sendPacket at the end of the file: END_OF_FILE takes a number without a pane.
LEMMA SendEofStep ==
  ASSUME IInv, UNCHANGED <<rcopyVars, env>>, SendEof
  PROVE  IInv'
<1>1. /\ sstate' = "WAIT_EOF_ACK" /\ eofSent' = TRUE /\ ~eofSent
      /\ nextToSend' = nextToSend + 1 /\ nextToSend \in Nat
      /\ UNCHANGED <<win, filePos, toServer>>
  BY DEF SendEof, IInv, ServerInv
<1>2. ServerInv'
  BY <1>1 DEF SendEof, IInv, ServerInv, NextIsCurr, ServerStates, WinInv
<1>3. {Packet("END_OF_FILE", nextToSend, Blank)} \subseteq Down'
  BY <1>1, ControlDown
<1>4. toClient' \in Seq(Down')  BY <1>1, <1>3, ServerSends DEF SendEof
<1>5. NeverSlidPast'
  BY <1>1 DEF NeverSlidPast, IInv, LinkInv, rcopyVars
<1> QED  BY <1>1, <1>2, <1>4, <1>5, ServerKeepsLink DEF IInv, LinkInv

\* A resent packet is one the server holds; it is what rcopy expects or below.
LEMMA ResentDown ==
  ASSUME IInv, UNCHANGED <<rcopyVars, env>>, NEW flag \in DataFlags, flag # "DATA",
         NEW seq, seq <= expectedSeqNum
  PROVE  Resent(flag, seq) \subseteq Down'
<1> SUFFICES ASSUME NEW p \in ResendPane(win, seq) PROVE Packet(flag, seq, p) \in Down'
  BY DEF Resent
<1>1. /\ win.live /\ seq \in Nat /\ p = seq
      /\ seq < win.lower + WinSize /\ win.lower \in Nat
  BY ResendWin DEF IInv, ServerInv
<1> QED
  BY <1>1, DataDown DEF IInv, LinkInv, RcopyInv, rcopyVars

\* What both feedback states do with a packet from rcopy.
LEMMA FeedbackLink ==
  ASSUME IInv, UNCHANGED <<rcopyVars, env, eofSent>>,
         nextToSend' \in Nat, nextToSend <= nextToSend',
         NEW r \in Receives("server", toServer), toServer' = r.rest,
         ActOnFeedback(r.packet, r.cost)
  PROVE  /\ r.packet \in Up
         /\ WinInv(win') /\ win'.live = win.live /\ win'.curr = win.curr
         /\ RcopyInv' /\ LinkInv'
<1>1. r.packet \in Up /\ toServer' \in Seq(Up)
  BY ReceiveKeeps DEF IInv, LinkInv
<1>2. WinInv(win)  BY DEF IInv, ServerInv
<1>3. CASE r.packet.flag = "ACK_RR"
  <2> DEFINE low == r.packet.seqNum + 1
  <2>1. win' = SlideWindow(win, low)  BY <1>3 DEF ActOnFeedback
  <2>2. /\ WinInv(win') /\ win'.live = win.live /\ win'.curr = win.curr
        /\ win'.lower \in {win.lower, low}
    BY <1>2, <2>1, SlideWin
  <2>3. low <= expectedSeqNum  BY <1>1, <1>3 DEF Up, IInv, RcopyInv
  <2>4. NeverSlidPast'
    BY <2>2, <2>3 DEF NeverSlidPast, IInv, LinkInv, rcopyVars
  <2>5. UNCHANGED toClient  BY <1>3 DEF ActOnFeedback, TransmitToClient
  <2> QED  BY <1>1, <2>2, <2>4, <2>5, ServerKeepsLink
<1>4. CASE r.packet.flag # "ACK_RR"
  <2>1. win' = win  BY <1>4 DEF ActOnFeedback
  <2>2. NeverSlidPast'  BY <2>1 DEF NeverSlidPast, IInv, LinkInv, rcopyVars
  <2> DEFINE packets == IF r.packet.flag = "SREJ"
                        THEN Resent("SREJ_DATA", r.packet.seqNum) ELSE {}
  <2>3. packets \subseteq Down'  BY <1>1, ResentDown DEF DataFlags, Up
  <2>4. TransmitToClient(packets, r.cost)  BY DEF ActOnFeedback
  <2> HIDE DEF packets
  <2>5. toClient' \in Seq(Down')  BY <2>3, <2>4, ServerSends
  <2> QED  BY <1>1, <1>2, <2>1, <2>2, <2>5, ServerKeepsLink
<1> QED  BY <1>3, <1>4

\* handleFeedback: nextToSend is taken from the window again.
LEMMA HandleFeedbackStep ==
  ASSUME IInv, UNCHANGED <<rcopyVars, env>>, HandleFeedback
  PROVE  IInv'
<1>1. PICK r \in Receives("server", toServer) :
        /\ toServer' = r.rest /\ ActOnFeedback(r.packet, r.cost)
        /\ nextToSend' = IF r.packet.flag = "ACK_RR" THEN win'.curr ELSE nextToSend
        /\ sstate' = AfterFeedback(r.packet.flag)
  BY DEF HandleFeedback
<1>2. /\ ~eofSent /\ win.live /\ nextToSend = win.curr
      /\ UNCHANGED <<eofSent, filePos>> /\ win.curr \in Nat
  BY DEF HandleFeedback, IInv, ServerInv, NextIsCurr, WinInv
<1>3. /\ WinInv(win') /\ win'.live = win.live /\ win'.curr = win.curr
      /\ RcopyInv' /\ LinkInv'
  <2>1. win'.curr = win.curr
    BY <1>1, SlideWin DEF ActOnFeedback, IInv, ServerInv
  <2>2. nextToSend' \in Nat /\ nextToSend <= nextToSend'
    BY <1>1, <1>2, <2>1
  <2> QED  BY <1>1, <1>2, <2>2, FeedbackLink
<1>4. sstate' \in {"WAITER", "SEND_PACKET", "DONE"}  BY <1>1 DEF AfterFeedback
<1>5. nextToSend' = win'.curr  BY <1>1, <1>2, <1>3
<1>6. ServerInv'
  BY <1>2, <1>3, <1>4, <1>5 DEF IInv, ServerInv, NextIsCurr, ServerStates
<1> QED  BY <1>3, <1>6 DEF IInv

\* waitEofAck: nextToSend keeps the number after END_OF_FILE.
LEMMA WaitEofAckStep ==
  ASSUME IInv, UNCHANGED <<rcopyVars, env>>, WaitEofAck
  PROVE  IInv'
<1>1. PICK r \in Receives("server", toServer) :
        /\ toServer' = r.rest /\ ActOnFeedback(r.packet, r.cost)
        /\ sstate' = AfterEofFeedback(r.packet.flag)
  BY DEF WaitEofAck
<1>2. eofSent /\ win.live /\ UNCHANGED <<eofSent, filePos, nextToSend>>
  BY DEF WaitEofAck, IInv, ServerInv
<1>3. /\ WinInv(win') /\ win'.live = win.live /\ win'.curr = win.curr
      /\ RcopyInv' /\ LinkInv'
  BY <1>1, <1>2, NumberKept, FeedbackLink
<1>4. sstate' \in {"WAIT_EOF_ACK", "SEND_PACKET", "DONE"}
  BY <1>1 DEF AfterEofFeedback
<1>5. ServerInv'
  BY <1>2, <1>3, <1>4 DEF IInv, ServerInv, NextIsCurr, ServerStates
<1> QED  BY <1>3, <1>5 DEF IInv

\* timeoutResend and timeoutEofResend, and giving up.
LEMMA ResendStep ==
  ASSUME IInv, UNCHANGED <<rcopyVars, env>>,
         GiveUp \/ TimeoutResend \/ TimeoutEofResend
  PROVE  IInv'
<1>1. CASE GiveUp
  BY <1>1, ServerMoves DEF GiveUp, channelVars, ServerStates
<1>2. CASE TimeoutResend
  <2>1. Resent("TIMEOUT_DATA", win.lower) \subseteq Down'
    BY <1>2, ResentDown
    DEF DataFlags, TimeoutResend, IInv, ServerInv, LinkInv, NeverSlidPast
  <2>2. toClient' \in Seq(Down')
    BY <1>2, <2>1, NumberKept, ServerSends DEF TimeoutResend
  <2>3. win.live /\ ~eofSent  BY <1>2 DEF TimeoutResend, IInv, ServerInv
  <2> QED  BY <1>2, <2>2, <2>3, ServerMoves DEF TimeoutResend, ServerStates
<1>3. CASE TimeoutEofResend
  <2>1. win.live /\ eofSent /\ eofSent' /\ win.lower \in Nat
    BY <1>3 DEF TimeoutEofResend, IInv, ServerInv, WinInv
  <2>2. {Packet("END_OF_FILE", win.lower, Blank)} \subseteq Down'
    BY <2>1, ControlDown
  <2>3. toClient' \in Seq(Down')
    BY <1>3, <2>2, NumberKept, ServerSends DEF TimeoutEofResend
  <2> QED  BY <1>3, <2>1, <2>3, ServerMoves DEF TimeoutEofResend, ServerStates
<1> QED  BY <1>1, <1>2, <1>3

\* cleanup
LEMMA CleanupStep ==
  ASSUME IInv, UNCHANGED <<rcopyVars, env>>, Cleanup
  PROVE  IInv'
<1>1. /\ win' = NullWindow /\ sstate' = "EXITED" /\ toServer' = << >>
      /\ UNCHANGED <<nextToSend, eofSent, filePos, toClient>>
  BY DEF Cleanup, FreeWindow
<1>2. ServerInv'
  BY <1>1, InitWin DEF IInv, ServerInv, NextIsCurr, ServerStates
<1>3. NeverSlidPast'  BY <1>1, InitWin DEF NeverSlidPast
<1> QED  BY <1>1, <1>2, <1>3, EmptySeq, NumberKept, ServerKeepsLink DEF IInv

\* Every step of the server child keeps the invariant.
LEMMA ServerInductive ==
  ASSUME IInv, Server
  PROVE  IInv'
<1>1. UNCHANGED <<rcopyVars, env>>  BY DEF Server
<1>2. CASE SendAfterEof
  BY <1>1, <1>2, ServerMoves DEF SendAfterEof, channelVars, ServerStates, IInv, ServerInv
<1>3. CASE SendClosed
  BY <1>1, <1>3, ServerMoves DEF SendClosed, channelVars, ServerStates, IInv, ServerInv
<1>4. CASE SendReadError
  BY <1>1, <1>4, ServerMoves DEF SendReadError, channelVars, ServerStates
<1>5. CASE WaiterFeedback
  BY <1>1, <1>5, ServerMoves DEF WaiterFeedback, channelVars, ServerStates, IInv, ServerInv
<1>6. CASE WaiterTimeout
  BY <1>1, <1>6, ServerMoves DEF WaiterTimeout, channelVars, ServerStates, IInv, ServerInv
<1>7. CASE WaiterNothing
  BY <1>1, <1>7, ServerMoves DEF WaiterNothing, channelVars, ServerStates, IInv, ServerInv
<1>8. CASE EofTimeout
  BY <1>1, <1>8, ServerMoves DEF EofTimeout, channelVars, ServerStates, IInv, ServerInv
<1> QED
  BY <1>1, <1>2, <1>3, <1>4, <1>5, <1>6, <1>7, <1>8, FilenameStep, SendDataStep,
     SendEofStep, HandleFeedbackStep, WaitEofAckStep, ResendStep, CleanupStep
  DEF Server, ServerStep, ServerTimeout

-----------------------------------------------------------------------------
(***************************************************************************)
(* rcopy keeps the invariant.                                              *)
(***************************************************************************)

\* A step of rcopy leaves the server what it needs, if rcopy expects no less than
\* before and accepts END_OF_FILE only after it was sent.
LEMMA RcopyKeepsLink ==
  ASSUME IInv, UNCHANGED <<serverVars, env>>, RcopyInv',
         expectedSeqNum <= expectedSeqNum',
         gotEof => gotEof', gotEof' => eofSent,
         toClient' \in Seq(Down), toServer' \in Seq(Up') \/ UNCHANGED toServer
  PROVE  IInv'
<1>1. ServerInv'  BY DEF IInv, ServerInv, NextIsCurr, serverVars
<1>2. Down \subseteq Down' /\ Up \subseteq Up'
  BY LinkGrows DEF IInv, RcopyInv, ServerInv, serverVars
<1>3. toClient' \in Seq(Down')  BY <1>2, SeqGrows
<1>4. toServer' \in Seq(Up')  BY <1>2, SeqGrows DEF IInv, LinkInv
<1>5. NeverSlidPast'
  <2>1. win.live => win.lower \in Nat  BY DEF IInv, ServerInv, WinInv
  <2> QED  BY <2>1 DEF NeverSlidPast, IInv, LinkInv, RcopyInv, serverVars
<1> QED  BY <1>1, <1>3, <1>4, <1>5 DEF IInv, LinkInv, serverVars

\* What rcopy sends joins what is on its way.
LEMMA RcopySends ==
  ASSUME IInv, UNCHANGED <<serverVars, env>>, expectedSeqNum' \in Nat,
         expectedSeqNum <= expectedSeqNum', gotEof => gotEof',
         NEW m \in Up', NEW cost, TransmitToServer(m, cost)
  PROVE  toServer' \in Seq(Up')
<1>1. Up \subseteq Up'  BY LinkGrows DEF IInv, RcopyInv, ServerInv, serverVars
<1>2. toServer \in Seq(Up')  BY <1>1, SeqGrows DEF IInv, LinkInv
<1>3. env \in Environments  BY DEF IInv, LinkInv
<1> QED  BY <1>2, <1>3, FlippedKeeps, ToServerKeeps

\* A packet rcopy receives is one that may be on its way; what is left is too.
LEMMA RcopyReceives ==
  ASSUME IInv, NEW r \in Receives("client", toClient)
  PROVE  r.packet \in Down /\ r.rest \in Seq(Down)
  BY ReceiveKeeps DEF IInv, LinkInv

\* A step without an answer that changes neither the buffer nor what is expected.
LEMMA RcopySilent ==
  ASSUME IInv, UNCHANGED <<serverVars, env>>,
         UNCHANGED <<pb, expectedSeqNum, gotEof, toServer>>,
         toClient' = << >> \/ \E r \in Receives("client", toClient) : toClient' = r.rest
  PROVE  IInv'
<1>1. RcopyInv'  BY DEF IInv, RcopyInv, NeedFlush
<1>2. toClient' \in Seq(Down)  BY RcopyReceives, EmptySeq
<1>3. expectedSeqNum <= expectedSeqNum' /\ (gotEof' => eofSent)
  BY DEF IInv, RcopyInv, LinkInv
<1> QED  BY <1>1, <1>2, <1>3, RcopyKeepsLink

\* file_ok
LEMMA FileOpenedStep ==
  ASSUME IInv, UNCHANGED <<serverVars, env>>, FileOpened
  PROVE  IInv'
<1>1. pb' = pb \/ pb' = FreshBuffer  BY DEF FileOpened, InitPacketBuffer
<1>2. RcopyInv'
  <2>1. expectedSeqNum' \in Nat \ {0} /\ gotEof' \in BOOLEAN
    BY DEF FileOpened, IInv, RcopyInv
  <2>2. CASE pb' = pb
    BY <2>2 DEF FileOpened, IInv, RcopyInv, NeedFlush
  <2>3. CASE pb' = FreshBuffer
    <3>1. ~NeedFlush(pb')  BY <2>3 DEF NeedFlush, FreshBuffer
    <3>2. pb' \in BufferType  BY <2>3, BlankCells
    <3> QED  BY <2>1, <3>1, <3>2 DEF RcopyInv
  <2> QED  BY <1>1, <2>2, <2>3
<1>3. /\ expectedSeqNum <= expectedSeqNum' /\ gotEof' = gotEof
      /\ (gotEof' => eofSent) /\ toClient' \in Seq(Down) /\ UNCHANGED toServer
  BY DEF FileOpened, channelVars, IInv, RcopyInv, LinkInv
<1> QED  BY <1>2, <1>3, RcopyKeepsLink

\* END_OF_FILE is accepted only if it was sent.
LEMMA RecvEofStep ==
  ASSUME IInv, UNCHANGED <<serverVars, env>>, RecvEof
  PROVE  IInv'
<1>1. PICK r \in Receives("client", toClient) :
        /\ r.packet.flag = "END_OF_FILE"
        /\ TransmitToServer(Packet("EOF_ACK", expectedSeqNum, Blank), r.cost)
  BY DEF RecvEof
<1>2. eofSent  BY <1>1, RcopyReceives DEF Down
<1>3. /\ gotEof' = TRUE /\ expectedSeqNum' = expectedSeqNum
      /\ pb' = NullBuffer /\ toClient' = << >>
      /\ expectedSeqNum \in Nat \ {0}
  BY DEF RecvEof, Leave, FreePacketBuffer, IInv, RcopyInv
<1>4. RcopyInv'
  <2>1. ~NeedFlush(pb')  BY <1>3 DEF NeedFlush, NullBuffer
  <2>2. pb' \in BufferType  BY <1>3, BlankCells
  <2>3. gotEof' \in BOOLEAN /\ expectedSeqNum' \in Nat \ {0}  BY <1>3
  <2> QED  BY <2>1, <2>2, <2>3 DEF RcopyInv
<1>5. Packet("EOF_ACK", expectedSeqNum, Blank) \in Up'
  BY <1>3 DEF Packet, Up, ClientFlags, Blank
<1>6. toServer' \in Seq(Up')  BY <1>1, <1>3, <1>5, RcopySends
<1> QED  BY <1>2, <1>3, <1>4, <1>6, EmptySeq, RcopyKeepsLink

\* A packet past the expected one, buffered or not, leaves the buffer based above
\* what is expected.
LEMMA RecvAheadStep ==
  ASSUME IInv, UNCHANGED <<serverVars, env>>, RecvAhead
  PROVE  IInv'
<1>1. PICK r \in Receives("client", toClient) :
        /\ r.packet.seqNum > expectedSeqNum
        /\ pb' = IF BufferOpen(pb)
                 THEN AddPacket(pb, r.packet.data, r.packet.seqNum) ELSE pb
        /\ toClient' = r.rest
        /\ TransmitToServer(Packet("SREJ", expectedSeqNum, Blank), r.cost)
  BY DEF RecvAhead, Take
<1>2. r.packet \in Down /\ r.rest \in Seq(Down)  BY RcopyReceives
<1>3. r.packet.seqNum \in Nat /\ r.packet.data \in Nat  BY <1>2 DEF Down
<1>4. /\ expectedSeqNum' = expectedSeqNum /\ gotEof' = gotEof
      /\ pb \in BufferType /\ expectedSeqNum \in Nat \ {0} /\ gotEof \in BOOLEAN
      /\ (NeedFlush(pb) => pb.nextSeqNum >= expectedSeqNum)
      /\ (gotEof => eofSent)
  BY DEF RecvAhead, IInv, RcopyInv, LinkInv
<1>5. pb' \in BufferType /\ (NeedFlush(pb') => pb'.nextSeqNum >= expectedSeqNum)
  <2>1. CASE pb' = pb  BY <2>1, <1>4
  <2>2. CASE pb' = AddPacket(pb, r.packet.data, r.packet.seqNum)
    <3>1. /\ pb' \in BufferType
          /\ NeedFlush(pb') => \/ NeedFlush(pb) /\ pb'.nextSeqNum = pb.nextSeqNum
                               \/ pb'.nextSeqNum = r.packet.seqNum
      BY <1>3, <1>4, <2>2, AddPacketTyped
    <3>2. CASE NeedFlush(pb) /\ pb'.nextSeqNum = pb.nextSeqNum
      BY <3>1, <3>2, <1>4
    <3>3. CASE pb'.nextSeqNum = r.packet.seqNum
      BY <3>1, <3>3, <1>1, <1>3, <1>4
    <3> QED  BY <3>1, <3>2, <3>3
  <2> QED  BY <1>1, <2>1, <2>2
<1>6. RcopyInv'  BY <1>4, <1>5 DEF RcopyInv, NeedFlush
<1>7. Packet("SREJ", expectedSeqNum, Blank) \in Up'
  BY <1>4 DEF Packet, Up, ClientFlags, Blank
<1>8. toServer' \in Seq(Up')  BY <1>1, <1>4, <1>7, RcopySends
<1> QED  BY <1>1, <1>2, <1>4, <1>6, <1>8, RcopyKeepsLink

\* The expected packet, written: it is acknowledged after the number expected
\* has moved past it.
LEMMA RecvInOrderStep ==
  ASSUME IInv, UNCHANGED <<serverVars, env>>, RecvInOrder
  PROVE  IInv'
<1>1. PICK r \in Receives("client", toClient) :
        /\ toClient' = r.rest
        /\ TransmitToServer(Packet("ACK_RR", expectedSeqNum, Blank), r.cost)
  BY DEF RecvInOrder, Take
<1>2. /\ expectedSeqNum' = expectedSeqNum + 1 /\ gotEof' = gotEof /\ pb' = pb
      /\ expectedSeqNum \in Nat \ {0} /\ ~NeedFlush(pb) /\ (gotEof => eofSent)
  BY DEF RecvInOrder, IInv, RcopyInv, LinkInv
<1>3. RcopyInv'  BY <1>2 DEF IInv, RcopyInv, NeedFlush
<1>4. Packet("ACK_RR", expectedSeqNum, Blank) \in Up'
  BY <1>2 DEF Packet, Up, ClientFlags, Blank
<1>5. toServer' \in Seq(Up')  BY <1>1, <1>2, <1>4, RcopySends
<1>6. toClient' \in Seq(Down)  BY <1>1, RcopyReceives
<1> QED  BY <1>2, <1>3, <1>5, <1>6, RcopyKeepsLink

\* A flush, completed or not, takes the expected number to the buffer's next one,
\* which is no lower, and acknowledges the number before.
LEMMA RecvFlushStep ==
  ASSUME IInv, UNCHANGED <<serverVars, env>>, RecvFlush
  PROVE  IInv'
<1>1. PICK r \in Receives("client", toClient), n \in FlushWrites :
        /\ pb' = FlushBuffer(pb, n)
        /\ toClient' = r.rest
        /\ TransmitToServer(Packet("ACK_RR", expectedSeqNum' - 1, Blank), r.cost)
  BY DEF RecvFlush, Take
<1>2. /\ expectedSeqNum' = pb'.nextSeqNum /\ gotEof' = gotEof
      /\ pb \in BufferType /\ expectedSeqNum \in Nat \ {0}
      /\ pb.nextSeqNum >= expectedSeqNum /\ (gotEof => eofSent)
      /\ gotEof \in BOOLEAN
  BY DEF RecvFlush, GetNextSeqNum, IInv, RcopyInv, LinkInv
<1>3. n \in 0 .. Run(pb)
  <2>1. Run(pb) \in Nat  BY <1>2, RunWaits, WinSizeAssumption
  <2> QED  BY <2>1 DEF FlushWrites
<1>4. /\ n \in Nat /\ pb' \in BufferType /\ pb'.nextSeqNum = pb.nextSeqNum + n
  BY <1>1, <1>2, <1>3, FlushTyped, WinSizeAssumption
<1>5. pb.nextSeqNum \in Nat  BY <1>2 DEF BufferType
<1>6. expectedSeqNum' \in Nat \ {0} /\ expectedSeqNum <= expectedSeqNum'
  BY <1>2, <1>4, <1>5
<1>7. RcopyInv'  BY <1>2, <1>4, <1>6 DEF RcopyInv
<1>8. Packet("ACK_RR", expectedSeqNum' - 1, Blank) \in Up'
  BY <1>6 DEF Packet, Up, ClientFlags, Blank
<1>9. toServer' \in Seq(Up')  BY <1>1, <1>2, <1>6, <1>8, RcopySends
<1>10. toClient' \in Seq(Down)  BY <1>1, RcopyReceives
<1> QED  BY <1>2, <1>6, <1>7, <1>9, <1>10, RcopyKeepsLink

\* Every step of rcopy keeps the invariant.
LEMMA RcopyInductive ==
  ASSUME IInv, Rcopy
  PROVE  IInv'
<1>1. UNCHANGED <<serverVars, env>>  BY DEF Rcopy
<1>2. CASE FnameAnswer  BY <1>1, <1>2, RcopySilent DEF FnameAnswer, Take
<1>3. CASE FnameRefused  BY <1>1, <1>3, RcopySilent DEF FnameRefused, Leave
<1>4. CASE FnameTimeout  BY <1>1, <1>4, RcopySilent DEF FnameTimeout, Leave
<1>5. CASE FileOpenFails  BY <1>1, <1>5, RcopySilent DEF FileOpenFails, Leave
<1>6. CASE RecvTimeout  BY <1>1, <1>6, RcopySilent DEF RecvTimeout, Leave
<1>7. CASE RecvIgnored  BY <1>1, <1>7, RcopySilent DEF RecvIgnored, Take, rcopyVars
<1>8. CASE RecvUnbufferable
  BY <1>1, <1>8, RcopySilent DEF RecvUnbufferable, Leave
<1>9. CASE RecvWriteFails  BY <1>1, <1>9, RcopySilent DEF RecvWriteFails, Leave
<1>10. CASE RecvUnexpected  BY <1>1, <1>10, RcopySilent DEF RecvUnexpected, Leave
<1> QED
  BY <1>1, <1>2, <1>3, <1>4, <1>5, <1>6, <1>7, <1>8, <1>9, <1>10, FileOpenedStep,
     RecvEofStep, RecvAheadStep, RecvInOrderStep, RecvFlushStep
  DEF Rcopy, RcopyStep, RcopyTimeout

-----------------------------------------------------------------------------
(***************************************************************************)
(* What follows.                                                           *)
(***************************************************************************)

\* Nothing is on its way at the start.
LEMMA InitInv == Init => IInv
<1> SUFFICES ASSUME Init PROVE IInv  OBVIOUS
<1>1. ServerInv
  BY InitWin DEF Init, ServerInit, ServerInv, NextIsCurr, ServerStates
<1>2. RcopyInv
  <2>1. /\ pb = NullBuffer /\ expectedSeqNum = 1 /\ gotEof = FALSE
    BY DEF Init, RcopyInit
  <2>2. ~NeedFlush(pb)  BY <2>1 DEF NeedFlush, NullBuffer
  <2>3. pb \in BufferType  BY <2>1, BlankCells
  <2>4. expectedSeqNum \in Nat \ {0}  BY <2>1, SMT
  <2>5. gotEof \in BOOLEAN  BY <2>1, Zenon
  <2> QED  BY <2>2, <2>3, <2>4, <2>5 DEF RcopyInv
<1>3. LinkInv
  BY InitWin, EmptySeq DEF Init, ServerInit, RcopyInit, ChannelInit, LinkInv, NeverSlidPast
<1> QED  BY <1>1, <1>2, <1>3 DEF IInv

\* Nobody's step breaks the invariant.
LEMMA NextInv == IInv /\ [Next]_vars => IInv'
<1> SUFFICES ASSUME IInv, [Next]_vars PROVE IInv'  OBVIOUS
<1>1. CASE UNCHANGED vars
  <2>1. UNCHANGED <<serverVars, env, pb, expectedSeqNum, gotEof, toServer, toClient>>
    BY <1>1 DEF vars, rcopyVars, channelVars
  <2>2. RcopyInv'  BY <2>1 DEF IInv, RcopyInv, NeedFlush
  <2>3. expectedSeqNum <= expectedSeqNum' /\ toClient' \in Seq(Down)
    BY <2>1 DEF IInv, RcopyInv, LinkInv
  <2> QED  BY <2>1, <2>2, <2>3, RcopyKeepsLink DEF IInv, LinkInv
<1> QED
  BY <1>1, ServerInductive, RcopyInductive DEF Next, Finished

\* sendPacket's number is always the one addPane accepts: nextToSend and
\* window.curr never drift apart.
THEOREM NumberingsAgree == Spec => []NextIsCurr
<1>1. IInv => NextIsCurr  BY DEF IInv, ServerInv
<1> QED  BY InitInv, NextInv, <1>1, PTL DEF Spec

\* Every data packet on its way carries the chunk of its own number.
THEOREM WireIsFaithful == Spec => []WireFaithful
<1>1. ASSUME IInv PROVE WireFaithful
  <2> SUFFICES ASSUME NEW i \in DOMAIN toClient, toClient[i].flag \in DataFlags
               PROVE  toClient[i].data = toClient[i].seqNum
    BY DEF WireFaithful, DataInTransit, InTransit
  <2>1. toClient[i] \in Down  BY <1>1, ElementOfSeq DEF IInv, LinkInv
  <2> QED  BY <2>1 DEF Down
<1> QED  BY InitInv, NextInv, <1>1, PTL DEF Spec

\* slideWindow never lets go of a packet rcopy still expects.
THEOREM ServerHoldsExpected == Spec => []NeverSlidPast
<1>1. IInv => NeverSlidPast  BY DEF IInv, LinkInv
<1> QED  BY InitInv, NextInv, <1>1, PTL DEF Spec

\* The server never sends further than rcopy's buffer reaches.
THEOREM DataFits == Spec => []FitsReceiver
<1>1. ASSUME IInv PROVE FitsReceiver
  <2> SUFFICES ASSUME NEW i \in DOMAIN toClient, toClient[i].flag \in DataFlags
               PROVE  toClient[i].seqNum < expectedSeqNum + WinSize
    BY DEF FitsReceiver, DataInTransit, InTransit
  <2>1. toClient[i] \in Down  BY <1>1, ElementOfSeq DEF IInv, LinkInv
  <2> QED  BY <2>1 DEF Down
<1> QED  BY InitInv, NextInv, <1>1, PTL DEF Spec

\* handleFeedback's branches for EOF_ACK and for unknown flags are never taken.
THEOREM FeedbackIsExpected == Spec => []FeedbackExpected
<1>1. ASSUME IInv PROVE FeedbackExpected
  <2> SUFFICES ASSUME sstate = "HANDLE_FEEDBACK", NEW i \in DOMAIN toServer
               PROVE  toServer[i].flag \in {"ACK_RR", "SREJ", "CRC_ERROR"}
    BY DEF FeedbackExpected, InTransit
  <2>1. toServer[i] \in Up  BY <1>1, ElementOfSeq DEF IInv, LinkInv
  <2>2. ~gotEof  BY <1>1 DEF IInv, ServerInv, LinkInv
  <2> QED  BY <2>1, <2>2 DEF Up, ClientFlags
<1> QED  BY InitInv, NextInv, <1>1, PTL DEF Spec

\* The server takes a transfer for complete only after rcopy has.
THEOREM CompletionShared == Spec => CompletionIsShared
<1> DEFINE Shared == sstate = "WAIT_EOF_ACK" /\ sstate' = "DONE" => gotEof
<1>1. ASSUME IInv, [Next]_vars PROVE [Shared]_vars
  <2> SUFFICES ASSUME Server, sstate = "WAIT_EOF_ACK", sstate' = "DONE" PROVE gotEof
    BY <1>1 DEF Next, Rcopy, Finished, serverVars
  <2>1. WaitEofAck
    BY DEF Server, ServerStep, ServerTimeout, FilenameTooLong, FilenameMissing,
       FilenameFound, SendAfterEof, SendClosed, SendEof, SendReadError, SendData,
       WaiterFeedback, WaiterNothing, HandleFeedback, GiveUp, TimeoutResend,
       TimeoutEofResend, Cleanup, WaiterTimeout, EofTimeout
  <2>2. PICK r \in Receives("server", toServer) : r.packet.flag = "EOF_ACK"
    BY <2>1 DEF WaitEofAck, AfterEofFeedback
  <2>3. r.packet \in Up  BY <1>1, ReceiveKeeps DEF IInv, LinkInv
  <2> QED  BY <2>2, <2>3 DEF Up
<1> QED  BY InitInv, NextInv, <1>1, PTL DEF Spec, CompletionIsShared

-----------------------------------------------------------------------------
(***************************************************************************)
(* Every variable has its type.  What has to be known besides is where     *)
(* chunk numbers travel: every data packet on its way and every cell that  *)
(* waits to be written holds a chunk of the file.                          *)
(***************************************************************************)

Chunks == 1 .. NumPackets

\* What may be on its way to rcopy, as far as the chunk it carries goes.
Carrying ==
  {m \in [flag : ServerFlags \cup {"CRC_ERROR"}, seqNum : Nat, data : Nat] :
     m.flag \in DataFlags => m.data \in Chunks}

\* The cells waiting to be written hold chunks.
HoldsChunks(b) == \A i \in Slots : ~b.buffer[i].written => b.buffer[i].packet \in Chunks

ServerTyped ==
  /\ win \in WindowType(Chunks)
  /\ retryCnt \in 0 .. MaxTries
  /\ filePos \in 0 .. NumPackets

RcopyTyped ==
  /\ rstate \in RcopyStates
  /\ HoldsChunks(pb)
  /\ output \in Seq(Chunks)

LinkTyped ==
  /\ toClient \in Seq(Carrying)
  /\ sockets \subseteq Ends
  /\ faults \in 0 .. env.limit

TInv == ServerTyped /\ RcopyTyped /\ LinkTyped

\* A step counts what went wrong in it and stays within the bound.
LEMMA Counted ==
  ASSUME IInv, TInv, env' = env,
         UNCHANGED faults \/ \E c \in Nat : Spend(c)
  PROVE  faults' \in 0 .. env'.limit
<1>1. env.limit \in Nat  BY EnvironmentsAssumption DEF IInv, LinkInv, Environment
<1>2. faults \in 0 .. env.limit  BY DEF TInv, LinkTyped
<1>3. CASE UNCHANGED faults  BY <1>2, <1>3
<1>4. ASSUME NEW c \in Nat, Spend(c) PROVE faults' \in 0 .. env'.limit
  <2>1. faults + c <= env.limit /\ faults' = faults + c  BY <1>4 DEF Spend
  <2> QED  BY <1>1, <1>2, <2>1
<1> QED  BY <1>3, <1>4

\* What a receive costs.
LEMMA ReceiveCost ==
  ASSUME NEW dst, NEW q, NEW r \in Receives(dst, q)
  PROVE  r.cost \in Nat
  BY DEF Receives

\* What a send costs.
LEMMA SendCost ==
  ASSUME NEW dst, NEW q, NEW m, NEW s \in Sends(dst, q, m)
  PROVE  s.cost \in Nat
  BY DEF Sends

\* A send towards rcopy is counted, and so is one towards the server.
LEMMA TransmitCost ==
  ASSUME NEW cost \in Nat
  PROVE  /\ \A packets : TransmitToClient(packets, cost) => \E c \in Nat : Spend(c)
         /\ \A m : TransmitToServer(m, cost) => \E c \in Nat : Spend(c)
<1>1. ASSUME NEW packets, TransmitToClient(packets, cost)
      PROVE  \E c \in Nat : Spend(c)
  <2>1. CASE packets = {}  BY <1>1, <2>1 DEF TransmitToClient
  <2>2. CASE packets # {}
    <3>1. PICK m \in packets : \E s \in Sends("client", toClient, m) :
            Spend(cost + s.cost)
      BY <1>1, <2>2 DEF TransmitToClient
    <3>2. PICK s \in Sends("client", toClient, m) : Spend(cost + s.cost)
      BY <3>1
    <3>3. cost + s.cost \in Nat  BY SendCost
    <3> QED  BY <3>2, <3>3
  <2> QED  BY <2>1, <2>2
<1>2. ASSUME NEW m, TransmitToServer(m, cost) PROVE \E c \in Nat : Spend(c)
  <2>1. PICK s \in Sends("server", toServer, m) : Spend(cost + s.cost)
    BY <1>2 DEF TransmitToServer
  <2>2. cost + s.cost \in Nat  BY SendCost
  <2> QED  BY <2>1, <2>2
<1> QED  BY <1>1, <1>2

\* Flipped packets carry no data.
LEMMA FlippedCarries == \A m \in Carrying : Flipped(m) \in Carrying
<1> SUFFICES ASSUME NEW m \in Carrying PROVE Flipped(m) \in Carrying  OBVIOUS
<1> QED  BY DEF Carrying, Flipped, DataFlags

\* What the server sends is counted and joins what is on its way.
LEMMA SendTyped ==
  ASSUME IInv, TInv, NEW packets \in SUBSET Carrying, NEW cost \in Nat,
         TransmitToClient(packets, cost)
  PROVE  toClient' \in Seq(Carrying) /\ \E c \in Nat : Spend(c)
<1>1. env \in Environments /\ toClient \in Seq(Carrying)
  BY DEF IInv, LinkInv, TInv, LinkTyped
<1> QED  BY <1>1, FlippedCarries, ToClientKeeps, TransmitCost

\* Packets without data.
LEMMA ControlCarries ==
  ASSUME NEW flag \in {"FNAME_OK", "FNAME_BAD", "END_OF_FILE"}, NEW seq \in Nat
  PROVE  Packet(flag, seq, Blank) \in Carrying
  BY DEF Packet, Carrying, ServerFlags, DataFlags, Blank

\* A data packet with a chunk.
LEMMA DataCarries ==
  ASSUME NEW flag \in DataFlags, NEW seq \in Nat, NEW p \in Chunks
  PROVE  Packet(flag, seq, p) \in Carrying
<1>1. p \in Nat  BY ServerAssumption DEF Chunks
<1> QED  BY <1>1 DEF Packet, Carrying, ServerFlags

\* addPane, slideWindow and initWindow store chunks or nothing.
LEMMA PanesTyped ==
  ASSUME NEW w \in WindowType(Chunks)
  PROVE  /\ NullWindow \in WindowType(Chunks)
         /\ InitWindow(w) \in WindowType(Chunks)
         /\ \A p \in Chunks, n \in Nat : AddPane(w, p, n) \in WindowType(Chunks)
         /\ \A low \in Int : SlideWindow(w, low) \in WindowType(Chunks)
         /\ \A n : ResendPane(w, n) \subseteq Chunks
<1> DEFINE P == Pane(Chunks)
<1>1. FreePane \in P  BY DEF Pane
<1>2. w.lower \in Nat /\ w.curr \in Nat /\ w.paneBuff \in [Slots -> P]
  BY DEF WindowType
<1>3. ASSUME NEW live \in BOOLEAN, NEW lower \in Nat, NEW curr \in Nat,
             NEW panes \in [Slots -> P]
      PROVE  [live |-> live, lower |-> lower, curr |-> curr, paneBuff |-> panes]
               \in WindowType(Chunks)
  <2> HIDE DEF P
  <2>1. WindowType(Chunks) = [live : BOOLEAN, lower : Nat, curr : Nat,
                              paneBuff : [Slots -> P]]
    BY DEF WindowType, P
  <2> QED  BY <2>1
<1> HIDE DEF P
<1>4. [i \in Slots |-> FreePane] \in [Slots -> P]  BY <1>1
<1>5. NullWindow \in WindowType(Chunks) /\ InitWindow(w) \in WindowType(Chunks)
  BY <1>3, <1>4 DEF NullWindow, FreshWindow, InitWindow
<1>6. ASSUME NEW p \in Chunks, NEW n \in Nat
      PROVE  AddPane(w, p, n) \in WindowType(Chunks)
  <2> DEFINE pane == [packet |-> p, seqNum |-> n, ack |-> FALSE]
             panes == [w.paneBuff EXCEPT ![Slot(n)] = pane]
  <2>1. pane \in P  BY DEF P, Pane
  <2>2. panes \in [Slots -> P]
    <3> HIDE DEF pane
    <3> QED  BY <1>2, <2>1
  <2>3. AddPane(w, p, n) \in {w, [live |-> TRUE, lower |-> w.lower,
                                  curr |-> w.curr + 1, paneBuff |-> panes]}
    BY DEF AddPane
  <2> HIDE DEF panes
  <2>4. w.curr + 1 \in Nat  BY <1>2
  <2>5. [live |-> TRUE, lower |-> w.lower, curr |-> w.curr + 1, paneBuff |-> panes]
          \in WindowType(Chunks)
    BY <1>2, <1>3, <2>2, <2>4
  <2> QED  BY <2>3, <2>5
<1>7. ASSUME NEW low \in Int PROVE SlideWindow(w, low) \in WindowType(Chunks)
  <2>1. CASE CanSlide(w, low)
    <3> DEFINE panes == Cleared(w, w.lower .. low - 1)
    <3>1. low \in Nat  BY <1>2, <2>1 DEF CanSlide
    <3>2. panes \in [Slots -> P]  BY <1>1, <1>2 DEF Cleared
    <3>3. SlideWindow(w, low) = [live |-> TRUE, lower |-> low, curr |-> w.curr,
                                 paneBuff |-> panes]
      BY <2>1 DEF SlideWindow
    <3> HIDE DEF panes
    <3> QED  BY <1>2, <1>3, <3>1, <3>2, <3>3
  <2>2. CASE ~CanSlide(w, low)  BY <2>2 DEF SlideWindow
  <2> QED  BY <2>1, <2>2
<1>8. ASSUME NEW n, NEW p \in ResendPane(w, n) PROVE p \in Chunks
  <2>1. CanResend(w, n) /\ p = w.paneBuff[Slot(n)].packet  BY DEF ResendPane
  <2>2. n \in Nat  BY <1>2, <2>1 DEF CanResend
  <2>3. w.paneBuff[Slot(n)] \in P  BY <1>2, <2>2, SlotType
  <2>4. w.paneBuff[Slot(n)] # FreePane  BY <2>1 DEF CanResend, FreePane
  <2> QED  BY <2>1, <2>3, <2>4 DEF P, Pane
<1> QED  BY <1>5, <1>6, <1>7, <1>8

\* A step of the server child leaves rcopy's variables alone.
LEMMA ServerTypes ==
  ASSUME IInv, TInv, UNCHANGED <<rcopyVars, env>>,
         win' \in WindowType(Chunks), retryCnt' \in 0 .. MaxTries,
         filePos' \in 0 .. NumPackets, toClient' \in Seq(Carrying),
         sockets' \subseteq Ends, UNCHANGED faults \/ \E c \in Nat : Spend(c)
  PROVE  TInv'
<1>1. faults' \in 0 .. env'.limit  BY Counted
<1>2. RcopyTyped'  BY DEF TInv, RcopyTyped, rcopyVars, HoldsChunks
<1> QED  BY <1>1, <1>2 DEF TInv, ServerTyped, LinkTyped

\* A step that sends nothing and keeps the window.
LEMMA ServerQuiet ==
  ASSUME IInv, TInv, UNCHANGED <<rcopyVars, env>>,
         UNCHANGED <<win, retryCnt, filePos, channelVars>>
  PROVE  TInv'
  BY ServerTypes DEF TInv, ServerTyped, LinkTyped, channelVars

\* A step that sends and keeps window, sockets and file position.
LEMMA ServerSpeaks ==
  ASSUME IInv, TInv, UNCHANGED <<rcopyVars, env>>,
         UNCHANGED <<filePos, sockets>>,
         win' \in WindowType(Chunks), retryCnt' \in 0 .. MaxTries,
         NEW packets \in SUBSET Carrying, NEW cost \in Nat,
         TransmitToClient(packets, cost)
  PROVE  TInv'
<1>1. toClient' \in Seq(Carrying) /\ \E c \in Nat : Spend(c)  BY SendTyped
<1> QED  BY <1>1, ServerTypes DEF TInv, ServerTyped, LinkTyped

\* sendPacket reads a chunk, stores it in a pane and sends it.
LEMMA SendDataTyped ==
  ASSUME IInv, TInv, UNCHANGED <<rcopyVars, env>>, SendData
  PROVE  TInv'
<1>1. filePos' = filePos + 1 /\ filePos' \in Chunks
  BY ServerAssumption DEF SendData, TInv, ServerTyped, Chunks
<1>2. nextToSend \in Nat /\ win \in WindowType(Chunks)
  BY DEF IInv, ServerInv, TInv, ServerTyped
<1>3. win' \in WindowType(Chunks)  BY <1>1, <1>2, PanesTyped DEF SendData
<1>4. {Packet("DATA", nextToSend, filePos')} \subseteq Carrying
  BY <1>1, <1>2, DataCarries DEF DataFlags
<1>5. TransmitToClient({Packet("DATA", nextToSend, filePos')}, 0)
  BY DEF SendData
<1>6. toClient' \in Seq(Carrying) /\ \E c \in Nat : Spend(c)
  BY <1>4, <1>5, SendTyped
<1>7. filePos' \in 0 .. NumPackets  BY <1>1 DEF Chunks
<1>8. UNCHANGED <<retryCnt, sockets>>  BY DEF SendData
<1> QED  BY <1>3, <1>6, <1>7, <1>8, ServerTypes DEF TInv, ServerTyped, LinkTyped

\* A packet resent carries the chunk of its pane.
LEMMA ResentCarries ==
  ASSUME IInv, TInv, NEW flag \in DataFlags, NEW seq
  PROVE  Resent(flag, seq) \subseteq Carrying
<1> SUFFICES ASSUME NEW p \in ResendPane(win, seq)
             PROVE  Packet(flag, seq, p) \in Carrying
  BY DEF Resent
<1>1. seq \in Nat  BY ResendWin DEF IInv, ServerInv
<1>2. p \in Chunks  BY PanesTyped DEF TInv, ServerTyped
<1> QED  BY <1>1, <1>2, DataCarries

\* What both feedback states do.
LEMMA FeedbackTyped ==
  ASSUME IInv, TInv, UNCHANGED <<rcopyVars, env>>, HandleFeedback \/ WaitEofAck
  PROVE  TInv'
<1>1. PICK r \in Receives("server", toServer) : ActOnFeedback(r.packet, r.cost)
  BY DEF HandleFeedback, WaitEofAck
<1>2. UNCHANGED <<retryCnt, filePos, sockets>>
  BY DEF HandleFeedback, WaitEofAck
<1>3. r.packet \in Up  BY ReceiveKeeps DEF IInv, LinkInv
<1>4. r.packet.seqNum + 1 \in Int  BY <1>3 DEF Up
<1>5. win' \in WindowType(Chunks)
  BY <1>1, <1>4, PanesTyped DEF ActOnFeedback, TInv, ServerTyped
<1> DEFINE packets == IF r.packet.flag = "SREJ"
                      THEN Resent("SREJ_DATA", r.packet.seqNum) ELSE {}
<1>6. packets \subseteq Carrying  BY ResentCarries DEF DataFlags
<1>7. TransmitToClient(packets, r.cost)  BY <1>1 DEF ActOnFeedback
<1>8. r.cost \in Nat  BY ReceiveCost
<1>9. retryCnt' \in 0 .. MaxTries  BY <1>2 DEF TInv, ServerTyped
<1> HIDE DEF packets
<1> QED  BY <1>2, <1>5, <1>6, <1>7, <1>8, <1>9, ServerSpeaks

\* Every step of the server child keeps the types.
LEMMA ServerKeepsTypes ==
  ASSUME IInv, TInv, Server
  PROVE  TInv'
<1> USE DEF Server
<1>1. UNCHANGED <<rcopyVars, env>>  OBVIOUS
<1>2. win \in WindowType(Chunks) /\ retryCnt \in 0 .. MaxTries
  BY DEF TInv, ServerTyped
<1>3. CASE FilenameMissing
  <2>1. {Packet("FNAME_BAD", 0, Blank)} \subseteq Carrying  BY ControlCarries
  <2> QED  BY <1>1, <1>2, <1>3, <2>1, ServerSpeaks DEF FilenameMissing
<1>4. CASE FilenameFound
  <2>1. {Packet("FNAME_OK", 0, Blank)} \subseteq Carrying  BY ControlCarries
  <2>2. win' \in WindowType(Chunks)
    BY <1>2, <1>4, PanesTyped DEF FilenameFound
  <2> QED  BY <1>1, <1>2, <1>4, <2>1, <2>2, ServerSpeaks DEF FilenameFound
<1>5. CASE SendEof
  <2>1. {Packet("END_OF_FILE", nextToSend, Blank)} \subseteq Carrying
    BY ControlCarries DEF IInv, ServerInv
  <2> QED  BY <1>1, <1>2, <1>5, <2>1, ServerSpeaks DEF SendEof
<1>6. CASE TimeoutResend
  <2>1. Resent("TIMEOUT_DATA", win.lower) \subseteq Carrying
    BY ResentCarries DEF DataFlags
  <2>2. retryCnt' \in 0 .. MaxTries
    BY <1>2, <1>6, ServerAssumption DEF TimeoutResend
  <2>3. /\ UNCHANGED <<filePos, sockets, win>>
        /\ TransmitToClient(Resent("TIMEOUT_DATA", win.lower), 0)
    BY <1>6 DEF TimeoutResend
  <2> QED  BY <1>1, <1>2, <2>1, <2>2, <2>3, ServerSpeaks
<1>7. CASE TimeoutEofResend
  <2>1. {Packet("END_OF_FILE", win.lower, Blank)} \subseteq Carrying
    BY ControlCarries DEF IInv, ServerInv, WinInv
  <2>2. retryCnt' \in 0 .. MaxTries
    BY <1>2, <1>7, ServerAssumption DEF TimeoutEofResend
  <2>3. /\ UNCHANGED <<filePos, sockets, win>>
        /\ TransmitToClient({Packet("END_OF_FILE", win.lower, Blank)}, 0)
    BY <1>7 DEF TimeoutEofResend
  <2> QED  BY <1>1, <1>2, <2>1, <2>2, <2>3, ServerSpeaks
<1>8. CASE Cleanup
  <2>1. win' \in WindowType(Chunks)
    BY <1>2, <1>8, PanesTyped DEF Cleanup, FreeWindow
  <2>2. sockets' \subseteq Ends  BY <1>8 DEF Cleanup, TInv, LinkTyped
  <2> QED
    BY <1>1, <1>8, <2>1, <2>2, ServerTypes DEF Cleanup, TInv, ServerTyped, LinkTyped
<1>9. CASE \/ FilenameTooLong \/ SendAfterEof \/ SendClosed \/ SendReadError
           \/ WaiterFeedback \/ WaiterTimeout \/ WaiterNothing \/ EofTimeout \/ GiveUp
  <2>1. UNCHANGED <<win, retryCnt, filePos, channelVars>>
    BY <1>9 DEF FilenameTooLong, SendAfterEof, SendClosed, SendReadError,
       WaiterFeedback, WaiterTimeout, WaiterNothing, EofTimeout, GiveUp
  <2> QED  BY <1>1, <2>1, ServerQuiet
<1> QED
  BY <1>1, <1>3, <1>4, <1>5, <1>6, <1>7, <1>8, <1>9, SendDataTyped, FeedbackTyped
  DEF ServerStep, ServerTimeout

\* A step of rcopy leaves the server's variables alone.
LEMMA RcopyTypes ==
  ASSUME IInv, TInv, UNCHANGED <<serverVars, env>>,
         rstate' \in RcopyStates, HoldsChunks(pb'), output' \in Seq(Chunks),
         \/ toClient' = << >>
         \/ \E r \in Receives("client", toClient) : toClient' = r.rest,
         sockets' \subseteq Ends, UNCHANGED faults \/ \E c \in Nat : Spend(c)
  PROVE  TInv'
<1>1. faults' \in 0 .. env'.limit  BY Counted
<1>2. toClient' \in Seq(Carrying)
  BY ReceiveKeeps, EmptySeq DEF TInv, LinkTyped
<1>3. RcopyTyped'  BY DEF RcopyTyped, HoldsChunks
<1>4. ServerTyped'  BY DEF TInv, ServerTyped, serverVars
<1> QED  BY <1>1, <1>2, <1>3, <1>4 DEF TInv, LinkTyped

\* Most steps change neither the buffer nor the file.
LEMMA RcopyQuiet ==
  ASSUME IInv, TInv, UNCHANGED <<serverVars, env, pb, output>>,
         rstate' \in RcopyStates,
         \/ toClient' = << >>
         \/ \E r \in Receives("client", toClient) : toClient' = r.rest,
         sockets' \subseteq Ends,
         UNCHANGED faults \/ \E c \in Nat : Spend(c)
  PROVE  TInv'
  BY RcopyTypes DEF TInv, RcopyTyped

\* addPacket stores chunks.
LEMMA AddHoldsChunks ==
  ASSUME NEW b \in BufferType, HoldsChunks(b), NEW p \in Chunks, NEW seq \in Nat
  PROVE  HoldsChunks(AddPacket(b, p, seq))
<1> DEFINE v == AddPacket(b, p, seq)
           cell == [written |-> FALSE, packet |-> p]
<1>1. CASE v.buffer = b.buffer  BY <1>1 DEF HoldsChunks
<1>2. CASE v.buffer = [b.buffer EXCEPT ![Slot(seq)] = cell]
  <2> SUFFICES ASSUME NEW i \in Slots, ~v.buffer[i].written
               PROVE  v.buffer[i].packet \in Chunks
    BY DEF HoldsChunks
  <2>1. DOMAIN b.buffer = Slots  BY DEF BufferType
  <2>2. CASE i = Slot(seq)  BY <1>2, <2>1, <2>2
  <2>3. CASE i # Slot(seq)
    <3>1. v.buffer[i] = b.buffer[i]  BY <1>2, <2>1, <2>3
    <3> QED  BY <3>1 DEF HoldsChunks
  <2> QED  BY <2>2, <2>3
<1>3. v.buffer \in {b.buffer, [b.buffer EXCEPT ![Slot(seq)] = cell]}
  BY DEF AddPacket, Stored, BufferType
<1> QED  BY <1>1, <1>2, <1>3

\* flushBuffer writes cells that were waiting.
LEMMA FlushHoldsChunks ==
  ASSUME NEW b \in BufferType, HoldsChunks(b), NEW n \in 0 .. Run(b)
  PROVE  /\ HoldsChunks(FlushBuffer(b, n))
         /\ Flushed(b, n) \in Seq(Chunks)
<1>1. n \in Nat /\ n <= Run(b) /\ Run(b) \in Nat /\ b.nextSeqNum \in Nat
  BY RunWaits, WinSizeAssumption DEF BufferType
<1>2. ASSUME NEW k \in 1 .. n
      PROVE  b.buffer[Slot(b.nextSeqNum + k - 1)].packet \in Chunks
  <2>1. k - 1 \in 0 .. Run(b) - 1  BY <1>1
  <2>2. Waiting(b, b.nextSeqNum + (k - 1))  BY <2>1, RunWaits
  <2>3. b.nextSeqNum + (k - 1) = b.nextSeqNum + k - 1 /\ b.nextSeqNum + k - 1 \in Nat
    BY <1>1
  <2>4. Slot(b.nextSeqNum + k - 1) \in Slots  BY <2>3, SlotType
  <2> QED  BY <2>2, <2>3, <2>4 DEF Waiting, HoldsChunks
<1>3. Flushed(b, n) \in [1 .. n -> Chunks]  BY <1>2 DEF Flushed
<1>4. Flushed(b, n) \in Seq(Chunks)  BY <1>1, <1>3, SeqDef
<1>5. HoldsChunks(FlushBuffer(b, n))
  <2>1. \A i \in Slots : Emptied(b, n)[i] \in {WrittenSlot, b.buffer[i]}
    BY DEF Emptied
  <2>2. FlushBuffer(b, n).buffer = Emptied(b, n)  BY DEF FlushBuffer
  <2> QED  BY <2>1, <2>2 DEF HoldsChunks, WrittenSlot
<1> QED  BY <1>4, <1>5

\* A packet past the expected one is stored as it came.
LEMMA RecvAheadTyped ==
  ASSUME IInv, TInv, UNCHANGED <<serverVars, env>>, RecvAhead
  PROVE  TInv'
<1>1. PICK r \in Receives("client", toClient) :
        /\ IsData(r.packet)
        /\ pb' = IF BufferOpen(pb)
                 THEN AddPacket(pb, r.packet.data, r.packet.seqNum) ELSE pb
        /\ toClient' = r.rest
        /\ TransmitToServer(Packet("SREJ", expectedSeqNum, Blank), r.cost)
  BY DEF RecvAhead, Take
<1>2. r.packet \in Carrying  BY ReceiveKeeps DEF TInv, LinkTyped
<1>3. r.packet.data \in Chunks /\ r.packet.seqNum \in Nat
  BY <1>1, <1>2 DEF Carrying, IsData
<1>4. HoldsChunks(pb) /\ pb \in BufferType
  BY DEF TInv, RcopyTyped, IInv, RcopyInv
<1>5. HoldsChunks(pb')  BY <1>1, <1>3, <1>4, AddHoldsChunks
<1>6. \E c \in Nat : Spend(c)  BY <1>1, ReceiveCost, TransmitCost
<1>7. UNCHANGED <<rstate, output, sockets>>  BY DEF RecvAhead, Take
<1> QED  BY <1>1, <1>5, <1>6, <1>7, RcopyTypes DEF TInv, RcopyTyped, LinkTyped

\* The expected packet is written as it came.
LEMMA RecvInOrderTyped ==
  ASSUME IInv, TInv, UNCHANGED <<serverVars, env>>, RecvInOrder
  PROVE  TInv'
<1>1. PICK r \in Receives("client", toClient) :
        /\ IsData(r.packet)
        /\ output' = Append(output, r.packet.data)
        /\ toClient' = r.rest
        /\ TransmitToServer(Packet("ACK_RR", expectedSeqNum, Blank), r.cost)
  BY DEF RecvInOrder, Take
<1>2. r.packet \in Carrying  BY ReceiveKeeps DEF TInv, LinkTyped
<1>3. r.packet.data \in Chunks  BY <1>1, <1>2 DEF Carrying, IsData
<1>4. output' \in Seq(Chunks)
  BY <1>1, <1>3, AppendProperties DEF TInv, RcopyTyped
<1>5. \E c \in Nat : Spend(c)  BY <1>1, ReceiveCost, TransmitCost
<1>6. UNCHANGED <<rstate, pb, sockets>>  BY DEF RecvInOrder, Take
<1> QED  BY <1>1, <1>4, <1>5, <1>6, RcopyTypes DEF TInv, RcopyTyped, LinkTyped

\* A flush writes chunks.
LEMMA RecvFlushTyped ==
  ASSUME IInv, TInv, UNCHANGED <<serverVars, env>>, RecvFlush
  PROVE  TInv'
<1>1. PICK r \in Receives("client", toClient), n \in FlushWrites :
        /\ output' = output \o Flushed(pb, n)
        /\ pb' = FlushBuffer(pb, n)
        /\ toClient' = r.rest
        /\ TransmitToServer(Packet("ACK_RR", expectedSeqNum' - 1, Blank), r.cost)
  BY DEF RecvFlush, Take
<1>2. pb \in BufferType /\ HoldsChunks(pb)
  BY DEF IInv, RcopyInv, TInv, RcopyTyped
<1>3. n \in 0 .. Run(pb)
  <2>1. Run(pb) \in Nat  BY <1>2, RunWaits, WinSizeAssumption
  <2> QED  BY <2>1 DEF FlushWrites
<1>4. HoldsChunks(pb') /\ Flushed(pb, n) \in Seq(Chunks)
  BY <1>1, <1>2, <1>3, FlushHoldsChunks
<1>5. output' \in Seq(Chunks)
  BY <1>1, <1>4, ConcatProperties DEF TInv, RcopyTyped
<1>6. \E c \in Nat : Spend(c)  BY <1>1, ReceiveCost, TransmitCost
<1>7. UNCHANGED <<rstate, sockets>>  BY DEF RecvFlush, Take
<1> QED  BY <1>1, <1>4, <1>5, <1>6, <1>7, RcopyTypes DEF TInv, RcopyTyped, LinkTyped

\* Every step of rcopy keeps the types.
LEMMA RcopyKeepsTypes ==
  ASSUME IInv, TInv, Rcopy
  PROVE  TInv'
<1>1. UNCHANGED <<serverVars, env>>  BY DEF Rcopy
<1>2. rstate \in RcopyStates /\ sockets \subseteq Ends
  BY DEF TInv, RcopyTyped, LinkTyped
<1>3. CASE FnameAnswer
  BY <1>1, <1>2, <1>3, ReceiveCost, RcopyQuiet DEF FnameAnswer, Take, RcopyStates
<1>4. CASE FnameRefused
  BY <1>1, <1>2, <1>4, ReceiveCost, RcopyQuiet DEF FnameRefused, Leave, RcopyStates
<1>5. CASE FnameTimeout \/ FileOpenFails \/ RecvTimeout
  BY <1>1, <1>2, <1>5, RcopyQuiet
  DEF FnameTimeout, FileOpenFails, RecvTimeout, Leave, RcopyStates
<1>6. CASE FileOpened
  <2>1. pb' \in {pb, FreshBuffer}  BY <1>6 DEF FileOpened, InitPacketBuffer
  <2>2. HoldsChunks(FreshBuffer)  BY DEF HoldsChunks, FreshBuffer, WrittenSlot
  <2>3. HoldsChunks(pb')  BY <2>1, <2>2 DEF TInv, RcopyTyped
  <2>4. rstate' \in RcopyStates  BY <1>6 DEF FileOpened, RcopyStates
  <2>5. UNCHANGED <<output, toClient, sockets, faults>>
    BY <1>6 DEF FileOpened, channelVars
  <2>6. faults' \in 0 .. env'.limit  BY <1>1, <2>5, Counted
  <2>7. ServerTyped'  BY <1>1 DEF TInv, ServerTyped, serverVars
  <2>8. RcopyTyped'  BY <2>3, <2>4, <2>5 DEF TInv, RcopyTyped, HoldsChunks
  <2> QED  BY <2>5, <2>6, <2>7, <2>8 DEF TInv, LinkTyped
<1>7. CASE RecvIgnored
  BY <1>1, <1>2, <1>7, ReceiveCost, RcopyQuiet DEF RecvIgnored, Take, rcopyVars
<1>8. CASE RecvEof
  <2>1. PICK r \in Receives("client", toClient) :
          TransmitToServer(Packet("EOF_ACK", expectedSeqNum, Blank), r.cost)
    BY <1>8 DEF RecvEof
  <2>2. \E c \in Nat : Spend(c)  BY <2>1, ReceiveCost, TransmitCost
  <2>3. pb' = NullBuffer /\ toClient' = << >> /\ sockets' \subseteq Ends
        /\ rstate' \in RcopyStates /\ output' = output
    BY <1>2, <1>8 DEF RecvEof, Leave, FreePacketBuffer, RcopyStates
  <2>4. HoldsChunks(pb')  BY <2>3 DEF HoldsChunks, NullBuffer, WrittenSlot
  <2> QED  BY <1>1, <2>2, <2>3, <2>4, RcopyTypes DEF TInv, RcopyTyped
<1>9. CASE RecvUnbufferable \/ RecvWriteFails \/ RecvUnexpected
  <2>1. \E c \in Nat : Spend(c)
    BY <1>9, ReceiveCost DEF RecvUnbufferable, RecvWriteFails, RecvUnexpected
  <2>2. /\ UNCHANGED <<pb, output>> /\ toClient' = << >>
        /\ sockets' \subseteq Ends /\ rstate' \in RcopyStates
    BY <1>2, <1>9
    DEF RecvUnbufferable, RecvWriteFails, RecvUnexpected, Leave, RcopyStates
  <2> QED  BY <1>1, <2>1, <2>2, RcopyQuiet
<1> QED
  BY <1>1, <1>3, <1>4, <1>5, <1>6, <1>7, <1>8, <1>9,
     RecvAheadTyped, RecvInOrderTyped, RecvFlushTyped
  DEF Rcopy, RcopyStep, RcopyTimeout

\* Every variable has its type at the start.
LEMMA InitTypes == Init => TInv
<1> SUFFICES ASSUME Init PROVE TInv  OBVIOUS
<1>1. ServerTyped
  <2>1. NullWindow \in WindowType(Chunks)
    BY DEF NullWindow, WindowType, Pane
  <2> QED  BY <2>1, ServerAssumption DEF Init, ServerInit, ServerTyped
<1>2. RcopyTyped
  <2>1. HoldsChunks(NullBuffer)  BY DEF HoldsChunks, NullBuffer, WrittenSlot
  <2> QED  BY <2>1, EmptySeq DEF Init, RcopyInit, RcopyTyped, RcopyStates
<1>3. LinkTyped
  <2>1. env \in Environments /\ faults = 0 /\ sockets = Ends /\ toClient = << >>
    BY DEF Init, ChannelInit
  <2>2. env.limit \in Nat  BY <2>1, EnvironmentsAssumption DEF Environment
  <2> QED  BY <2>1, <2>2, EmptySeq DEF LinkTyped
<1> QED  BY <1>1, <1>2, <1>3 DEF TInv

\* No step takes a variable out of its type.
LEMMA TypesInductive == IInv /\ TInv /\ [Next]_vars => TInv'
<1> SUFFICES ASSUME IInv, TInv, [Next]_vars PROVE TInv'  OBVIOUS
<1>1. CASE UNCHANGED vars
  BY <1>1 DEF vars, serverVars, rcopyVars, channelVars, TInv, ServerTyped,
     RcopyTyped, LinkTyped, HoldsChunks
<1> QED
  BY <1>1, ServerKeepsTypes, RcopyKeepsTypes DEF Next, Finished

\* What is on its way to rcopy as data, and what waits in its buffer.
ChunksOnly == toClient \in Seq(Carrying) /\ HoldsChunks(pb)

\* Every variable of a transfer has its type, whatever the network does: the retry
\* counter and the file position stay in their ranges, and what is on its way as data,
\* waits in the buffer or has been written is a chunk of the file, never a zeroed cell
\* or a chunk past the end.
THEOREM SessionTypes == Spec => [](SessionTypeOK /\ ChunksOnly)
<1>1. IInv /\ TInv => SessionTypeOK /\ ChunksOnly
  <2> SUFFICES ASSUME IInv, TInv PROVE SessionTypeOK /\ ChunksOnly  OBVIOUS
  <2>1. ServerType
    BY DEF IInv, ServerInv, TInv, ServerTyped, ServerType, Chunks
  <2>2. /\ pb.live \in BOOLEAN /\ pb.nextSeqNum \in Nat /\ pb.storedPackets \in Int
        /\ expectedSeqNum \in Nat /\ gotEof \in BOOLEAN
    BY DEF IInv, RcopyInv, BufferType
  <2> QED
    BY <2>1, <2>2
    DEF IInv, LinkInv, TInv, RcopyTyped, LinkTyped, SessionTypeOK, ChunksOnly, Chunks
<1> QED  BY InitInv, NextInv, InitTypes, TypesInductive, <1>1, PTL DEF Spec

-----------------------------------------------------------------------------
(***************************************************************************)
(* When packets towards rcopy neither repeat nor overtake each other,      *)
(* chunks sent for the first time arrive in ascending order, and so the    *)
(* buffer always has room.                                                 *)
(***************************************************************************)

\* Chunks sent for the first time follow each other in ascending order.
Ascending(q) ==
  \A i, j \in DOMAIN q :
    i < j /\ q[i].flag = "DATA" /\ q[j].flag = "DATA" => q[i].seqNum < q[j].seqNum

\* They are all past number h.
Above(q, h) == \A i \in DOMAIN q : q[i].flag = "DATA" => q[i].seqNum > h

\* h is at least the highest number buffered and below every chunk still to
\* arrive for the first time: since each packet stored was past the one before,
\* the count of packets stored is at most that of the numbers from the expected one
\* up to h.
Highest(h) ==
  /\ h < nextToSend
  /\ Above(toClient, h)
  /\ NeedFlush(pb) => /\ pb.nextSeqNum <= h
                      /\ pb.storedPackets <= h - expectedSeqNum + 1

ArrivalInv ==
  /\ rstate = "RECV_DATA" => pb.live
  /\ LossyOnly => /\ Ascending(toClient)
                  /\ pb.storedPackets >= 0
                  /\ \E h \in Nat : Highest(h)

\* A queue without chunks is in order.
LEMMA EmptyQueue == Ascending(<< >>) /\ \A h : Above(<< >>, h)
  BY DEF Ascending, Above

\* sendto_Err drops the packet, flips it or adds it at the end.
LEMMA LossySend ==
  ASSUME LossyOnly, env \in Environments, NEW q, NEW m, NEW s \in Sends("client", q, m)
  PROVE  s.queue \in {q, Append(q, m), Append(q, Flipped(m))}
<1>1. ASSUME NEW f \in env.faults, f[1] = "client", s.queue = AfterFault(f[2], q, m)
      PROVE  s.queue \in {q, Append(q, Flipped(m))}
  <2>1. f[2] \in {"drop", "flip"}  BY <1>1 DEF LossyOnly
  <2> QED  BY <1>1, <2>1 DEF AfterFault
<1> QED  BY <1>1 DEF Sends

\* It never lets packets overtake each other.
LEMMA NoReorder == LossyOnly => <<"client", "reorder">> \notin env.faults
  BY DEF LossyOnly

\* A packet added at the end, a chunk past the others if it is sent for the first
\* time, keeps the order.
LEMMA AppendAscends ==
  ASSUME NEW S, NEW q \in Seq(S), NEW m, Ascending(q),
         \A i \in DOMAIN q : q[i].flag = "DATA" /\ m.flag = "DATA"
                               => q[i].seqNum < m.seqNum
  PROVE  /\ Ascending(Append(q, m))
         /\ \A h : Above(q, h) /\ (m.flag = "DATA" => m.seqNum > h)
                     => Above(Append(q, m), h)
<1> DEFINE v == Append(q, m)
<1>1. /\ Len(q) \in Nat /\ DOMAIN q = 1 .. Len(q)
      /\ DOMAIN v = 1 .. Len(q) + 1 /\ v[Len(q) + 1] = m
      /\ \A i \in 1 .. Len(q) : v[i] = q[i]
  OBVIOUS
<1> DEFINE n == Len(q)
<1>2. /\ n \in Nat /\ DOMAIN q = 1 .. n /\ DOMAIN v = 1 .. n + 1 /\ v[n + 1] = m
      /\ \A i \in 1 .. n : v[i] = q[i]
  BY <1>1
<1> HIDE DEF v, n
<1>3. Ascending(v)
  <2> SUFFICES ASSUME NEW i \in DOMAIN v, NEW j \in DOMAIN v, i < j,
                      v[i].flag = "DATA", v[j].flag = "DATA"
               PROVE  v[i].seqNum < v[j].seqNum
    BY DEF Ascending
  <2>1. i \in 1 .. n  BY <1>2
  <2>2. CASE j = n + 1  BY <1>2, <2>1, <2>2
  <2>3. CASE j \in 1 .. n  BY <1>2, <2>1, <2>3 DEF Ascending
  <2> QED  BY <1>2, <2>2, <2>3
<1>4. ASSUME NEW h, Above(q, h), m.flag = "DATA" => m.seqNum > h
      PROVE  Above(v, h)
  <2> SUFFICES ASSUME NEW i \in DOMAIN v, v[i].flag = "DATA"
               PROVE  v[i].seqNum > h
    BY DEF Above
  <2>1. CASE i = n + 1  BY <1>2, <1>4, <2>1
  <2>2. CASE i \in 1 .. n  BY <1>2, <1>4, <2>2 DEF Above
  <2> QED  BY <1>2, <2>1, <2>2
<1> QED  BY <1>3, <1>4 DEF v

\* recvBuff takes the oldest packet, unless packets overtake each other.
LEMMA TakesOldest ==
  ASSUME <<"client", "reorder">> \notin env.faults, NEW S, NEW q \in Seq(S),
         NEW r \in Receives("client", q)
  PROVE  /\ Len(q) \in Nat /\ Len(q) >= 1 /\ r.packet = q[1]
         /\ DOMAIN q = 1 .. Len(q) /\ DOMAIN r.rest = 1 .. Len(q) - 1
         /\ \A k \in 1 .. Len(q) - 1 : r.rest[k] = q[k + 1]
<1> DEFINE v == r.rest
<1>1. PICK i \in DOMAIN q : /\ i = 1 \/ <<"client", "reorder">> \in env.faults
                            /\ r.packet = q[i] /\ v = RemoveAt(q, i)
  BY DEF Receives
<1>2. Len(q) \in Nat /\ DOMAIN q = 1 .. Len(q) /\ 1 \in DOMAIN q
      /\ r.packet = q[1] /\ v = RemoveAt(q, 1)
  BY <1>1
<1>3. /\ Len(v) = Len(q) - 1 /\ DOMAIN v = 1 .. Len(q) - 1
      /\ \A k \in 1 .. Len(q) - 1 : v[k] = q[k + 1]
  <2>1. RemoveAt(q, 1) = SubSeq(q, 1, 0) \o SubSeq(q, 2, Len(q))
    BY DEF RemoveAt
  <2>2. SubSeq(q, 1, 0) = << >>  BY <1>2, SubSeqProperties, EmptySeq
  <2>3. SubSeq(q, 2, Len(q)) \in Seq(S)  BY <1>2, SubSeqProperties
  <2>4. v = SubSeq(q, 2, Len(q))  BY <1>2, <2>1, <2>2, <2>3, ConcatProperties
  <2>5. Len(v) = Len(q) - 1
    <3>1. Len(SubSeq(q, 2, Len(q))) = IF 2 <= Len(q) THEN Len(q) - 2 + 1 ELSE 0
      BY <1>2, SubSeqProperties
    <3>2. Len(q) >= 1  BY <1>2
    <3>3. \A k \in Nat : k >= 1 => (IF 2 <= k THEN k - 2 + 1 ELSE 0) = k - 1
      OBVIOUS
    <3> QED  BY <1>2, <2>4, <3>1, <3>2, <3>3
  <2>6. DOMAIN v = 1 .. Len(q) - 1
    BY <2>3, <2>4, <2>5
  <2>7. \A k \in 1 .. Len(q) - 1 : v[k] = q[k + 1]
    <3>1. \A k \in 1 .. Len(q) - 1 : SubSeq(q, 2, Len(q))[k] = q[2 + k - 1]
      BY <1>2, SubSeqProperties
    <3>2. \A k \in 1 .. Len(q) - 1 : 2 + k - 1 = k + 1  BY <1>2
    <3> QED  BY <2>4, <3>1, <3>2
  <2> QED  BY <2>5, <2>6, <2>7
<1> QED  BY <1>2, <1>3

\* What is left when the oldest packet is taken is in order, and past it.
LEMMA LossyReceive ==
  ASSUME <<"client", "reorder">> \notin env.faults, NEW S, NEW q \in Seq(S),
         Ascending(q), NEW r \in Receives("client", q)
  PROVE  /\ Ascending(r.rest)
         /\ \A h : Above(q, h) => /\ Above(r.rest, h)
                                  /\ r.packet.flag = "DATA" => r.packet.seqNum > h
         /\ r.packet.flag = "DATA" => Above(r.rest, r.packet.seqNum)
<1> DEFINE n == Len(q)
           v == r.rest
<1>1. /\ n \in Nat /\ n >= 1 /\ DOMAIN q = 1 .. n /\ DOMAIN v = 1 .. n - 1
      /\ \A k \in 1 .. n - 1 : v[k] = q[k + 1] /\ k + 1 \in 1 .. n
      /\ r.packet = q[1]
  BY TakesOldest
<1> HIDE DEF v, n
<1>2. Ascending(v)
  <2> SUFFICES ASSUME NEW j \in DOMAIN v, NEW k \in DOMAIN v, j < k,
                      v[j].flag = "DATA", v[k].flag = "DATA"
               PROVE  v[j].seqNum < v[k].seqNum
    BY DEF Ascending
  <2>1. j + 1 < k + 1 /\ j \in 1 .. n - 1 /\ k \in 1 .. n - 1  BY <1>1
  <2> QED  BY <1>1, <2>1 DEF Ascending
<1>3. ASSUME NEW h, Above(q, h)
      PROVE  Above(v, h) /\ (r.packet.flag = "DATA" => r.packet.seqNum > h)
  <2>1. Above(v, h)
    <3> SUFFICES ASSUME NEW k \in 1 .. n - 1, v[k].flag = "DATA"
                 PROVE  v[k].seqNum > h
      BY <1>1 DEF Above
    <3> QED  BY <1>1, <1>3 DEF Above
  <2> QED  BY <1>1, <1>3, <2>1 DEF Above
<1>4. ASSUME r.packet.flag = "DATA", NEW k \in 1 .. n - 1, v[k].flag = "DATA"
      PROVE  v[k].seqNum > r.packet.seqNum
  <2>1. /\ 1 < k + 1 /\ 1 \in 1 .. n /\ k + 1 \in 1 .. n
        /\ q[1].flag = "DATA" /\ q[k + 1].flag = "DATA" /\ v[k] = q[k + 1]
    BY <1>1, <1>4
  <2>2. q[1].seqNum < q[k + 1].seqNum  BY <1>1, <2>1 DEF Ascending
  <2>3. r.packet.seqNum < v[k].seqNum  BY <1>1, <2>1, <2>2
  <2> QED  BY <2>3
<1>5. r.packet.flag = "DATA" => Above(v, r.packet.seqNum)
  BY <1>1, <1>4 DEF Above
<1> QED  BY <1>2, <1>3, <1>5 DEF v

\* A step of the server that sends at most one packet, under the next number if
\* it is a chunk sent for the first time.
LEMMA ServerArrives ==
  ASSUME IInv, ArrivalInv, UNCHANGED <<rcopyVars, env>>,
         nextToSend' \in Nat, nextToSend <= nextToSend',
         \/ UNCHANGED toClient
         \/ \E packets, cost : /\ TransmitToClient(packets, cost)
                               /\ \A m \in packets : m.flag = "DATA" =>
                                    m.seqNum = nextToSend /\ nextToSend < nextToSend'
  PROVE  ArrivalInv'
<1>1. rstate' = "RECV_DATA" => pb'.live  BY DEF ArrivalInv, rcopyVars
<1> SUFFICES ASSUME LossyOnly
             PROVE  /\ Ascending(toClient') /\ pb'.storedPackets >= 0
                    /\ \E h \in Nat : Highest(h)'
  BY <1>1 DEF ArrivalInv, LossyOnly
<1>2. PICK h \in Nat : Highest(h)  BY DEF ArrivalInv
<1>3. Ascending(toClient) /\ Above(toClient, h) /\ h < nextToSend
  BY <1>2 DEF ArrivalInv, Highest
<1>4. Ascending(toClient') /\ Above(toClient', h)
  <2>1. CASE UNCHANGED toClient  BY <1>3, <2>1
  <2>2. ASSUME NEW packets, NEW cost, TransmitToClient(packets, cost),
               \A m \in packets : m.flag = "DATA" => m.seqNum = nextToSend
        PROVE  Ascending(toClient') /\ Above(toClient', h)
    <3>1. CASE packets = {}  BY <1>3, <2>2, <3>1 DEF TransmitToClient
    <3>2. CASE packets # {}
      <4>1. PICK m \in packets : \E s \in Sends("client", toClient, m) :
              toClient' = s.queue
        BY <2>2, <3>2 DEF TransmitToClient
      <4>2. env \in Environments /\ toClient \in Seq(Down) /\ nextToSend \in Nat
        BY DEF IInv, LinkInv, ServerInv
      <4>3. toClient' \in {toClient, Append(toClient, m), Append(toClient, Flipped(m))}
        BY <4>1, <4>2, LossySend
      <4>4. \A i \in DOMAIN toClient : toClient[i].flag = "DATA" /\ m.flag = "DATA"
                                         => toClient[i].seqNum < m.seqNum
        <5> SUFFICES ASSUME NEW i \in DOMAIN toClient, toClient[i].flag = "DATA",
                            m.flag = "DATA"
                     PROVE  toClient[i].seqNum < m.seqNum
          OBVIOUS
        <5>1. toClient[i] \in Down  BY <4>2, ElementOfSeq
        <5>2. toClient[i].seqNum < nextToSend  BY <5>1 DEF Down
        <5> QED  BY <2>2, <5>2
      <4>5. m.flag = "DATA" => m.seqNum > h  BY <1>3, <2>2
      <4>6. CASE toClient' = toClient  BY <1>3, <4>6
      <4>7. CASE toClient' = Append(toClient, m)
        BY <1>3, <4>2, <4>4, <4>5, <4>7, AppendAscends
      <4>8. CASE toClient' = Append(toClient, Flipped(m))
        <5>1. Flipped(m).flag # "DATA"
          BY DEF Flipped
        <5> QED  BY <1>3, <4>2, <4>8, <5>1, AppendAscends
      <4> QED  BY <4>3, <4>6, <4>7, <4>8
    <3> QED  BY <3>1, <3>2
  <2> QED  BY <2>1, <2>2
<1>5. h < nextToSend'  BY <1>3 DEF IInv, ServerInv
<1>6. Highest(h)'  BY <1>2, <1>4, <1>5 DEF Highest, rcopyVars, NeedFlush
<1> QED  BY <1>4, <1>6 DEF ArrivalInv, rcopyVars

\* The server's numbers never go back.
LEMMA NumbersGrow ==
  ASSUME IInv, Server
  PROVE  nextToSend' \in Nat /\ nextToSend <= nextToSend'
<1>1. nextToSend \in Nat /\ WinInv(win)  BY DEF IInv, ServerInv
<1>2. CASE SendEof \/ SendData  BY <1>1, <1>2 DEF SendEof, SendData
<1>3. CASE HandleFeedback
  <2>1. ~eofSent /\ nextToSend = win.curr
    BY <1>3 DEF HandleFeedback, IInv, ServerInv, NextIsCurr, WinInv
  <2>2. PICK r \in Receives("server", toServer) :
          /\ ActOnFeedback(r.packet, r.cost)
          /\ nextToSend' = IF r.packet.flag = "ACK_RR" THEN win'.curr ELSE nextToSend
    BY <1>3 DEF HandleFeedback
  <2>3. win'.curr = win.curr  BY <1>1, <2>2, SlideWin DEF ActOnFeedback
  <2> QED  BY <1>1, <2>1, <2>2, <2>3
<1>4. CASE UNCHANGED nextToSend  BY <1>4, NumberKept
<1> QED
  BY <1>2, <1>3, <1>4
  DEF Server, ServerStep, ServerTimeout, FilenameTooLong, FilenameMissing,
      FilenameFound, SendAfterEof, SendClosed, SendReadError, WaiterFeedback,
      WaiterNothing, WaitEofAck, GiveUp, TimeoutResend, TimeoutEofResend, Cleanup,
      WaiterTimeout, EofTimeout

\* Every step of the server child keeps the arrivals in order.
LEMMA ServerKeepsArrivals ==
  ASSUME IInv, ArrivalInv, Server
  PROVE  ArrivalInv'
<1>1. UNCHANGED <<rcopyVars, env>>  BY DEF Server
<1> DEFINE Sound(packets) == \A m \in packets : m.flag = "DATA" =>
                               m.seqNum = nextToSend /\ nextToSend < nextToSend'
<1>2. ASSUME NEW packets, NEW cost, TransmitToClient(packets, cost), Sound(packets)
      PROVE  ArrivalInv'
  BY <1>1, <1>2, NumbersGrow, ServerArrives
<1>3. CASE UNCHANGED toClient  BY <1>1, <1>3, NumbersGrow, ServerArrives
<1>4. \A flag : flag # "DATA" =>
        \A seq : /\ Sound({Packet(flag, seq, Blank)})
                 /\ Sound(Resent(flag, seq))
  BY DEF Packet, Resent
<1>5. Sound({})  OBVIOUS
<1>6. CASE SendData
  <2>1. nextToSend < nextToSend'  BY <1>6 DEF SendData, IInv, ServerInv
  <2>2. Sound({Packet("DATA", nextToSend, filePos')})  BY <2>1 DEF Packet
  <2>3. TransmitToClient({Packet("DATA", nextToSend, filePos')}, 0)
    BY <1>6 DEF SendData
  <2> HIDE DEF Sound
  <2> QED  BY <1>2, <2>2, <2>3
<1> HIDE DEF Sound
<1>7. CASE FilenameMissing  BY <1>2, <1>4, <1>7 DEF FilenameMissing
<1>8. CASE FilenameFound  BY <1>2, <1>4, <1>8 DEF FilenameFound
<1>9. CASE SendEof  BY <1>2, <1>4, <1>9 DEF SendEof
<1>10. CASE TimeoutResend  BY <1>2, <1>4, <1>10 DEF TimeoutResend
<1>11. CASE TimeoutEofResend  BY <1>2, <1>4, <1>11 DEF TimeoutEofResend
<1>12. CASE HandleFeedback \/ WaitEofAck
  <2>1. PICK r \in Receives("server", toServer) : ActOnFeedback(r.packet, r.cost)
    BY <1>12 DEF HandleFeedback, WaitEofAck
  <2> DEFINE packets == IF r.packet.flag = "SREJ"
                        THEN Resent("SREJ_DATA", r.packet.seqNum) ELSE {}
  <2>2. Sound(packets)  BY <1>4, <1>5
  <2>3. TransmitToClient(packets, r.cost)  BY <2>1 DEF ActOnFeedback
  <2> HIDE DEF packets
  <2> QED  BY <1>2, <2>2, <2>3
<1> QED
  BY <1>3, <1>6, <1>7, <1>8, <1>9, <1>10, <1>11, <1>12
  DEF Server, ServerStep, ServerTimeout, channelVars, FilenameTooLong, SendAfterEof,
      SendClosed, SendReadError, WaiterFeedback, WaiterNothing, GiveUp, Cleanup,
      WaiterTimeout, EofTimeout

\* A step of rcopy that leaves the buffer alone while it counts packets, or leaves
\* it without any counted.
LEMMA RcopyArrives ==
  ASSUME IInv, ArrivalInv, UNCHANGED <<serverVars, env>>,
         rstate' = "RECV_DATA" => pb'.live,
         LossyOnly => \/ UNCHANGED <<pb, expectedSeqNum>>
                      \/ pb'.storedPackets = 0
                      \/ UNCHANGED pb /\ ~NeedFlush(pb),
         \/ toClient' = << >>
         \/ \E r \in Receives("client", toClient) : toClient' = r.rest
         \/ UNCHANGED toClient
  PROVE  ArrivalInv'
<1> SUFFICES ASSUME LossyOnly
             PROVE  /\ Ascending(toClient') /\ pb'.storedPackets >= 0
                    /\ \E h \in Nat : Highest(h)'
  BY DEF ArrivalInv, LossyOnly
<1>1. PICK h \in Nat : Highest(h)  BY DEF ArrivalInv
<1>2. /\ Ascending(toClient) /\ Above(toClient, h) /\ h < nextToSend
      /\ pb.storedPackets >= 0
  BY <1>1 DEF ArrivalInv, Highest
<1>3. Ascending(toClient') /\ Above(toClient', h)
  BY <1>2, EmptyQueue, NoReorder, LossyReceive DEF IInv, LinkInv
<1>4. pb'.storedPackets >= 0  BY <1>2
<1>5. \/ ~NeedFlush(pb')
      \/ UNCHANGED <<pb, expectedSeqNum>>
  BY DEF NeedFlush
<1>6. h < nextToSend'  BY <1>2 DEF serverVars
<1>7. Highest(h)'
  <2>1. CASE ~NeedFlush(pb')  BY <1>3, <1>6, <2>1 DEF Highest, NeedFlush
  <2>2. CASE UNCHANGED <<pb, expectedSeqNum>>
    BY <1>1, <1>3, <1>6, <2>2 DEF Highest, NeedFlush
  <2> QED  BY <1>5, <2>1, <2>2
<1> QED  BY <1>3, <1>4, <1>7

\* addPacket counts a packet it stores, and bases an empty buffer on it.
LEMMA AddCounts ==
  ASSUME NEW b \in BufferType, b.storedPackets >= 0, NEW p \in Nat, NEW seq \in Nat
  PROVE  LET v == AddPacket(b, p, seq)
         IN  /\ v.live = b.live
             /\ ~AddPacketFails(b, seq) =>
                  /\ v.storedPackets \in {b.storedPackets, b.storedPackets + 1}
                  /\ v.nextSeqNum = IF NeedFlush(b) THEN b.nextSeqNum ELSE seq
<1> DEFINE v == AddPacket(b, p, seq)
<1>1. CASE AddPacketFails(b, seq)  BY <1>1 DEF AddPacket
<1>2. CASE ~AddPacketFails(b, seq)
  <2>1. b.live  BY <1>2 DEF AddPacketFails
  <2>2. Base(b, seq) = IF NeedFlush(b) THEN b.nextSeqNum ELSE seq
    BY <2>1 DEF Base, NeedFlush, BufferType
  <2>3. CASE Waiting(b, seq)
    <3>1. v = [b EXCEPT !.nextSeqNum = Base(b, seq)]
      BY <1>2, <2>3 DEF AddPacket
    <3>2. /\ v.live = b.live /\ v.storedPackets = b.storedPackets
          /\ v.nextSeqNum = Base(b, seq)
      BY <3>1 DEF BufferType
    <3> QED  BY <2>2, <3>2
  <2>4. CASE ~Waiting(b, seq)
    <3>1. v = Stored(b, p, seq, Slot(seq))  BY <1>2, <2>4 DEF AddPacket
    <3>2. /\ v.live = TRUE /\ v.storedPackets = b.storedPackets + 1
          /\ v.nextSeqNum = Base(b, seq)
      BY <3>1 DEF Stored
    <3>3. b.live = TRUE  BY <2>1 DEF BufferType
    <3> QED  BY <2>2, <3>2, <3>3
  <2> QED  BY <2>3, <2>4
<1> QED  BY <1>1, <1>2

\* A packet past the expected one is one sent for the first time, and so past all
\* that came before: it becomes the highest.
LEMMA RecvAheadArrives ==
  ASSUME IInv, ArrivalInv, UNCHANGED <<serverVars, env>>, RecvAhead
  PROVE  ArrivalInv'
<1>1. PICK r \in Receives("client", toClient) :
        /\ IsData(r.packet) /\ r.packet.seqNum > expectedSeqNum
        /\ BufferOpen(pb) => ~AddPacketFails(pb, r.packet.seqNum)
        /\ pb' = IF BufferOpen(pb)
                 THEN AddPacket(pb, r.packet.data, r.packet.seqNum) ELSE pb
        /\ toClient' = r.rest
  BY DEF RecvAhead, Take
<1> DEFINE seq == r.packet.seqNum
<1>2. UNCHANGED <<rstate, expectedSeqNum, nextToSend, env>>
  BY DEF RecvAhead, serverVars
<1>3. r.packet \in Down  BY RcopyReceives
<1>4. /\ pb \in BufferType /\ expectedSeqNum \in Nat /\ nextToSend \in Nat
      /\ toClient \in Seq(Down)
  BY DEF IInv, RcopyInv, ServerInv, LinkInv
<1>5. /\ seq \in Nat /\ r.packet.data \in Nat /\ r.packet.flag = "DATA"
      /\ seq < nextToSend /\ seq > expectedSeqNum
  <2>1. /\ seq \in Nat /\ r.packet.data \in Nat /\ r.packet.flag \in DataFlags
    BY <1>1, <1>3 DEF Down, IsData
  <2>2. r.packet.flag = "DATA"  BY <1>1, <1>3, <1>4, <2>1 DEF Down
  <2> QED  BY <1>1, <1>3, <2>1, <2>2 DEF Down
<1>6. CASE ~BufferOpen(pb)
  BY <1>1, <1>2, <1>6, RcopyArrives DEF ArrivalInv
<1>7. CASE BufferOpen(pb)
  <2>1. pb.live /\ ~AddPacketFails(pb, seq)
        /\ pb' = AddPacket(pb, r.packet.data, seq)
    BY <1>1, <1>7 DEF AddPacketFails
  <2>2. rstate' = "RECV_DATA" => pb'.live
    <3>1. CASE AddPacketFails(pb, seq)  BY <2>1, <3>1
    <3>2. pb'.live = TRUE
      BY <1>4, <2>1 DEF AddPacket, Stored, BufferType
    <3> QED  BY <3>2
  <2> SUFFICES ASSUME LossyOnly
               PROVE  /\ Ascending(toClient') /\ pb'.storedPackets >= 0
                      /\ Highest(seq)'
    BY <1>2, <1>5, <2>2 DEF ArrivalInv, LossyOnly
  <2>3. PICK h \in Nat : Highest(h)  BY DEF ArrivalInv
  <2>4. /\ Ascending(toClient) /\ Above(toClient, h) /\ pb.storedPackets >= 0
        /\ NeedFlush(pb) => /\ pb.nextSeqNum <= h
                            /\ pb.storedPackets <= h - expectedSeqNum + 1
    BY <2>3 DEF ArrivalInv, Highest
  <2>5. Ascending(toClient') /\ Above(toClient', seq) /\ seq > h
    BY <1>1, <1>4, <1>5, <2>4, NoReorder, LossyReceive
  <2>6. /\ pb'.storedPackets \in {pb.storedPackets, pb.storedPackets + 1}
        /\ pb'.nextSeqNum = IF NeedFlush(pb) THEN pb.nextSeqNum ELSE seq
    BY <1>4, <1>5, <2>1, <2>4, AddCounts
  <2>7. pb.storedPackets \in Int /\ pb.nextSeqNum \in Nat
    BY <1>4 DEF BufferType
  <2>8. pb'.storedPackets >= 0  BY <2>4, <2>6, <2>7
  <2>9. pb'.nextSeqNum <= seq /\ pb'.storedPackets <= seq - expectedSeqNum + 1
    <3>1. CASE NeedFlush(pb)
      <4>1. /\ pb'.nextSeqNum = pb.nextSeqNum /\ pb.nextSeqNum <= h /\ h < seq
            /\ pb.storedPackets <= h - expectedSeqNum + 1
        BY <2>4, <2>5, <2>6, <3>1
      <4>2. pb'.nextSeqNum <= seq  BY <1>5, <2>7, <4>1
      <4>3. pb.storedPackets + 1 <= seq - expectedSeqNum + 1
        BY <1>4, <1>5, <2>7, <4>1
      <4> QED  BY <1>4, <1>5, <2>6, <2>7, <4>2, <4>3
    <3>2. CASE ~NeedFlush(pb)
      <4>1. pb.storedPackets = 0  BY <2>1, <2>4, <2>7, <3>2 DEF NeedFlush
      <4> QED  BY <1>4, <1>5, <2>6, <3>2, <4>1
    <3> QED  BY <3>1, <3>2
  <2>10. Highest(seq)'
    BY <1>2, <1>5, <2>5, <2>9 DEF Highest
  <2> QED  BY <2>5, <2>8, <2>10
<1> QED  BY <1>6, <1>7

\* Every step of rcopy keeps what is still to arrive past what it has buffered.
LEMMA RcopyKeepsArrivals ==
  ASSUME IInv, ArrivalInv, Rcopy
  PROVE  ArrivalInv'
<1>1. UNCHANGED <<serverVars, env>>  BY DEF Rcopy
<1>2. rstate = "RECV_DATA" => pb.live  BY DEF ArrivalInv
<1>3. CASE FnameAnswer
  BY <1>1, <1>3, RcopyArrives DEF FnameAnswer, Take
<1>4. CASE FnameRefused
  BY <1>1, <1>4, RcopyArrives DEF FnameRefused, Leave
<1>5. CASE FnameTimeout \/ FileOpenFails \/ RecvTimeout
  BY <1>1, <1>5, RcopyArrives DEF FnameTimeout, FileOpenFails, RecvTimeout, Leave
<1>6. CASE FileOpened
  <2>1. (pb' = pb /\ pb.live) \/ pb' = FreshBuffer
    BY <1>6 DEF FileOpened, InitPacketBuffer
  <2>2. FreshBuffer.live /\ FreshBuffer.storedPackets = 0  BY DEF FreshBuffer
  <2>3. pb'.live /\ (UNCHANGED pb \/ pb'.storedPackets = 0)  BY <2>1, <2>2
  <2> QED  BY <1>1, <1>6, <2>3, RcopyArrives DEF FileOpened, channelVars
<1>7. CASE RecvIgnored
  BY <1>1, <1>2, <1>7, RcopyArrives DEF RecvIgnored, Take, rcopyVars
<1>8. CASE RecvEof
  <2>1. NullBuffer.storedPackets = 0  BY DEF NullBuffer
  <2> QED
    BY <1>1, <1>8, <2>1, RcopyArrives DEF RecvEof, Leave, FreePacketBuffer
<1>9. CASE RecvUnbufferable \/ RecvWriteFails \/ RecvUnexpected
  BY <1>1, <1>9, RcopyArrives
  DEF RecvUnbufferable, RecvWriteFails, RecvUnexpected, Leave
<1>10. CASE RecvInOrder
  BY <1>1, <1>2, <1>10, RcopyArrives DEF RecvInOrder, Take
<1>11. CASE RecvFlush
  <2>1. PICK r \in Receives("client", toClient), n \in FlushWrites :
          pb' = FlushBuffer(pb, n) /\ toClient' = r.rest
    BY <1>11 DEF RecvFlush, Take
  <2>2. pb'.live  BY <2>1 DEF FlushBuffer
  <2>3. LossyOnly => pb'.storedPackets = 0
    BY <2>1 DEF LossyOnly, FlushWrites, FlushBuffer
  <2> QED  BY <1>1, <2>1, <2>2, <2>3, RcopyArrives
<1> QED
  BY <1>1, <1>3, <1>4, <1>5, <1>6, <1>7, <1>8, <1>9, <1>10, <1>11, RecvAheadArrives
  DEF Rcopy, RcopyStep, RcopyTimeout

\* When rcopy's packets are at worst dropped or flipped, the buffer has room for
\* every packet past the expected one and addPacket takes it: what recvData checks
\* "just in case rcopy can't buffer" never happens.
THEOREM BufferAlwaysTakes == Spec => []CanBuffer
<1>1. Init => ArrivalInv
  <2> SUFFICES ASSUME Init PROVE ArrivalInv  OBVIOUS
  <2>1. toClient = << >> /\ pb = NullBuffer /\ rstate = "FNAME_RECV" /\ nextToSend = 1
    BY DEF Init, ChannelInit, RcopyInit, ServerInit
  <2>2. pb.storedPackets = 0 /\ ~NeedFlush(pb)  BY <2>1 DEF NullBuffer, NeedFlush
  <2>3. Highest(0)  BY <2>1, <2>2, EmptyQueue DEF Highest
  <2>4. pb.storedPackets >= 0  BY <2>2
  <2> QED  BY <2>1, <2>3, <2>4, EmptyQueue DEF ArrivalInv
<1>2. IInv /\ ArrivalInv /\ [Next]_vars => ArrivalInv'
  <2> SUFFICES ASSUME IInv, ArrivalInv, [Next]_vars PROVE ArrivalInv'  OBVIOUS
  <2>1. CASE UNCHANGED vars
    <3>1. UNCHANGED <<serverVars, env, pb, expectedSeqNum, toClient, rstate>>
      BY <2>1 DEF vars, rcopyVars, channelVars
    <3>2. rstate' = "RECV_DATA" => pb'.live  BY <3>1 DEF ArrivalInv
    <3> QED  BY <3>1, <3>2, RcopyArrives
  <2> QED
    BY <2>1, ServerKeepsArrivals, RcopyKeepsArrivals DEF Next, Finished
<1>3. IInv /\ ArrivalInv => CanBuffer
  <2> SUFFICES ASSUME IInv, ArrivalInv, LossyOnly, rstate = "RECV_DATA",
                      NEW r \in Receives("client", toClient),
                      IsData(r.packet), r.packet.seqNum > expectedSeqNum
               PROVE  BufferOpen(pb) /\ ~AddPacketFails(pb, r.packet.seqNum)
    BY DEF CanBuffer
  <2> DEFINE seq == r.packet.seqNum
  <2>1. PICK h \in Nat : Highest(h)  BY DEF ArrivalInv
  <2>2. /\ pb.live /\ pb.storedPackets >= 0 /\ Ascending(toClient)
        /\ Above(toClient, h)
    BY <2>1 DEF ArrivalInv, Highest
  <2>3. /\ pb.storedPackets \in Int /\ pb.nextSeqNum \in Nat
        /\ expectedSeqNum \in Nat \ {0} /\ toClient \in Seq(Down)
        /\ NeedFlush(pb) => pb.nextSeqNum >= expectedSeqNum
    BY DEF IInv, RcopyInv, BufferType, LinkInv
  <2>4. /\ seq \in Nat /\ r.packet.flag = "DATA"
        /\ seq > expectedSeqNum /\ seq < expectedSeqNum + WinSize
    <3>1. r.packet \in Down  BY RcopyReceives
    <3>2. /\ seq \in Nat /\ r.packet.flag \in DataFlags
          /\ seq < expectedSeqNum + WinSize
      BY <3>1 DEF Down, IsData
    <3>3. r.packet.flag = "DATA"  BY <2>3, <3>1, <3>2 DEF Down
    <3> QED  BY <3>2, <3>3
  <2>5. seq > h  BY <2>2, <2>3, <2>4, NoReorder, LossyReceive
  <2>6. CASE pb.storedPackets = 0
    <3>1. BufferOpen(pb)  BY <2>6, WinSizeAssumption DEF BufferOpen
    <3>2. Base(pb, seq) = seq  BY <2>6 DEF Base
    <3>3. seq \in seq .. seq + WinSize - 1  BY <2>4, WinSizeAssumption
    <3> QED  BY <2>2, <2>3, <2>4, <3>1, <3>2, <3>3 DEF AddPacketFails
  <2>7. CASE pb.storedPackets # 0
    <3>1. NeedFlush(pb)  BY <2>2, <2>3, <2>7 DEF NeedFlush
    <3>2. pb.nextSeqNum <= h /\ pb.storedPackets <= h - expectedSeqNum + 1
          /\ pb.nextSeqNum >= expectedSeqNum
      BY <2>1, <2>3, <3>1 DEF Highest
    <3>3. pb.storedPackets <= WinSize - 1
      BY <2>3, <2>4, <2>5, <3>2, WinSizeAssumption
    <3>4. BufferOpen(pb)
      BY <2>2, <2>3, <3>3, WinSizeAssumption DEF BufferOpen
    <3>5. Base(pb, seq) = pb.nextSeqNum  BY <2>7 DEF Base
    <3>6. seq \in pb.nextSeqNum .. pb.nextSeqNum + WinSize - 1
      BY <2>3, <2>4, <2>5, <3>2, WinSizeAssumption
    <3> QED  BY <2>2, <2>3, <2>4, <3>4, <3>5, <3>6 DEF AddPacketFails
  <2> QED  BY <2>6, <2>7
<1> QED  BY InitInv, NextInv, <1>1, <1>2, <1>3, PTL DEF Spec

-----------------------------------------------------------------------------
(***************************************************************************)
(* When nothing happens to packets towards rcopy, every chunk not yet      *)
(* written is on its way, in sequence, ahead of its repeats and of         *)
(* END_OF_FILE.  rcopy's buffer stays empty, and the transfer is a copy.   *)
(***************************************************************************)

Repeats == DataFlags \ {"DATA"}

\* Chunk n, sent for the first time, is ahead of position i of queue q.
Before(q, i, n) ==
  \E j \in DOMAIN q : j < i /\ q[j].flag = "DATA" /\ q[j].seqNum = n

\* Queue q towards rcopy, which expects chunk e of a file read up to chunk f.
InSequence(q, e, f) ==
  /\ Ascending(q)
  /\ e <= f + 1
  /\ \A i \in DOMAIN q : q[i].flag = "DATA" => q[i].seqNum >= e /\ q[i].seqNum <= f
  /\ \A n \in e .. f : Before(q, Len(q) + 1, n)
  /\ \A i \in DOMAIN q :
       q[i].flag \in Repeats => q[i].seqNum < e \/ Before(q, i, q[i].seqNum)
  /\ \A i \in DOMAIN q :
       q[i].flag = "END_OF_FILE" => \A n \in e .. NumPackets : Before(q, i, n)

\* The states of rcopy in which it still listens.
Active == {"FNAME_RECV", "FILE_OK", "RECV_DATA"}

\* The states of the server child in which it has sent nothing or sends no more.
Silent == {"FILENAME", "DONE", "EXITED"}

\* The answer to the file name comes before anything else.
Greeted ==
  rstate = "FNAME_RECV" =>
    IF toClient = << >> THEN sstate \in Silent
    ELSE toClient[1].flag \in {"FNAME_OK", "FNAME_BAD"}

WholeInv ==
  /\ eofSent => filePos = NumPackets
  /\ gotEof => rstate = "DONE"
  /\ ArrivesWhole => /\ pb.storedPackets = 0
                     /\ expectedSeqNum = Len(output) + 1
                     /\ rstate \in Active =>
                          /\ "client" \in sockets
                          /\ InSequence(toClient, expectedSeqNum, filePos)
                     /\ Greeted

\* A packet sent arrives, in its place.
LEMMA WholeSend ==
  ASSUME ArrivesWhole, "client" \in sockets,
         NEW packets, NEW cost, TransmitToClient(packets, cost)
  PROVE  \/ packets = {} /\ toClient' = toClient
         \/ \E m \in packets : toClient' = Append(toClient, m)
<1>1. CASE packets = {}  BY <1>1 DEF TransmitToClient
<1>2. CASE packets # {}
  <2>1. PICK m \in packets : \E s \in Sends("client", toClient, m) : toClient' = s.queue
    BY <1>2 DEF TransmitToClient
  <2>2. \A s \in Sends("client", toClient, m) : s.queue = Append(toClient, m)
    BY DEF ArrivesWhole, Sends
  <2> QED  BY <2>1, <2>2
<1> QED  BY <1>1, <1>2

\* What Append does to the positions of a queue.
LEMMA AppendPlaces ==
  ASSUME NEW S, NEW q \in Seq(S), NEW m
  PROVE  LET v == Append(q, m)
         IN  /\ Len(q) \in Nat /\ Len(v) = Len(q) + 1
             /\ DOMAIN q = 1 .. Len(q) /\ DOMAIN v = 1 .. Len(q) + 1
             /\ v[Len(q) + 1] = m
             /\ \A i \in 1 .. Len(q) : v[i] = q[i]
  OBVIOUS

\* A packet added at the end is behind all that was there: if it is a chunk it is
\* the next one, if it repeats a chunk it is one read, if it is END_OF_FILE the
\* whole file is read.
LEMMA AppendInSequence ==
  ASSUME NEW S, NEW q \in Seq(S), \A p \in S : p.seqNum \in Nat, NEW m,
         NEW e \in Nat, NEW f \in Nat, NEW g \in Nat, InSequence(q, e, f),
         m.flag = "DATA" => m.seqNum = f + 1 /\ g = f + 1,
         m.flag # "DATA" => g = f,
         m.flag \in Repeats => m.seqNum \in Nat /\ m.seqNum <= f,
         m.flag = "END_OF_FILE" => f = NumPackets
  PROVE  InSequence(Append(q, m), e, g)
<1> DEFINE v == Append(q, m)
           l == Len(q)
<1>1. /\ l \in Nat /\ Len(v) = l + 1 /\ DOMAIN q = 1 .. l /\ DOMAIN v = 1 .. l + 1
      /\ v[l + 1] = m /\ \A i \in 1 .. l : v[i] = q[i]
  BY AppendPlaces
<1>2. \A i \in 1 .. l : q[i] \in S /\ q[i].seqNum \in Nat
  BY <1>1, ElementOfSeq
<1>3. Ascending(v)
  <2>1. \A i \in DOMAIN q : q[i].flag = "DATA" /\ m.flag = "DATA"
                              => q[i].seqNum < m.seqNum
    BY <1>1, <1>2 DEF InSequence
  <2> QED  BY <2>1, AppendAscends DEF InSequence
<1> HIDE DEF v, l
<1>4. ASSUME NEW i \in 1 .. l + 1, NEW n, Before(q, i, n) PROVE Before(v, i, n)
  <2>1. PICK j \in DOMAIN q : j < i /\ q[j].flag = "DATA" /\ q[j].seqNum = n
    BY <1>4 DEF Before
  <2>2. j \in DOMAIN v /\ v[j] = q[j]  BY <1>1, <2>1
  <2> QED  BY <2>1, <2>2 DEF Before
<1>5. ASSUME NEW n, Before(q, l + 1, n) PROVE Before(v, l + 2, n)
  <2>1. PICK j \in DOMAIN q : j < l + 1 /\ q[j].flag = "DATA" /\ q[j].seqNum = n
    BY <1>5 DEF Before
  <2>2. j \in DOMAIN v /\ v[j] = q[j] /\ j < l + 2  BY <1>1, <2>1
  <2> QED  BY <2>1, <2>2 DEF Before
<1>6. /\ e <= f + 1 /\ f <= g /\ g <= f + 1
      /\ \A n \in e .. f : Before(q, l + 1, n)
  BY DEF InSequence, l
<1>7. ASSUME NEW i \in DOMAIN v, v[i].flag = "DATA"
      PROVE  v[i].seqNum >= e /\ v[i].seqNum <= g
  <2>1. CASE i = l + 1  BY <1>1, <1>6, <1>7, <2>1
  <2>2. CASE i \in 1 .. l
    <3>1. q[i].seqNum >= e /\ q[i].seqNum <= f  BY <1>1, <1>7, <2>2 DEF InSequence
    <3> QED  BY <1>1, <1>2, <1>6, <2>2, <3>1
  <2> QED  BY <1>1, <2>1, <2>2
<1>8. ASSUME NEW n \in e .. g PROVE Before(v, Len(v) + 1, n)
  <2>1. Len(v) + 1 = l + 2  BY <1>1
  <2>2. CASE n <= f  BY <1>5, <1>6, <2>1, <2>2
  <2>3. CASE n = f + 1
    <3>1. m.flag = "DATA" /\ m.seqNum = n  BY <1>6, <2>3
    <3>2. l + 1 \in DOMAIN v /\ l + 1 < l + 2  BY <1>1
    <3> QED  BY <1>1, <2>1, <3>1, <3>2 DEF Before
  <2> QED  BY <1>6, <2>2, <2>3
<1>9. ASSUME NEW i \in DOMAIN v, v[i].flag \in Repeats
      PROVE  v[i].seqNum < e \/ Before(v, i, v[i].seqNum)
  <2>1. CASE i = l + 1
    <3>1. m.seqNum \in Nat /\ m.seqNum <= f  BY <1>1, <1>9, <2>1
    <3>2. m.seqNum < e \/ m.seqNum \in e .. f  BY <3>1
    <3> QED  BY <1>1, <1>4, <1>6, <2>1, <3>2
  <2>2. CASE i \in 1 .. l
    <3>1. q[i].seqNum < e \/ Before(q, i, q[i].seqNum)
      BY <1>1, <1>9, <2>2 DEF InSequence
    <3> QED  BY <1>1, <1>4, <2>2, <3>1
  <2> QED  BY <1>1, <2>1, <2>2
<1>10. ASSUME NEW i \in DOMAIN v, v[i].flag = "END_OF_FILE", NEW n \in e .. NumPackets
       PROVE  Before(v, i, n)
  <2>1. CASE i = l + 1  BY <1>1, <1>4, <1>6, <1>10, <2>1
  <2>2. CASE i \in 1 .. l
    <3>1. Before(q, i, n)  BY <1>1, <1>10, <2>2 DEF InSequence
    <3> QED  BY <1>1, <1>4, <2>2, <3>1
  <2> QED  BY <1>1, <2>1, <2>2
<1> QED
  BY <1>3, <1>6, <1>7, <1>8, <1>9, <1>10 DEF InSequence, v

\* Taking the oldest packet leaves the queue in sequence for what is expected next:
\* the same chunk, or the next if the packet was the one expected.
LEMMA TakeInSequence ==
  ASSUME <<"client", "reorder">> \notin env.faults,
         NEW S, NEW q \in Seq(S), \A p \in S : p.seqNum \in Nat,
         NEW r \in Receives("client", q),
         NEW e \in Nat, NEW f \in Nat, NEW d \in Nat, InSequence(q, e, f),
         IF r.packet.flag = "DATA" THEN r.packet.seqNum = e /\ d = e + 1 ELSE d = e
  PROVE  InSequence(r.rest, d, f)
<1> DEFINE v == r.rest
           l == Len(q)
<1>1. /\ l \in Nat /\ l >= 1 /\ r.packet = q[1]
      /\ DOMAIN q = 1 .. l /\ DOMAIN v = 1 .. l - 1
      /\ \A k \in 1 .. l - 1 : v[k] = q[k + 1]
  BY TakesOldest
<1>2. v \in Seq(S)  BY ReceiveKeeps
<1>3. Len(v) = l - 1
  <2>1. Len(v) \in Nat /\ DOMAIN v = 1 .. Len(v)  BY <1>2
  <2> HIDE DEF v, l
  <2> QED  BY <1>1, <2>1
<1>4. Ascending(v) /\ (r.packet.flag = "DATA" => Above(v, r.packet.seqNum))
  BY LossyReceive DEF InSequence
<1> HIDE DEF v, l
<1>5. \A i \in 1 .. l : q[i].seqNum \in Nat
  BY <1>1, ElementOfSeq
<1>6. e <= d /\ d <= f + 1 /\ d <= e + 1
  <2>1. e <= f + 1  BY DEF InSequence
  <2>2. CASE r.packet.flag = "DATA"
    <3>1. r.packet.seqNum <= f /\ r.packet.seqNum = e  BY <1>1, <2>2 DEF InSequence
    <3> QED  BY <2>2, <3>1
  <2>3. CASE r.packet.flag # "DATA"  BY <2>1, <2>3
  <2> QED  BY <2>2, <2>3
<1>7. \A k \in 1 .. l - 1 : k + 1 \in 1 .. l /\ v[k] = q[k + 1]  BY <1>1
<1>8. ASSUME NEW i \in 1 .. l, NEW n \in Nat, n >= d, Before(q, i + 1, n)
      PROVE  Before(v, i, n)
  <2>1. PICK j \in 1 .. l : j < i + 1 /\ q[j].flag = "DATA" /\ q[j].seqNum = n
    BY <1>1, <1>8 DEF Before
  <2>2. j # 1
    <3>1. CASE j = 1
      <4>1. r.packet.flag = "DATA" /\ r.packet.seqNum = n  BY <1>1, <2>1, <3>1
      <4> QED  BY <1>8, <4>1
    <3> QED  BY <3>1
  <2>3. j - 1 \in 1 .. l - 1 /\ (j - 1) + 1 = j /\ j - 1 < i  BY <1>1, <2>1, <2>2
  <2>4. j - 1 \in DOMAIN v /\ v[j - 1] = q[j]  BY <1>1, <2>3
  <2> QED  BY <2>1, <2>3, <2>4 DEF Before
<1>9. ASSUME NEW i \in DOMAIN v, v[i].flag = "DATA"
      PROVE  v[i].seqNum >= d /\ v[i].seqNum <= f
  <2>1. i \in 1 .. l - 1 /\ i + 1 \in DOMAIN q /\ v[i] = q[i + 1]  BY <1>1, <1>7
  <2>2. v[i].seqNum >= e /\ v[i].seqNum <= f /\ v[i].seqNum \in Nat
    BY <1>1, <1>5, <1>9, <2>1 DEF InSequence
  <2>3. CASE r.packet.flag = "DATA"
    <3>1. v[i].seqNum > e  BY <1>4, <1>9, <2>3 DEF Above
    <3> QED  BY <2>2, <2>3, <3>1
  <2>4. CASE r.packet.flag # "DATA"  BY <2>2, <2>4
  <2> QED  BY <2>3, <2>4
<1>10. ASSUME NEW n \in d .. f PROVE Before(v, Len(v) + 1, n)
  <2>1. n \in Nat /\ n >= d /\ n \in e .. f  BY <1>6
  <2>2. Before(q, l + 1, n)  BY <2>1 DEF InSequence, l
  <2>3. l \in 1 .. l /\ Len(v) + 1 = l  BY <1>1, <1>3
  <2> QED  BY <1>8, <2>1, <2>2, <2>3
<1>11. ASSUME NEW i \in DOMAIN v, v[i].flag \in Repeats
       PROVE  v[i].seqNum < d \/ Before(v, i, v[i].seqNum)
  <2>1. /\ i \in 1 .. l /\ i + 1 \in DOMAIN q /\ v[i] = q[i + 1]
        /\ v[i].seqNum \in Nat
    BY <1>1, <1>5, <1>7
  <2>2. v[i].seqNum < e \/ Before(q, i + 1, v[i].seqNum)
    BY <1>11, <2>1 DEF InSequence
  <2> QED  BY <1>6, <1>8, <2>1, <2>2
<1>12. ASSUME NEW i \in DOMAIN v, v[i].flag = "END_OF_FILE", NEW n \in d .. NumPackets
       PROVE  Before(v, i, n)
  <2>1. i \in 1 .. l /\ i + 1 \in DOMAIN q /\ v[i] = q[i + 1]
    BY <1>1, <1>7
  <2>2. n \in Nat /\ n >= d /\ n \in e .. NumPackets  BY <1>6, ServerAssumption
  <2>3. Before(q, i + 1, n)  BY <1>12, <2>1, <2>2 DEF InSequence
  <2> QED  BY <1>8, <2>1, <2>2, <2>3
<1> QED
  BY <1>4, <1>6, <1>9, <1>10, <1>11, <1>12 DEF InSequence, v

\* A step of the server child that sends nothing rcopy would notice.
LEMMA ServerSilentWhole ==
  ASSUME IInv, WholeInv, UNCHANGED <<rcopyVars, env>>,
         UNCHANGED <<toClient, filePos>>, eofSent' = eofSent,
         sockets' \in {sockets, sockets \ {"server"}},
         sstate \in Silent => sstate' \in Silent
  PROVE  WholeInv'
<1>1. ArrivesWhole' <=> ArrivesWhole  BY DEF ArrivesWhole
<1>2. Greeted => Greeted'  BY DEF Greeted, rcopyVars
<1>3. "client" \in sockets => "client" \in sockets'  OBVIOUS
<1> QED  BY <1>1, <1>2, <1>3 DEF WholeInv, rcopyVars

\* A step of the server child that sends at most one packet: the next chunk, a
\* repeated one, END_OF_FILE after the last one, or the first answer.
LEMMA ServerSpeaksWhole ==
  ASSUME IInv, WholeInv, UNCHANGED <<rcopyVars, env, sockets>>,
         filePos' \in Nat, eofSent' => filePos' = NumPackets,
         NEW packets, NEW cost, TransmitToClient(packets, cost),
         packets = {} => filePos' = filePos,
         \A m \in packets :
           /\ IF m.flag = "DATA" THEN m.seqNum = filePos + 1 /\ filePos' = filePos + 1
                                 ELSE filePos' = filePos
           /\ m.flag \in Repeats => m.seqNum \in Nat /\ m.seqNum <= filePos
           /\ m.flag = "END_OF_FILE" => filePos = NumPackets
           /\ sstate \in Silent => m.flag \in {"FNAME_OK", "FNAME_BAD"},
         sstate \in Silent => packets # {}
  PROVE  WholeInv'
<1>1. ArrivesWhole' <=> ArrivesWhole  BY DEF ArrivesWhole
<1>2. /\ gotEof' => rstate' = "DONE"
      /\ ArrivesWhole => pb'.storedPackets = 0 /\ expectedSeqNum' = Len(output') + 1
  BY DEF WholeInv, rcopyVars
<1>3. ASSUME ArrivesWhole, rstate \in Active
      PROVE  /\ "client" \in sockets'
             /\ InSequence(toClient', expectedSeqNum', filePos')
             /\ Greeted'
  <2>1. /\ "client" \in sockets /\ InSequence(toClient, expectedSeqNum, filePos)
        /\ Greeted
    BY <1>3 DEF WholeInv
  <2>2. /\ toClient \in Seq(Down) /\ expectedSeqNum \in Nat /\ filePos \in Nat
        /\ \A p \in Down : p.seqNum \in Nat
    BY DEF IInv, LinkInv, RcopyInv, ServerInv, Down
  <2>3. CASE packets = {} /\ toClient' = toClient
    BY <2>1, <2>3 DEF Greeted, rcopyVars
  <2>4. ASSUME NEW m \in packets, toClient' = Append(toClient, m)
        PROVE  /\ InSequence(toClient', expectedSeqNum', filePos')
               /\ Greeted'
    <3>1. InSequence(Append(toClient, m), expectedSeqNum, filePos')
      BY <2>1, <2>2, AppendInSequence
    <3>2. expectedSeqNum' = expectedSeqNum /\ rstate' = rstate  BY DEF rcopyVars
    <3>3. Greeted'
      <4> SUFFICES ASSUME rstate = "FNAME_RECV"
                   PROVE  /\ toClient' # << >>
                          /\ toClient'[1].flag \in {"FNAME_OK", "FNAME_BAD"}
        BY <3>2 DEF Greeted
      <4>1. /\ Len(toClient) \in Nat /\ Len(toClient') = Len(toClient) + 1
            /\ toClient'[Len(toClient) + 1] = m
            /\ \A i \in 1 .. Len(toClient) : toClient'[i] = toClient[i]
        BY <2>2, <2>4, AppendPlaces
      <4>2. toClient' # << >>  BY <2>2, <2>4
      <4>3. CASE toClient = << >>
        <5>1. sstate \in Silent  BY <2>1, <4>3 DEF Greeted
        <5>2. Len(toClient) = 0  BY <4>3
        <5>3. toClient'[1] = m  BY <4>1, <5>2
        <5> QED  BY <4>2, <5>1, <5>3
      <4>4. CASE toClient # << >>
        <5>1. toClient[1].flag \in {"FNAME_OK", "FNAME_BAD"}
          BY <2>1, <4>4 DEF Greeted
        <5>2. 1 \in 1 .. Len(toClient)  BY <2>2, <4>4, EmptySeq
        <5> QED  BY <4>1, <4>2, <5>1, <5>2
      <4> QED  BY <4>3, <4>4
    <3> QED  BY <2>4, <3>1, <3>2, <3>3
  <2>5. \/ packets = {} /\ toClient' = toClient
        \/ \E m \in packets : toClient' = Append(toClient, m)
    BY <1>3, <2>1, WholeSend
  <2> QED  BY <2>1, <2>3, <2>4, <2>5
<1>4. rstate' = rstate  BY DEF rcopyVars
<1>5. rstate \notin Active => Greeted'  BY <1>4 DEF Greeted, Active
<1> QED  BY <1>1, <1>2, <1>3, <1>4, <1>5 DEF WholeInv

\* A packet resent repeats a chunk that was read.
LEMMA ResentWhole ==
  ASSUME IInv, NEW flag \in Repeats, NEW seq, NEW m \in Resent(flag, seq)
  PROVE  m.flag = flag /\ m.seqNum \in Nat /\ m.seqNum <= filePos
<1>1. PICK p \in ResendPane(win, seq) : m = Packet(flag, seq, p)  BY DEF Resent
<1>2. win.live /\ seq \in Nat /\ seq < win.curr
  BY ResendWin DEF IInv, ServerInv
<1>3. filePos = win.curr - 1 /\ win.curr \in Nat
  BY <1>2 DEF IInv, ServerInv, WinInv
<1> QED  BY <1>1, <1>2, <1>3 DEF Packet

\* Every step of the server child keeps what is on its way in sequence.
LEMMA ServerKeepsWhole ==
  ASSUME IInv, WholeInv, Server
  PROVE  WholeInv'
<1> USE DEF Repeats, DataFlags, Silent
<1>1. UNCHANGED <<rcopyVars, env>>  BY DEF Server
<1>2. filePos \in Nat /\ (eofSent => filePos = NumPackets)
  BY DEF IInv, ServerInv, WholeInv
<1>3. CASE FilenameTooLong
  BY <1>1, <1>3, ServerSilentWhole DEF FilenameTooLong, channelVars
<1>4. CASE FilenameMissing
  <2> DEFINE packets == {Packet("FNAME_BAD", 0, Blank)}
  <2>1. \A m \in packets : m.flag = "FNAME_BAD"  BY DEF Packet
  <2>2. packets # {} /\ TransmitToClient(packets, 0)
        /\ UNCHANGED <<filePos, eofSent, sockets>>
    BY <1>4 DEF FilenameMissing
  <2> HIDE DEF packets
  <2> QED  BY <1>1, <1>2, <2>1, <2>2, ServerSpeaksWhole
<1>5. CASE FilenameFound
  <2> DEFINE packets == {Packet("FNAME_OK", 0, Blank)}
  <2>1. \A m \in packets : m.flag = "FNAME_OK"  BY DEF Packet
  <2>2. packets # {} /\ TransmitToClient(packets, 0)
        /\ UNCHANGED <<filePos, eofSent, sockets>>
    BY <1>5 DEF FilenameFound
  <2> HIDE DEF packets
  <2> QED  BY <1>1, <1>2, <2>1, <2>2, ServerSpeaksWhole
<1>6. CASE SendEof
  <2> DEFINE packets == {Packet("END_OF_FILE", nextToSend, Blank)}
  <2>1. \A m \in packets : m.flag = "END_OF_FILE"  BY DEF Packet
  <2>2. TransmitToClient(packets, 0) /\ UNCHANGED <<filePos, sockets>>
        /\ filePos = NumPackets /\ sstate = "SEND_PACKET"
    BY <1>6 DEF SendEof
  <2> HIDE DEF packets
  <2> QED  BY <1>1, <1>2, <2>1, <2>2, ServerSpeaksWhole
<1>7. CASE SendData
  <2> DEFINE packets == {Packet("DATA", nextToSend, filePos')}
  <2>1. ~eofSent' /\ win.live /\ filePos' = filePos + 1 /\ sstate = "SEND_PACKET"
        /\ TransmitToClient(packets, 0) /\ UNCHANGED sockets
    BY <1>7 DEF SendData, IInv, ServerInv
  <2>2. nextToSend = filePos + 1
    BY <1>7, <2>1 DEF SendData, IInv, ServerInv, NextIsCurr, WinInv
  <2>3. \A m \in packets : m.flag = "DATA" /\ m.seqNum = filePos + 1
    BY <2>2 DEF Packet
  <2>4. packets # {}  OBVIOUS
  <2> HIDE DEF packets
  <2> QED  BY <1>1, <1>2, <2>1, <2>3, <2>4, ServerSpeaksWhole
<1>8. CASE TimeoutResend
  <2> DEFINE packets == Resent("TIMEOUT_DATA", win.lower)
  <2>1. \A m \in packets : /\ m.flag = "TIMEOUT_DATA" /\ m.seqNum \in Nat
                           /\ m.seqNum <= filePos
    BY ResentWhole
  <2>2. TransmitToClient(packets, 0) /\ UNCHANGED <<filePos, eofSent, sockets>>
        /\ sstate = "TIMEOUT_RESEND"
    BY <1>8 DEF TimeoutResend
  <2> HIDE DEF packets
  <2> QED  BY <1>1, <1>2, <2>1, <2>2, ServerSpeaksWhole
<1>9. CASE TimeoutEofResend
  <2> DEFINE packets == {Packet("END_OF_FILE", win.lower, Blank)}
  <2>1. \A m \in packets : m.flag = "END_OF_FILE"  BY DEF Packet
  <2>2. TransmitToClient(packets, 0) /\ UNCHANGED <<filePos, eofSent, sockets>>
        /\ sstate = "TIMEOUT_EOF_RESEND" /\ eofSent
    BY <1>9 DEF TimeoutEofResend, IInv, ServerInv
  <2> HIDE DEF packets
  <2> QED  BY <1>1, <1>2, <2>1, <2>2, ServerSpeaksWhole
<1>10. CASE HandleFeedback \/ WaitEofAck
  <2>1. PICK r \in Receives("server", toServer) : ActOnFeedback(r.packet, r.cost)
    BY <1>10 DEF HandleFeedback, WaitEofAck
  <2> DEFINE packets == IF r.packet.flag = "SREJ"
                        THEN Resent("SREJ_DATA", r.packet.seqNum) ELSE {}
  <2>2. \A m \in packets : /\ m.flag = "SREJ_DATA" /\ m.seqNum \in Nat
                           /\ m.seqNum <= filePos
    BY ResentWhole
  <2>3. TransmitToClient(packets, r.cost)  BY <2>1 DEF ActOnFeedback
  <2>4. UNCHANGED <<filePos, eofSent, sockets>>
        /\ sstate \in {"HANDLE_FEEDBACK", "WAIT_EOF_ACK"}
    BY <1>10 DEF HandleFeedback, WaitEofAck
  <2> HIDE DEF packets
  <2> QED  BY <1>1, <1>2, <2>2, <2>3, <2>4, ServerSpeaksWhole
<1>11. CASE Cleanup
  BY <1>1, <1>11, ServerSilentWhole DEF Cleanup
<1>12. CASE \/ SendAfterEof \/ SendClosed \/ SendReadError \/ WaiterFeedback
            \/ WaiterTimeout \/ WaiterNothing \/ EofTimeout \/ GiveUp
  <2>1. UNCHANGED <<channelVars, filePos, eofSent>> /\ sstate \notin Silent
    BY <1>12 DEF SendAfterEof, SendClosed, SendReadError, WaiterFeedback,
       WaiterTimeout, WaiterNothing, EofTimeout, GiveUp
  <2> QED  BY <1>1, <2>1, ServerSilentWhole DEF channelVars
<1> QED
  BY <1>3, <1>4, <1>5, <1>6, <1>7, <1>8, <1>9, <1>10, <1>11, <1>12
  DEF Server, ServerStep, ServerTimeout

\* What rcopy finds at the head of a queue in sequence: the expected chunk, or
\* nothing new; END_OF_FILE only after all chunks.
LEMMA HeadOfWhole ==
  ASSUME IInv, TInv, WholeInv, ArrivesWhole, rstate \in Active,
         NEW r \in Receives("client", toClient)
  PROVE  /\ r.packet.flag = "DATA" => r.packet.seqNum = expectedSeqNum
         /\ r.packet.flag \in Repeats => r.packet.seqNum < expectedSeqNum
         /\ r.packet.flag = "END_OF_FILE" => expectedSeqNum = NumPackets + 1
         /\ rstate = "FNAME_RECV" => r.packet.flag \in {"FNAME_OK", "FNAME_BAD"}
<1> DEFINE e == expectedSeqNum
           l == Len(toClient)
<1>1. InSequence(toClient, e, filePos) /\ Greeted
  BY DEF WholeInv
<1>2. /\ toClient \in Seq(Down) /\ e \in Nat /\ filePos \in 0 .. NumPackets
  BY DEF IInv, LinkInv, RcopyInv, TInv, ServerTyped
<1>3. <<"client", "reorder">> \notin env.faults  BY DEF ArrivesWhole
<1>4. /\ l \in Nat /\ l >= 1 /\ r.packet = toClient[1] /\ DOMAIN toClient = 1 .. l
  BY <1>2, <1>3, TakesOldest
<1>5. 1 \in DOMAIN toClient /\ toClient # << >>  BY <1>2, <1>4
<1>6. r.packet \in Down /\ r.packet.seqNum \in Nat
  BY RcopyReceives DEF Down
<1>7. \A n : ~Before(toClient, 1, n)  BY <1>4 DEF Before
<1>8. ASSUME r.packet.flag = "DATA" PROVE r.packet.seqNum = e
  <2>1. r.packet.seqNum >= e /\ r.packet.seqNum <= filePos
    BY <1>1, <1>4, <1>5, <1>8 DEF InSequence
  <2>2. e \in e .. filePos  BY <1>2, <1>6, <2>1
  <2>3. Before(toClient, l + 1, e)  BY <1>1, <2>2 DEF InSequence
  <2>4. PICK j \in 1 .. l : toClient[j].flag = "DATA" /\ toClient[j].seqNum = e
    BY <1>4, <2>3 DEF Before
  <2>5. CASE j = 1  BY <1>4, <2>4, <2>5
  <2>6. CASE 1 < j
    <3>1. Ascending(toClient)  BY <1>1 DEF InSequence
    <3>2. r.packet.seqNum < e  BY <1>4, <1>5, <1>8, <2>4, <2>6, <3>1 DEF Ascending
    <3> QED  BY <1>2, <1>6, <2>1, <3>2
  <2> QED  BY <1>4, <2>5, <2>6
<1>9. r.packet.flag \in Repeats => r.packet.seqNum < e
  BY <1>1, <1>4, <1>5, <1>7 DEF InSequence
<1>10. ASSUME r.packet.flag = "END_OF_FILE" PROVE e = NumPackets + 1
  <2>1. \A n \in e .. NumPackets : FALSE
    BY <1>1, <1>4, <1>5, <1>7, <1>10 DEF InSequence
  <2>2. e <= filePos + 1  BY <1>1 DEF InSequence
  <2>3. e > NumPackets  BY <1>2, <2>1, ServerAssumption
  <2> QED  BY <1>2, <2>2, <2>3, ServerAssumption
<1>11. rstate = "FNAME_RECV" => r.packet.flag \in {"FNAME_OK", "FNAME_BAD"}
  BY <1>1, <1>4, <1>5 DEF Greeted
<1> QED  BY <1>8, <1>9, <1>10, <1>11

\* The end of an attempt.
LEMMA RcopyLeavesWhole ==
  ASSUME IInv, WholeInv, UNCHANGED <<serverVars, env, expectedSeqNum, output>>,
         rstate' \notin Active, gotEof' => rstate' = "DONE",
         pb'.storedPackets \in {0, pb.storedPackets}
  PROVE  WholeInv'
<1>1. ArrivesWhole' <=> ArrivesWhole  BY DEF ArrivesWhole
<1>2. Greeted'  BY DEF Greeted, Active
<1> QED  BY <1>1, <1>2 DEF WholeInv, serverVars

\* A step of rcopy that takes a packet, writing it if it is the expected chunk.
LEMMA RcopyTakesWhole ==
  ASSUME IInv, TInv, WholeInv, UNCHANGED <<serverVars, env, sockets>>,
         rstate \in Active, rstate' \in {"FILE_OK", "RECV_DATA"}, gotEof' = gotEof,
         NEW r \in Receives("client", toClient), toClient' = r.rest,
         ArrivesWhole =>
           /\ pb'.storedPackets = 0
           /\ expectedSeqNum' = Len(output') + 1
           /\ expectedSeqNum' = IF r.packet.flag = "DATA" THEN expectedSeqNum + 1
                                                          ELSE expectedSeqNum
  PROVE  WholeInv'
<1>1. ArrivesWhole' <=> ArrivesWhole  BY DEF ArrivesWhole
<1>2. Greeted' /\ ~gotEof' /\ (eofSent' => filePos' = NumPackets)
  BY DEF Greeted, WholeInv, Active, serverVars
<1>3. ASSUME ArrivesWhole
      PROVE  InSequence(toClient', expectedSeqNum', filePos')
  <2>1. /\ InSequence(toClient, expectedSeqNum, filePos) /\ filePos' = filePos
        /\ <<"client", "reorder">> \notin env.faults
    BY <1>3 DEF WholeInv, ArrivesWhole, serverVars
  <2>2. /\ toClient \in Seq(Down) /\ expectedSeqNum \in Nat /\ filePos \in Nat
        /\ \A p \in Down : p.seqNum \in Nat
    BY DEF IInv, LinkInv, RcopyInv, ServerInv, Down
  <2>3. r.packet.flag = "DATA" => r.packet.seqNum = expectedSeqNum
    BY <1>3, HeadOfWhole
  <2>4. expectedSeqNum' \in Nat  BY <1>3, <2>2
  <2> QED  BY <1>3, <2>1, <2>2, <2>3, <2>4, TakeInSequence
<1>4. ArrivesWhole => "client" \in sockets'  BY DEF WholeInv
<1> QED  BY <1>1, <1>2, <1>3, <1>4 DEF WholeInv

\* Every step of rcopy keeps its buffer empty and what it still expects on its way.
LEMMA RcopyKeepsWhole ==
  ASSUME IInv, TInv, WholeInv, Rcopy
  PROVE  WholeInv'
<1> USE DEF Active
<1>1. UNCHANGED <<serverVars, env>>  BY DEF Rcopy
<1>2. /\ gotEof => rstate = "DONE"
      /\ ArrivesWhole => pb.storedPackets = 0 /\ expectedSeqNum = Len(output) + 1
  BY DEF WholeInv
<1>3. ASSUME NEW r \in Receives("client", toClient), ArrivesWhole, rstate \in Active
      PROVE  /\ rstate = "FNAME_RECV" => r.packet.flag # "DATA"
             /\ IsData(r.packet) => r.packet.seqNum <= expectedSeqNum
             /\ IsData(r.packet) /\ r.packet.seqNum = expectedSeqNum
                  => r.packet.flag = "DATA"
             /\ r.packet.flag = "DATA" => r.packet.seqNum = expectedSeqNum
  <2>1. r.packet.seqNum \in Nat /\ expectedSeqNum \in Nat
    BY RcopyReceives DEF Down, IInv, RcopyInv
  <2>2. /\ r.packet.flag = "DATA" => r.packet.seqNum = expectedSeqNum
        /\ r.packet.flag \in Repeats => r.packet.seqNum < expectedSeqNum
        /\ rstate = "FNAME_RECV" => r.packet.flag \in {"FNAME_OK", "FNAME_BAD"}
    BY <1>3, HeadOfWhole
  <2>3. IsData(r.packet) => r.packet.flag = "DATA" \/ r.packet.flag \in Repeats
    BY DEF IsData, Repeats
  <2> QED  BY <2>1, <2>2, <2>3
<1>4. CASE FnameAnswer
  <2>1. PICK r \in Receives("client", toClient) : toClient' = r.rest
    BY <1>4 DEF FnameAnswer, Take
  <2>2. /\ UNCHANGED <<pb, expectedSeqNum, output, gotEof, sockets>>
        /\ rstate = "FNAME_RECV" /\ rstate' = "FILE_OK"
    BY <1>4 DEF FnameAnswer, Take
  <2> QED  BY <1>1, <1>2, <1>3, <2>1, <2>2, RcopyTakesWhole
<1>5. CASE FnameRefused
  BY <1>1, <1>2, <1>5, RcopyLeavesWhole DEF FnameRefused, Leave
<1>6. CASE FnameTimeout \/ FileOpenFails \/ RecvTimeout
  BY <1>1, <1>2, <1>6, RcopyLeavesWhole
  DEF FnameTimeout, FileOpenFails, RecvTimeout, Leave
<1>7. CASE FileOpened
  <2>1. pb' \in {pb, FreshBuffer}  BY <1>7 DEF FileOpened, InitPacketBuffer
  <2>2. pb'.storedPackets \in {0, pb.storedPackets}  BY <2>1 DEF FreshBuffer
  <2>3. /\ UNCHANGED <<expectedSeqNum, output, gotEof, toClient, sockets>>
        /\ rstate = "FILE_OK" /\ rstate' = "RECV_DATA"
    BY <1>7 DEF FileOpened, channelVars
  <2>4. ArrivesWhole' <=> ArrivesWhole  BY <1>1 DEF ArrivesWhole
  <2> QED  BY <1>1, <2>2, <2>3, <2>4 DEF WholeInv, Greeted, serverVars
<1>8. CASE RecvIgnored
  <2>1. PICK r \in Receives("client", toClient) :
          /\ \/ r.packet.flag = "CRC_ERROR"
             \/ IsData(r.packet) /\ r.packet.seqNum < expectedSeqNum
          /\ toClient' = r.rest
    BY <1>8 DEF RecvIgnored, Take
  <2>2. /\ UNCHANGED <<pb, expectedSeqNum, output, gotEof, sockets, rstate>>
        /\ rstate = "RECV_DATA"
    BY <1>8 DEF RecvIgnored, Take, rcopyVars
  <2>3. ArrivesWhole => r.packet.flag # "DATA"
    <3>1. expectedSeqNum \in Nat  BY DEF IInv, RcopyInv
    <3> QED  BY <1>3, <2>1, <2>2, <3>1
  <2> QED  BY <1>1, <1>2, <2>1, <2>2, <2>3, RcopyTakesWhole
<1>9. CASE RecvEof
  <2>1. NullBuffer.storedPackets = 0  BY DEF NullBuffer
  <2> QED
    BY <1>1, <1>9, <2>1, RcopyLeavesWhole DEF RecvEof, Leave, FreePacketBuffer
<1>10. CASE RecvUnbufferable \/ RecvWriteFails \/ RecvUnexpected
  BY <1>1, <1>2, <1>10, RcopyLeavesWhole
  DEF RecvUnbufferable, RecvWriteFails, RecvUnexpected, Leave
<1>11. CASE RecvAhead
  <2>1. PICK r \in Receives("client", toClient) :
          /\ IsData(r.packet) /\ r.packet.seqNum > expectedSeqNum
          /\ toClient' = r.rest
    BY <1>11 DEF RecvAhead, Take
  <2>2. /\ UNCHANGED <<expectedSeqNum, output, gotEof, sockets, rstate>>
        /\ rstate = "RECV_DATA"
    BY <1>11 DEF RecvAhead, Take
  <2>3. ~ArrivesWhole
    <3>1. r.packet.seqNum \in Nat /\ expectedSeqNum \in Nat
      BY RcopyReceives DEF Down, IInv, RcopyInv
    <3> QED  BY <1>3, <2>1, <2>2, <3>1
  <2> QED  BY <1>1, <2>1, <2>2, <2>3, RcopyTakesWhole
<1>12. CASE RecvInOrder
  <2>1. PICK r \in Receives("client", toClient) :
          /\ IsData(r.packet) /\ r.packet.seqNum = expectedSeqNum
          /\ output' = Append(output, r.packet.data)
          /\ toClient' = r.rest
    BY <1>12 DEF RecvInOrder, Take
  <2>2. /\ expectedSeqNum' = expectedSeqNum + 1 /\ rstate = "RECV_DATA"
        /\ UNCHANGED <<pb, gotEof, sockets, rstate>>
    BY <1>12 DEF RecvInOrder, Take
  <2>3. Len(output') = Len(output) + 1
    BY <2>1 DEF TInv, RcopyTyped
  <2>4. ArrivesWhole => r.packet.flag = "DATA"  BY <1>3, <2>1, <2>2
  <2> QED  BY <1>1, <1>2, <2>1, <2>2, <2>3, <2>4, RcopyTakesWhole
<1>13. CASE RecvFlush
  <2>1. PICK r \in Receives("client", toClient) : toClient' = r.rest
    BY <1>13 DEF RecvFlush, Take
  <2>2. UNCHANGED <<gotEof, sockets, rstate>> /\ rstate = "RECV_DATA"
    BY <1>13 DEF RecvFlush, Take
  <2>3. ~ArrivesWhole  BY <1>2, <1>13 DEF RecvFlush, NeedFlush
  <2> QED  BY <1>1, <2>1, <2>2, <2>3, RcopyTakesWhole
<1> QED
  BY <1>4, <1>5, <1>6, <1>7, <1>8, <1>9, <1>10, <1>11, <1>12, <1>13
  DEF Rcopy, RcopyStep, RcopyTimeout

\* The empty channel is in sequence.
LEMMA InitWhole == Init => WholeInv
<1> SUFFICES ASSUME Init PROVE WholeInv  OBVIOUS
<1>1. /\ toClient = << >> /\ pb = NullBuffer /\ rstate = "FNAME_RECV"
      /\ expectedSeqNum = 1 /\ output = << >> /\ gotEof = FALSE /\ eofSent = FALSE
      /\ filePos = 0 /\ sockets = Ends /\ sstate = "FILENAME"
  BY DEF Init, ChannelInit, RcopyInit, ServerInit
<1>2. pb.storedPackets = 0  BY <1>1 DEF NullBuffer
<1>3. InSequence(toClient, expectedSeqNum, filePos)
  <2>1. DOMAIN toClient = {} /\ Ascending(toClient)  BY <1>1, EmptyQueue
  <2>2. expectedSeqNum <= filePos + 1 /\ \A n \in expectedSeqNum .. filePos : FALSE
    BY <1>1
  <2> QED  BY <2>1, <2>2 DEF InSequence
<1>4. Greeted  BY <1>1 DEF Greeted, Silent
<1>5. expectedSeqNum = Len(output) + 1  BY <1>1
<1> QED  BY <1>1, <1>2, <1>3, <1>4, <1>5 DEF WholeInv, Ends

\* A transfer whose packets towards rcopy arrive is a file copy: each step of the
\* two processes is a step of FileCopy under the mapping of Session, or none.
LEMMA StepCopies ==
  ASSUME IInv, TInv, WholeInv, [Next]_vars
  PROVE  [Copy!Next]_(Copy!vars)
<1> DEFINE file == IF ArrivesWhole THEN output ELSE << >>
           state == CASE ArrivesWhole /\ gotEof -> "done"
                      [] ArrivesWhole /\ ~gotEof /\ rstate \in {"START", "DONE"} -> "failed"
                      [] OTHER -> "copying"
<1>1. ArrivesWhole' <=> ArrivesWhole
  BY DEF Next, Server, Rcopy, Finished, vars, ArrivesWhole
<1>2. CASE ~ArrivesWhole
  <2>1. file = << >> /\ file' = << >> /\ state = "copying" /\ state' = "copying"
    BY <1>1, <1>2
  <2> QED  BY <2>1 DEF Copy!vars
<1>3. CASE UNCHANGED <<rcopyVars, env>>
  BY <1>3 DEF Copy!vars, rcopyVars, ArrivesWhole
<1>4. ASSUME ArrivesWhole, Rcopy
      PROVE  Copy!Next \/ UNCHANGED Copy!vars
  <2>1. file = output /\ file' = output'  BY <1>1, <1>4
  <2>2. gotEof => rstate = "DONE"  BY DEF WholeInv
  <2>3. CASE rstate' \in Active /\ rstate \in Active /\ gotEof' = gotEof
             /\ output' = output
    <3>1. ~gotEof  BY <2>2, <2>3 DEF Active
    <3>2. state = "copying" /\ state' = "copying"
      BY <1>1, <1>4, <2>3, <3>1 DEF Active
    <3> QED  BY <2>1, <2>3, <3>2 DEF Copy!vars
  <2>4. CASE rstate' \in {"START", "DONE"} /\ rstate \in Active /\ gotEof' = gotEof
             /\ output' = output
    <3>1. ~gotEof /\ ~gotEof'  BY <2>2, <2>4 DEF Active
    <3>2. state = "copying" /\ state' = "failed"
      BY <1>1, <1>4, <2>4, <3>1 DEF Active
    <3>3. Copy!Fail  BY <2>1, <2>4, <3>2 DEF Copy!Fail
    <3> QED  BY <3>3 DEF Copy!Next
  <2>5. CASE RecvEof
    <3>1. PICK r \in Receives("client", toClient) : r.packet.flag = "END_OF_FILE"
      BY <2>5 DEF RecvEof
    <3>2. rstate = "RECV_DATA" /\ gotEof' = TRUE /\ output' = output
      BY <2>5 DEF RecvEof
    <3>3. expectedSeqNum = NumPackets + 1
      BY <1>4, <3>1, <3>2, HeadOfWhole DEF Active
    <3>4. Len(output) = NumPackets
      <4>1. expectedSeqNum = Len(output) + 1  BY <1>4 DEF WholeInv
      <4>2. Len(output) \in Nat  BY DEF TInv, RcopyTyped
      <4> QED  BY <3>3, <4>1, <4>2, ServerAssumption
    <3>5. ~gotEof  BY <2>2, <3>2
    <3>6. state = "copying" /\ state' = "done"
      BY <1>1, <1>4, <3>2, <3>5
    <3>7. Copy!Finish  BY <2>1, <3>2, <3>4, <3>6 DEF Copy!Finish
    <3> QED  BY <3>7 DEF Copy!Next
  <2>6. CASE RecvInOrder
    <3>1. PICK r \in Receives("client", toClient) :
            /\ IsData(r.packet) /\ r.packet.seqNum = expectedSeqNum
            /\ output' = Append(output, r.packet.data)
      BY <2>6 DEF RecvInOrder
    <3>2. rstate = "RECV_DATA" /\ rstate' = rstate /\ gotEof' = gotEof
      BY <2>6 DEF RecvInOrder
    <3>3. r.packet \in Down /\ r.packet \in Carrying
      BY RcopyReceives, ReceiveKeeps DEF TInv, LinkTyped
    <3>4. r.packet.data = expectedSeqNum /\ r.packet.data \in Chunks
      BY <3>1, <3>3 DEF Down, Carrying, IsData
    <3>5. expectedSeqNum = Len(output) + 1 /\ Len(output) \in Nat
      BY <1>4 DEF WholeInv, TInv, RcopyTyped
    <3>6. Len(output) < NumPackets  BY <3>4, <3>5, ServerAssumption DEF Chunks
    <3>7. output' = Append(output, Len(output) + 1)  BY <3>1, <3>4, <3>5
    <3>8. ~gotEof  BY <2>2, <3>2
    <3>9. state = "copying" /\ state' = "copying"
      BY <1>1, <1>4, <3>2, <3>8
    <3>10. Copy!Deliver  BY <2>1, <3>6, <3>7, <3>9 DEF Copy!Deliver
    <3> QED  BY <3>10 DEF Copy!Next
  <2>7. ~RecvFlush
    BY <1>4 DEF RecvFlush, NeedFlush, WholeInv
  <2> QED
    BY <1>4, <2>3, <2>4, <2>5, <2>6, <2>7
    DEF Rcopy, RcopyStep, RcopyTimeout, FnameAnswer, FnameRefused, FnameTimeout,
        FileOpened, FileOpenFails, RecvTimeout, RecvIgnored, RecvAhead,
        RecvUnbufferable, RecvWriteFails, RecvUnexpected, Leave, Active, rcopyVars
<1> QED
  BY <1>2, <1>3, <1>4 DEF Next, Server, Finished, vars

\* While the packets towards rcopy arrive, the transfer implements a file copy:
\* chunks are written in order, each once, and "File done" means the whole file.
THEOREM TransferCopies == Spec => ImplementsFileCopy
<1>1. Init => Copy!Init
  BY DEF Init, RcopyInit, Copy!Init
<1>2. IInv /\ TInv /\ [Next]_vars => TInv'  BY TypesInductive
<1>3. IInv /\ TInv /\ WholeInv /\ [Next]_vars => WholeInv'
  <2> SUFFICES ASSUME IInv, TInv, WholeInv, [Next]_vars PROVE WholeInv'  OBVIOUS
  <2>1. CASE UNCHANGED vars
    BY <2>1 DEF vars, serverVars, rcopyVars, channelVars, WholeInv, Greeted,
       ArrivesWhole
  <2> QED  BY <2>1, ServerKeepsWhole, RcopyKeepsWhole DEF Next, Finished
<1>4. IInv /\ TInv /\ WholeInv /\ [Next]_vars => [Copy!Next]_(Copy!vars)
  BY StepCopies
<1> QED
  BY InitInv, NextInv, InitTypes, InitWhole, <1>1, <1>2, <1>3, <1>4, PTL
  DEF Spec, ImplementsFileCopy, Copy!Spec
=============================================================================
