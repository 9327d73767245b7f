----------------------------- MODULE ServerFSM ------------------------------
(***************************************************************************)
(* One server child: clientControl of rcopy-program3/server.c, started by  *)
(* the FNAME packet of one rcopy.  sstate is the variable `state' of its   *)
(* loop; each action is one call of a state function, with the selectCall, *)
(* recvBuff and sendBuff calls it makes.                                   *)
(*                                                                         *)
(* The source file is NumPackets chunks of buffSize bytes.                 *)
(***************************************************************************)
EXTENDS Window, Channel

CONSTANTS NumPackets,   \* chunks in the source file
          MaxTries      \* MAX_TRIES of srej.h

ASSUME ServerAssumption ==
  /\ NumPackets \in Nat
  /\ MaxTries \in Nat

VARIABLES sstate,       \* state of the loop; EXITED after cleanup
          win,          \* window.c's global `win'
          nextToSend,   \* next sequence number for sendPacket
          eofSent,      \* END_OF_FILE has been sent
          retryCnt,     \* timeouts so far; never reset
          filePos       \* chunks read from dataFile

serverVars == <<sstate, win, nextToSend, eofSent, retryCnt, filePos>>

ServerStates == {"FILENAME", "SEND_PACKET", "HANDLE_FEEDBACK", "WAITER",
                 "TIMEOUT_RESEND", "WAIT_EOF_ACK", "TIMEOUT_EOF_RESEND",
                 "DONE", "EXITED"}

ServerType ==
  /\ sstate \in ServerStates
  /\ win \in WindowType(1 .. NumPackets)
  /\ nextToSend \in Nat
  /\ eofSent \in BOOLEAN
  /\ retryCnt \in 0 .. MaxTries
  /\ filePos \in 0 .. NumPackets

ServerInit ==
  /\ sstate = "FILENAME"
  /\ win = NullWindow
  /\ nextToSend = 1
  /\ eofSent = FALSE
  /\ retryCnt = 0
  /\ filePos = 0

-----------------------------------------------------------------------------
(***************************************************************************)
(* filename                                                                *)
(***************************************************************************)

\* The length test "this should never happen": no answer at all.
FilenameTooLong ==
  /\ sstate = "FILENAME"
  /\ "too_long" \in env.requests
  /\ sstate' = "DONE"
  /\ UNCHANGED <<win, nextToSend, eofSent, retryCnt, filePos, channelVars>>

FilenameMissing ==
  /\ sstate = "FILENAME"
  /\ "missing" \in env.requests
  /\ TransmitToClient({Packet("FNAME_BAD", 0, Blank)}, 0)
  /\ sstate' = "DONE"
  /\ UNCHANGED <<win, nextToSend, eofSent, retryCnt, filePos,
                 toServer, sockets>>

FilenameFound ==
  /\ sstate = "FILENAME"
  /\ "found" \in env.requests
  /\ TransmitToClient({Packet("FNAME_OK", 0, Blank)}, 0)
  /\ win' = InitWindow(win)
  /\ sstate' = "SEND_PACKET"
  /\ UNCHANGED <<nextToSend, eofSent, retryCnt, filePos, toServer, sockets>>

-----------------------------------------------------------------------------
(***************************************************************************)
(* SEND_PACKET: the test of eofSent in clientControl, then sendPacket      *)
(***************************************************************************)

SendAfterEof ==
  /\ sstate = "SEND_PACKET"
  /\ eofSent
  /\ sstate' = "WAIT_EOF_ACK"
  /\ UNCHANGED <<win, nextToSend, eofSent, retryCnt, filePos, channelVars>>

SendClosed ==
  /\ sstate = "SEND_PACKET"
  /\ ~eofSent
  /\ ~WindowOpen(win)
  /\ sstate' = "WAITER"
  /\ UNCHANGED <<win, nextToSend, eofSent, retryCnt, filePos, channelVars>>

\* read returns 0
SendEof ==
  /\ sstate = "SEND_PACKET"
  /\ ~eofSent
  /\ WindowOpen(win)
  /\ filePos = NumPackets
  /\ TransmitToClient({Packet("END_OF_FILE", nextToSend, Blank)}, 0)
  /\ nextToSend' = nextToSend + 1
  /\ eofSent' = TRUE
  /\ sstate' = "WAIT_EOF_ACK"
  /\ UNCHANGED <<win, retryCnt, filePos, toServer, sockets>>

\* read returns -1
SendReadError ==
  /\ sstate = "SEND_PACKET"
  /\ ~eofSent
  /\ WindowOpen(win)
  /\ env.ioErrors
  /\ sstate' = "DONE"
  /\ UNCHANGED <<win, nextToSend, eofSent, retryCnt, filePos, channelVars>>

\* The result of addPane is ignored: the chunk is sent whether or not a pane
\* holds it.
SendData ==
  /\ sstate = "SEND_PACKET"
  /\ ~eofSent
  /\ WindowOpen(win)
  /\ filePos < NumPackets
  /\ filePos' = filePos + 1
  /\ win' = AddPane(win, filePos', nextToSend)
  /\ TransmitToClient({Packet("DATA", nextToSend, filePos')}, 0)
  /\ nextToSend' = nextToSend + 1
  /\ sstate' = "WAITER"
  /\ UNCHANGED <<eofSent, retryCnt, toServer, sockets>>

-----------------------------------------------------------------------------
(***************************************************************************)
(* waiter: selectCall with a second's patience if the window is closed and *)
(* none if it is open.  A packet still in flight does not wake it.         *)
(***************************************************************************)

WaiterFeedback ==
  /\ sstate = "WAITER"
  /\ toServer # <<>>
  /\ sstate' = "HANDLE_FEEDBACK"
  /\ UNCHANGED <<win, nextToSend, eofSent, retryCnt, filePos, channelVars>>

WaiterTimeout ==
  /\ sstate = "WAITER"
  /\ ~WindowOpen(win)
  /\ sstate' = "TIMEOUT_RESEND"
  /\ UNCHANGED <<win, nextToSend, eofSent, retryCnt, filePos, channelVars>>

WaiterNothing ==
  /\ sstate = "WAITER"
  /\ WindowOpen(win)
  /\ sstate' = "SEND_PACKET"
  /\ UNCHANGED <<win, nextToSend, eofSent, retryCnt, filePos, channelVars>>

-----------------------------------------------------------------------------
(***************************************************************************)
(* handleFeedback and waitEofAck: one packet from rcopy.                   *)
(***************************************************************************)

\* The packets resendPane(flag, seq) sends.
Resent(flag, seq) == {Packet(flag, seq, p) : p \in ResendPane(win, seq)}

\* What both do with the packet's flag: slide on ACK_RR, resend on SREJ.
ActOnFeedback(m, cost) ==
  /\ win' = IF m.flag = "ACK_RR" THEN SlideWindow(win, m.seqNum + 1) ELSE win
  /\ TransmitToClient(IF m.flag = "SREJ" THEN Resent("SREJ_DATA", m.seqNum)
                      ELSE {}, cost)

AfterFeedback(flag) ==
  CASE flag = "CRC_ERROR"          -> "WAITER"
    [] flag \in {"ACK_RR", "SREJ"} -> "SEND_PACKET"
    [] OTHER                       -> "DONE"

\* Faulty variant: the number after the acknowledged one is sent next (the code
\* kept as a comment in handleFeedback).
MutHandleFeedbackOld ==
  /\ sstate = "HANDLE_FEEDBACK"
  /\ \E r \in Receives("server", toServer) :
       /\ toServer' = r.rest
       /\ ActOnFeedback(r.packet, r.cost)
       /\ nextToSend' = IF r.packet.flag = "ACK_RR" THEN r.packet.seqNum + 1
                        ELSE nextToSend
       /\ sstate' = AfterFeedback(r.packet.flag)
  /\ UNCHANGED <<eofSent, retryCnt, filePos, sockets>>

HandleFeedback ==
  /\ sstate = "HANDLE_FEEDBACK"
  /\ \E r \in Receives("server", toServer) :
       /\ toServer' = r.rest
       /\ ActOnFeedback(r.packet, r.cost)
       /\ nextToSend' = IF r.packet.flag = "ACK_RR" THEN win'.curr ELSE nextToSend
       /\ sstate' = AfterFeedback(r.packet.flag)
  /\ UNCHANGED <<eofSent, retryCnt, filePos, sockets>>

\* Faulty variant: after a late ACK_RR wait as if there were data to send.
MutAfterEofWaiter(flag) ==
  CASE flag = "EOF_ACK" -> "DONE"
    [] flag = "ACK_RR"  -> "WAITER"
    [] OTHER            -> "WAIT_EOF_ACK"

\* Faulty variant: any acknowledgement ends the transfer.
MutAfterEofDone(flag) ==
  IF flag \in {"EOF_ACK", "ACK_RR"} THEN "DONE" ELSE "WAIT_EOF_ACK"

AfterEofFeedback(flag) ==
  CASE flag = "EOF_ACK" -> "DONE"
    [] flag = "ACK_RR"  -> "SEND_PACKET"
    [] OTHER            -> "WAIT_EOF_ACK"

WaitEofAck ==
  /\ sstate = "WAIT_EOF_ACK"
  /\ \E r \in Receives("server", toServer) :
       /\ toServer' = r.rest
       /\ ActOnFeedback(r.packet, r.cost)
       /\ sstate' = AfterEofFeedback(r.packet.flag)
  /\ UNCHANGED <<nextToSend, eofSent, retryCnt, filePos, sockets>>

EofTimeout ==
  /\ sstate = "WAIT_EOF_ACK"
  /\ sstate' = "TIMEOUT_EOF_RESEND"
  /\ UNCHANGED <<win, nextToSend, eofSent, retryCnt, filePos, channelVars>>

-----------------------------------------------------------------------------
(***************************************************************************)
(* timeoutResend and timeoutEofResend share one retry counter.             *)
(***************************************************************************)

GiveUp ==
  /\ sstate \in {"TIMEOUT_RESEND", "TIMEOUT_EOF_RESEND"}
  /\ retryCnt >= MaxTries
  /\ sstate' = "DONE"
  /\ UNCHANGED <<win, nextToSend, eofSent, retryCnt, filePos, channelVars>>

TimeoutResend ==
  /\ sstate = "TIMEOUT_RESEND"
  /\ retryCnt < MaxTries
  /\ TransmitToClient(Resent("TIMEOUT_DATA", win.lower), 0)
  /\ retryCnt' = retryCnt + 1
  /\ sstate' = "WAITER"
  /\ UNCHANGED <<win, nextToSend, eofSent, filePos, toServer, sockets>>

\* Faulty variant: one retry too many.
MutEofResendExtra ==
  /\ sstate = "TIMEOUT_EOF_RESEND"
  /\ retryCnt <= MaxTries
  /\ TransmitToClient({Packet("END_OF_FILE", win.lower, Blank)}, 0)
  /\ retryCnt' = retryCnt + 1
  /\ sstate' = "WAIT_EOF_ACK"
  /\ UNCHANGED <<win, nextToSend, eofSent, filePos, toServer, sockets>>

\* Faulty variant: the retry is not counted.
MutEofResendForever ==
  /\ sstate = "TIMEOUT_EOF_RESEND"
  /\ TransmitToClient({Packet("END_OF_FILE", win.lower, Blank)}, 0)
  /\ sstate' = "WAIT_EOF_ACK"
  /\ UNCHANGED <<win, nextToSend, eofSent, retryCnt, filePos, toServer, sockets>>

TimeoutEofResend ==
  /\ sstate = "TIMEOUT_EOF_RESEND"
  /\ retryCnt < MaxTries
  /\ TransmitToClient({Packet("END_OF_FILE", win.lower, Blank)}, 0)
  /\ retryCnt' = retryCnt + 1
  /\ sstate' = "WAIT_EOF_ACK"
  /\ UNCHANGED <<win, nextToSend, eofSent, filePos, toServer, sockets>>

\* The DONE state: cleanup, then exit.
Cleanup ==
  /\ sstate = "DONE"
  /\ win' = FreeWindow(win)
  /\ sockets' = sockets \ {"server"}
  /\ toServer' = <<>>
  /\ sstate' = "EXITED"
  /\ UNCHANGED <<nextToSend, eofSent, retryCnt, filePos, toClient, faults>>

-----------------------------------------------------------------------------

\* The steps that do not depend on time passing in selectCall.
ServerStep ==
  \/ FilenameTooLong \/ FilenameMissing \/ FilenameFound
  \/ SendAfterEof \/ SendClosed \/ SendEof \/ SendReadError \/ SendData
  \/ WaiterFeedback \/ WaiterNothing
  \/ HandleFeedback \/ WaitEofAck
  \/ GiveUp \/ TimeoutResend \/ TimeoutEofResend
  \/ Cleanup

\* selectCall waited its second and returned 0.
ServerTimeout == WaiterTimeout \/ EofTimeout
=============================================================================
