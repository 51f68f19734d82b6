------------------------------ MODULE TipFeed ------------------------------
(***************************************************************************)
(* The tip tracker (crates/tips): the WebSocket that feeds it, the REST     *)
(* polling that stands in while the socket is down, and the latest snapshot *)
(* both write.  Of a snapshot only whether it is older than                 *)
(* staleness_threshold is kept: what is_stale answers.                      *)
(***************************************************************************)
VARIABLES
  socket,  \* "open" (run_websocket under way), "polling" or "napping"
  tips     \* "none", "fresh" or "old": the newest snapshot

tipVars == <<socket, tips>>

TipInit == socket = "open" /\ tips = "none"

(* A text from the socket is parsed and stored; one that does not parse is  *)
(* ignored.                                                                 *)
SocketText ==
  /\ socket = "open"
  /\ tips' = "fresh"
  /\ UNCHANGED socket

SocketEnds_NapsFirst ==  \* mutant
  /\ socket = "open"
  /\ socket' = "napping"
  /\ UNCHANGED tips

(* The socket fails or is closed: rest_poll_during polls at once.           *)
SocketEnds ==
  /\ socket = "open"
  /\ socket' = "polling"
  /\ UNCHANGED tips

RestAnswers ==
  /\ socket = "polling"
  /\ socket' = "napping" /\ tips' = "fresh"

RestFails ==
  /\ socket = "polling"
  /\ socket' = "napping"
  /\ UNCHANGED tips

(* The nap ends before the backoff delay does: one more poll; or with it:   *)
(* back to the socket.                                                      *)
PollAgain ==
  /\ socket = "napping"
  /\ socket' = "polling"
  /\ UNCHANGED tips

BackToSocket ==
  /\ socket = "napping"
  /\ socket' = "open"
  /\ UNCHANGED tips

TipsAge ==
  /\ tips = "fresh"
  /\ tips' = "old"
  /\ UNCHANGED socket

TipNext ==
  \/ SocketText \/ SocketEnds \/ RestAnswers \/ RestFails
  \/ PollAgain \/ BackToSocket \/ TipsAge

(* The supervisor runs, and REST polls that never stop do not all fail.     *)
TipFairness ==
  WF_tipVars(RestAnswers \/ RestFails) /\ SF_tipVars(RestAnswers)
  /\ WF_tipVars(PollAgain \/ BackToSocket)
=============================================================================
