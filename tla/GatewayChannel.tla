--------------------------- MODULE GatewayChannel ---------------------------
(***************************************************************************)
(* A worker's channel to the gateway as its sidecar sees it: tool calls of *)
(* the agent run concurrently (mcp_tools.py), take turns on one connection *)
(* (GatewayTransport) and are answered in order by serve_gateway_channel   *)
(* at the other end.  A reply carries no number: it belongs to the call    *)
(* that waits.  Calls may be cancelled, either end may close, and the      *)
(* sidecar ends with whichever of its two sides ends first (sidecar.py).   *)
(***************************************************************************)
EXTENDS Naturals, Sequences

CONSTANTS
  Calls,     \* tool calls of the agent, each made once
  Nobody,    \* the lock is free
  NoReply    \* the None that wakes a call when the transport closes

ASSUME ChannelAssumption == Nobody \notin Calls /\ NoReply \notin Calls

VARIABLES
  channelCall,  \* where each call stands
  channelGot,   \* what each call returned with: a reply, named by its request
  channelLock,  \* holder of GatewayTransport._lock
  requests,     \* frames on their way to the gateway
  serving,      \* the request the gateway works on
  replies,      \* frames on their way back
  queue,        \* _responses, of at most one
  reader,       \* the task _read_responses
  closed,       \* _closed, with the token wiped and the writer closed
  closeDone,    \* _close_task is done
  gone,         \* the gateway has ended the connection
  sidecar       \* where serve_connected_sidecar stands

transportVars == <<channelLock, queue, reader, closed, closeDone>>
wireVars == <<requests, serving, replies, gone>>
channelVars == <<channelCall, channelGot, transportVars, wireVars, sidecar>>

\* _disconnected is set with the first _start_closing.
Disconnected == closed

ChannelWaiting == {c \in Calls : channelCall[c] \in {"lock", "wait"}}

ChannelTypeOK ==
  /\ channelCall \in [Calls -> {"idle", "lock", "wait", "returned", "unavailable", "cancelled"}]
  /\ channelGot \in [Calls -> Calls \cup {NoReply}]
  /\ channelLock \in Calls \cup {Nobody}
  /\ \A c \in Calls : (channelLock = c) = (channelCall[c] = "wait")
  /\ requests \in Seq(Calls) /\ replies \in Seq(Calls)
  /\ serving \in Calls \cup {Nobody}
  /\ queue \in Seq(Calls \cup {NoReply}) /\ Len(queue) <= 1
  /\ reader \in {"read", "over"}
  /\ closed \in BOOLEAN /\ closeDone \in BOOLEAN /\ gone \in BOOLEAN
  /\ sidecar \in {"serve", "cleanup", "close", "ended", "failed"}

ChannelInit ==
  /\ channelCall = [c \in Calls |-> "idle"]
  /\ channelGot = [c \in Calls |-> NoReply]
  /\ channelLock = Nobody
  /\ requests = <<>> /\ serving = Nobody /\ replies = <<>>
  /\ queue = <<>>
  /\ reader = "read"
  /\ closed = FALSE /\ closeDone = FALSE
  /\ gone = FALSE
  /\ sidecar = "serve"

\* _start_closing; `left` is what its caller leaves in the queue.  Only the first call
\* closes the writer and cancels the reader; a waiting call is always woken.
StartClosing(left, byReader) ==
  /\ closed' = TRUE
  /\ reader' = IF closed /\ ~byReader THEN reader ELSE "over"
  /\ queue' = IF left = <<>> THEN <<NoReply>> ELSE left

-----------------------------------------------------------------------------
(* A call                                                                  *)

Ask(c) ==
  /\ channelCall[c] = "idle" /\ sidecar = "serve"
  /\ channelCall' = [channelCall EXCEPT ![c] = "lock"]
  /\ UNCHANGED <<channelGot, transportVars, wireVars, sidecar>>

\* The lock is taken: a closed transport is reported, else the frame is written.
Enter(c) ==
  /\ channelCall[c] = "lock" /\ channelLock = Nobody
  /\ IF closed
     THEN /\ channelCall' = [channelCall EXCEPT ![c] = "unavailable"]
          /\ UNCHANGED <<channelLock, requests>>
     ELSE /\ channelCall' = [channelCall EXCEPT ![c] = "wait"]
          /\ channelLock' = c
          /\ requests' = Append(requests, c)
  /\ UNCHANGED <<channelGot, queue, reader, closed, closeDone, serving, replies, gone, sidecar>>

Return(c) ==
  /\ channelCall[c] = "wait" /\ queue # <<>>
  /\ channelLock' = Nobody
  /\ IF Head(queue) = NoReply
     THEN /\ channelCall' = [channelCall EXCEPT ![c] = "unavailable"]
          /\ UNCHANGED channelGot
          /\ StartClosing(Tail(queue), FALSE)
     ELSE /\ channelCall' = [channelCall EXCEPT ![c] = "returned"]
          /\ channelGot' = [channelGot EXCEPT ![c] = Head(queue)]
          /\ queue' = Tail(queue)
          /\ UNCHANGED <<reader, closed>>
  /\ UNCHANGED <<closeDone, wireVars, sidecar>>

\* Mutant: a cancelled call leaves the connection to the next one.
CancelCallOpen(c) ==
  /\ c \in ChannelWaiting
  /\ channelCall' = [channelCall EXCEPT ![c] = "cancelled"]
  /\ channelLock' = IF channelLock = c THEN Nobody ELSE channelLock
  /\ UNCHANGED <<channelGot, queue, reader, closed, closeDone, wireVars, sidecar>>

\* The agent gives a call up, or the server of the sidecar is cancelled: the reply may
\* still come, so the transport is closed if the request was sent.
CancelCall(c) ==
  /\ c \in ChannelWaiting
  /\ channelCall' = [channelCall EXCEPT ![c] = "cancelled"]
  /\ IF channelCall[c] = "wait"
     THEN channelLock' = Nobody /\ StartClosing(queue, FALSE)
     ELSE UNCHANGED <<channelLock, queue, reader, closed>>
  /\ UNCHANGED <<channelGot, closeDone, wireVars, sidecar>>

-----------------------------------------------------------------------------
(* The connection                                                          *)

\* read_frame and decode_result, then put, which waits while the queue is full
ReadReply ==
  /\ reader = "read" /\ replies # <<>> /\ queue = <<>>
  /\ queue' = <<Head(replies)>> /\ replies' = Tail(replies)
  /\ UNCHANGED <<channelCall, channelGot, channelLock, reader, closed, closeDone, requests, serving, gone,
                 sidecar>>

ReadEnd ==
  /\ reader = "read" /\ gone /\ replies = <<>>
  /\ StartClosing(queue, TRUE)
  /\ UNCHANGED <<channelCall, channelGot, channelLock, closeDone, wireVars, sidecar>>

\* _finish_close
ChannelFinishClose ==
  /\ closed /\ ~closeDone /\ reader = "over"
  /\ closeDone' = TRUE
  /\ UNCHANGED <<channelCall, channelGot, channelLock, queue, reader, closed, wireVars, sidecar>>

\* serve_gateway_channel: one request at a time
ChannelServe ==
  /\ ~gone /\ serving = Nobody /\ requests # <<>>
  /\ serving' = Head(requests) /\ requests' = Tail(requests)
  /\ UNCHANGED <<channelCall, channelGot, transportVars, replies, gone, sidecar>>

WriteResult ==
  /\ ~gone /\ serving # Nobody
  /\ replies' = Append(replies, serving) /\ serving' = Nobody
  /\ UNCHANGED <<channelCall, channelGot, transportVars, requests, gone, sidecar>>

\* The gateway's handler ends: the client closed, a target failed, the broker closes.
Hangup ==
  /\ ~gone
  /\ gone' = TRUE /\ serving' = Nobody /\ requests' = <<>>
  /\ UNCHANGED <<channelCall, channelGot, transportVars, replies, sidecar>>

-----------------------------------------------------------------------------
(* The sidecar                                                             *)

\* The server ends with its input once the calls under way have.
ServerEnds ==
  /\ sidecar = "serve" /\ ChannelWaiting = {}
  /\ sidecar' = "close"
  /\ UNCHANGED <<channelCall, channelGot, transportVars, wireVars>>

\* disconnect_task is done first: SidecarDisconnectedError, and the server is cancelled
SeeDisconnect ==
  /\ sidecar = "serve" /\ Disconnected
  /\ sidecar' = "cleanup"
  /\ UNCHANGED <<channelCall, channelGot, transportVars, wireVars>>

\* _close_sidecar: the cancelled tasks are gathered, then the channel is closed and
\* waited for
CloseSidecar ==
  /\ sidecar \in {"cleanup", "close"} /\ ChannelWaiting = {}
  /\ IF closed
     THEN /\ closeDone
          /\ sidecar' = IF sidecar = "cleanup" THEN "failed" ELSE "ended"
          /\ UNCHANGED <<queue, reader, closed>>
     ELSE /\ StartClosing(queue, FALSE)
          /\ UNCHANGED sidecar
  /\ UNCHANGED <<channelCall, channelGot, channelLock, closeDone, wireVars>>

ChannelNext ==
  \/ \E c \in Calls : Ask(c) \/ Enter(c) \/ Return(c) \/ CancelCall(c)
  \/ ReadReply \/ ReadEnd \/ ChannelFinishClose
  \/ ChannelServe \/ WriteResult \/ Hangup
  \/ ServerEnds \/ SeeDisconnect \/ CloseSidecar

\* Tasks that are ready run.  A target need not answer, an agent need not end.
ChannelFairness ==
  /\ \A c \in Calls : /\ WF_channelVars(Enter(c)) /\ WF_channelVars(Return(c))
                      /\ WF_channelVars(sidecar = "cleanup" /\ CancelCall(c))
  /\ WF_channelVars(ReadReply) /\ WF_channelVars(ReadEnd)
  /\ WF_channelVars(ChannelFinishClose)
  /\ WF_channelVars(SeeDisconnect) /\ WF_channelVars(CloseSidecar)

ChannelSpec == ChannelInit /\ [][ChannelNext]_channelVars /\ ChannelFairness

-----------------------------------------------------------------------------
(* Properties                                                              *)

\* A call that returns has the reply to its own request, though calls before it were
\* given up while the gateway was still working on them.
ReplyIsOwn == \A c \in Calls : channelCall[c] = "returned" => channelGot[c] = c

\* While the transport is open there is one frame at most, in whatever place: on its way
\* to the gateway, worked on there, on its way back or waiting to be taken.  It is that of
\* the call that holds the lock, also after calls before it were given up.
InFlight == requests \o (IF serving = Nobody THEN <<>> ELSE <<serving>>) \o replies \o queue
FramesAreOfTheHolder ==
  ~closed => Len(InFlight) <= 1 /\ \A i \in DOMAIN InFlight : InFlight[i] = channelLock

\* When the sidecar has ended, every call it made has too and its channel is closed.
NothingOutlivesSidecar ==
  sidecar \in {"ended", "failed"} => ChannelWaiting = {} /\ closed /\ closeDone

\* When the gateway hangs up, no call waits for ever and the sidecar ends.
HangupEndsSidecar == gone ~> (ChannelWaiting = {} /\ sidecar \in {"ended", "failed"})
=============================================================================
