---------------------------- MODULE WatchStream ----------------------------
(***************************************************************************)
(* A server-streaming watch of the roothash gRPC service                   *)
(* (roothash/api/grpc.go): the server handler handlerWatchBlocks and the  *)
(* client Client.WatchBlocks with the goroutine it starts.  Four actors    *)
(* run concurrently:                                                       *)
(*   - the backend, which publishes items on the handler's subscription   *)
(*     channel and may close it (environment, not in this repository);    *)
(*   - the server handler goroutine, which forwards the channel into the  *)
(*     stream;                                                             *)
(*   - the client goroutine, which receives from the stream into a fresh  *)
(*     variable and hands a pointer to it to the caller on an unbuffered  *)
(*     channel;                                                            *)
(*   - the caller (consumer), which reads that channel, dereferences the  *)
(*     pointer later, and may Close the subscription at any time.         *)
(* The stream is an ordered link with a flow-control window of Window     *)
(* messages; a transport failure drops what is in flight, fails a later  *)
(* NewStream and RecvMsg, and is not reported by SendMsg or CloseSend of  *)
(* this server-streaming method.  Items are 1, 2, ... in publish order.    *)
(* WatchEvents, WatchExecutorCommitments and beacon WatchEpochs have the   *)
(* same control flow.                                                      *)
(***************************************************************************)
EXTENDS Naturals, Sequences

CONSTANTS
  MaxPublished,          \* items the backend publishes at most
  Window,                \* messages the stream holds before SendMsg blocks
  MaxTransportFailures,  \* transport failures allowed in a behaviour
  BackendCanFail         \* whether Backend.WatchBlocks may return an error

VARIABLES
  published, bch, bclosed, bsub,     \* backend and the handler's subscription
  spc, sitem, sctxDone,              \* server handler
  wire, broken, failures,            \* the stream
  kpc, reqSent, cctxDone,            \* the WatchBlocks call and its context
  cpc, iter, heap, chClosed, endStatus,  \* client goroutine
  cstate, held, received             \* caller

backend == <<published, bch, bclosed, bsub>>
server == <<spc, sitem, sctxDone>>
link == <<wire, broken, failures>>
call == <<kpc, reqSent, cctxDone>>
goroutine == <<cpc, iter, heap, chClosed, endStatus>>
caller == <<cstate, held, received>>
vars == <<backend, server, link, call, goroutine, caller>>

Items == 1..MaxPublished
Buffers == 1..MaxPublished + 1
Trailers == {"eof", "err"}
\* A message of the stream: an item, or the status that ends the stream.
Messages == [t : {"item"} \cup Trailers, v : 0..MaxPublished]
ItemMsg(i) == [t |-> "item", v |-> i]
Trailer(s) == [t |-> s, v |-> 0]

TypeOK ==
  /\ published \in 0..MaxPublished
  /\ bch \in Seq(Items) /\ bclosed \in BOOLEAN
  /\ bsub \in {"none", "open", "closed"}
  /\ spc \in {"idle", "recv", "watch", "loop", "send", "done"}
  /\ sitem \in 0..MaxPublished /\ sctxDone \in BOOLEAN
  /\ wire \in Seq(Messages) /\ Len(wire) <= Window + 1 /\ broken \in BOOLEAN
  /\ failures \in 0..MaxTransportFailures
  /\ kpc \in {"new", "send", "closeSend", "returned", "failed"}
  /\ reqSent \in BOOLEAN /\ cctxDone \in BOOLEAN
  /\ cpc \in {"none", "recv", "send", "exit"}
  /\ iter \in Buffers /\ heap \in [Buffers -> 0..MaxPublished]
  /\ chClosed \in BOOLEAN /\ endStatus \in {"none"} \cup Trailers
  /\ cstate \in {"wait", "reading", "holding", "done", "closed", "error"}
  /\ held \in Buffers /\ received \in Seq(Items)

Init ==
  /\ published = 0 /\ bch = <<>> /\ bclosed = FALSE /\ bsub = "none"
  /\ spc = "idle" /\ sitem = 0 /\ sctxDone = FALSE
  /\ wire = <<>> /\ broken = FALSE /\ failures = 0
  /\ kpc = "new" /\ reqSent = FALSE /\ cctxDone = FALSE
  /\ cpc = "none" /\ iter = 1 /\ heap = [b \in Buffers |-> 0]
  /\ chClosed = FALSE /\ endStatus = "none"
  /\ cstate = "wait" /\ held = 1 /\ received = <<>>

(***************************************************************************)
(* Client.WatchBlocks, up to the return to the caller.  The context       *)
(* subscription is created first.  NewStream on a broken transport fails  *)
(* and the call returns nil, nil, err.  The descriptor (grpc.go 100-105)  *)
(* is server-streaming only, so gRPC's SendMsg returns nil on a broken     *)
(* transport without sending, and CloseSend returns nil: the call returns *)
(* ch and sub, and the goroutine meets the failure in RecvMsg.             *)
(***************************************************************************)
ClientNewStream ==
  /\ kpc = "new" /\ ~broken
  /\ kpc' = "send" /\ spc' = "recv"
  /\ UNCHANGED <<backend, sitem, sctxDone, link, reqSent, cctxDone, goroutine, caller>>

\* SendMsg: the request reaches the server only over a live transport.
ClientSendRequest ==
  /\ kpc = "send"
  /\ kpc' = "closeSend" /\ reqSent' = ~broken
  /\ UNCHANGED <<backend, server, link, cctxDone, goroutine, caller>>

\* CloseSend returns nil: the goroutine starts and ch, sub are returned.
ClientCloseSend ==
  /\ kpc = "closeSend"
  /\ kpc' = "returned" /\ cpc' = "recv" /\ cstate' = "reading"
  /\ UNCHANGED <<backend, server, link, reqSent, cctxDone, iter, heap,
                 chClosed, endStatus, held, received>>

\* NewStream fails: the call returns nil, nil, err.
ClientSetupFails ==
  /\ kpc = "new" /\ broken
  /\ kpc' = "failed" /\ cstate' = "error"
  /\ UNCHANGED <<backend, server, link, reqSent, cctxDone, goroutine, held, received>>

(***************************************************************************)
(* The client goroutine.  BufOf(i) is the variable the i-th iteration     *)
(* receives into: `var blk` is declared inside the loop, so each          *)
(* iteration has its own.                                                  *)
(***************************************************************************)
\* Mutant: `var blk` declared once, before the loop.
BufOfShared(i) == 1

BufOf(i) == i

\* defer close(ch): the goroutine returns and the caller's channel closes.
ClientExit == cpc' = "exit" /\ chClosed' = TRUE

\* stream.RecvMsg(&blk) returns a message.  After cancellation a buffered
\* message and the cancellation error race, so either may be returned.
ClientRecvItem ==
  /\ cpc = "recv" /\ ~broken
  /\ wire # <<>> /\ Head(wire).t = "item"
  /\ heap' = [heap EXCEPT ![BufOf(iter)] = Head(wire).v]
  /\ wire' = Tail(wire) /\ cpc' = "send"
  /\ UNCHANGED <<backend, server, broken, failures, call, iter, chClosed, endStatus, caller>>

\* stream.RecvMsg returns io.EOF (the handler returned nil) or an error
\* (the handler returned an error, the context was cancelled, or the
\* transport broke): the goroutine returns.
ClientRecvEnd ==
  /\ cpc = "recv"
  /\ \/ ~broken /\ wire # <<>> /\ Head(wire).t = "eof" /\ endStatus' = "eof"
     \/ (broken \/ cctxDone \/ (wire # <<>> /\ Head(wire).t = "err")) /\ endStatus' = "err"
  /\ ClientExit
  /\ UNCHANGED <<backend, server, link, call, iter, heap, caller>>

\* Mutant: a plain `ch <- &blk`, without the ctx.Done() case.
ClientSendBlocking ==
  /\ cpc = "send" /\ cstate = "reading"
  /\ held' = BufOf(iter) /\ cstate' = "holding"
  /\ cpc' = "recv" /\ iter' = iter + 1
  /\ UNCHANGED <<backend, server, link, call, heap, chClosed, endStatus, received>>

\* select { case ch <- &blk: case <-ctx.Done(): return }: the unbuffered
\* send meets a caller waiting on ch, or the subscription was closed.
ClientSend ==
  /\ cpc = "send"
  /\ \/ /\ cstate = "reading"
        /\ held' = BufOf(iter) /\ cstate' = "holding"
        /\ cpc' = "recv" /\ iter' = iter + 1
        /\ UNCHANGED <<chClosed, endStatus>>
     \/ /\ cctxDone /\ ClientExit
        /\ UNCHANGED <<iter, endStatus, cstate, held>>
  /\ UNCHANGED <<backend, server, link, call, heap, received>>

(***************************************************************************)
(* handlerWatchBlocks.  Return(status) is the return of the handler: the  *)
(* deferred sub.Close() releases the backend subscription if it was       *)
(* taken, and gRPC ends the stream with the status, which a broken        *)
(* transport does not deliver.                                             *)
(***************************************************************************)
Return(status) ==
  /\ spc' = "done"
  /\ wire' = IF broken THEN wire ELSE Append(wire, Trailer(status))
  /\ bsub' = IF bsub = "open" THEN "closed" ELSE bsub

\* stream.RecvMsg(&runtimeID): the request, or the error of a stream that
\* ended without one.
ServerRecvRequest ==
  /\ spc = "recv"
  /\ \/ reqSent /\ spc' = "watch" /\ UNCHANGED <<wire, bsub>>
     \/ ~reqSent /\ sctxDone /\ Return("err")
  /\ UNCHANGED <<published, bch, bclosed, sitem, sctxDone, broken, failures,
                 call, goroutine, caller>>

\* Backend.WatchBlocks: a subscription, or an error returned at once.
ServerWatch ==
  /\ spc = "watch"
  /\ \/ bsub' = "open" /\ spc' = "loop" /\ UNCHANGED wire
     \/ BackendCanFail /\ Return("err")
  /\ UNCHANGED <<published, bch, bclosed, sitem, sctxDone, broken, failures,
                 call, goroutine, caller>>

\* The select of the loop: an item, the closed channel, or ctx.Done().
ServerForward ==
  /\ spc = "loop" /\ bch # <<>>
  /\ sitem' = Head(bch) /\ bch' = Tail(bch) /\ spc' = "send"
  /\ UNCHANGED <<published, bclosed, bsub, sctxDone, link, call, goroutine, caller>>

\* Mutant: the handler returns once the subscription is closed, without
\* first draining the items still buffered in its channel.
ServerChanClosedUndrained ==
  /\ spc = "loop" /\ bclosed
  /\ Return("eof")
  /\ UNCHANGED <<published, bch, bclosed, sitem, sctxDone, broken, failures,
                 call, goroutine, caller>>

ServerChanClosed ==
  /\ spc = "loop" /\ bch = <<>> /\ bclosed
  /\ Return("eof")
  /\ UNCHANGED <<published, bch, bclosed, sitem, sctxDone, broken, failures,
                 call, goroutine, caller>>

ServerCtxDone ==
  /\ spc = "loop" /\ sctxDone
  /\ Return("err")
  /\ UNCHANGED <<published, bch, bclosed, sitem, sctxDone, broken, failures,
                 call, goroutine, caller>>

\* Mutant: SendMsg that queues one message past a full window.
ServerSendPastWindow ==
  /\ spc = "send"
  /\ \/ /\ ~broken /\ Len(wire) <= Window
        /\ wire' = Append(wire, ItemMsg(sitem)) /\ spc' = "loop"
        /\ UNCHANGED bsub
     \/ sctxDone /\ Return("err")
  /\ UNCHANGED <<published, bch, bclosed, sitem, sctxDone, broken, failures,
                 call, goroutine, caller>>

\* stream.SendMsg(blk): queued while the window has room, an error once
\* the stream's context is done.
ServerSend ==
  /\ spc = "send"
  /\ \/ /\ ~broken /\ Len(wire) < Window
        /\ wire' = Append(wire, ItemMsg(sitem)) /\ spc' = "loop"
        /\ UNCHANGED bsub
     \/ sctxDone /\ Return("err")
  /\ UNCHANGED <<published, bch, bclosed, sitem, sctxDone, broken, failures,
                 call, goroutine, caller>>

ServerStep ==
  ServerRecvRequest \/ ServerWatch \/ ServerForward \/ ServerChanClosed
    \/ ServerCtxDone \/ ServerSend

ClientCall == ClientNewStream \/ ClientSendRequest \/ ClientCloseSend \/ ClientSetupFails

ClientGoroutine == ClientRecvItem \/ ClientRecvEnd \/ ClientSend

(***************************************************************************)
(* The environment: the backend's pubsub, the propagation of a client     *)
(* cancellation to the server's stream context, and transport failure.   *)
(***************************************************************************)
Publish ==
  /\ bsub = "open" /\ ~bclosed /\ published < MaxPublished
  /\ published' = published + 1 /\ bch' = Append(bch, published + 1)
  /\ UNCHANGED <<bclosed, bsub, server, link, call, goroutine, caller>>

BackendClose ==
  /\ bsub = "open" /\ ~bclosed
  /\ bclosed' = TRUE
  /\ UNCHANGED <<published, bch, bsub, server, link, call, goroutine, caller>>

PropagateCancel ==
  /\ cctxDone /\ ~sctxDone
  /\ sctxDone' = TRUE
  /\ UNCHANGED <<backend, spc, sitem, link, call, goroutine, caller>>

\* The connection fails: what is in flight is lost and the server's
\* stream context is done.
TransportBreak ==
  /\ ~broken /\ failures < MaxTransportFailures
  /\ broken' = TRUE /\ failures' = failures + 1
  /\ wire' = <<>> /\ sctxDone' = TRUE
  /\ UNCHANGED <<backend, spc, sitem, call, goroutine, caller>>

(***************************************************************************)
(* The caller of WatchBlocks, written the way its users in oasis-core     *)
(* are: `defer sub.Close()` and a loop that reads ch until it is closed   *)
(* or its own context ends.                                                *)
(***************************************************************************)
CallerProcess ==
  /\ cstate = "holding"
  /\ received' = Append(received, heap[held]) /\ cstate' = "reading"
  /\ UNCHANGED <<backend, server, link, call, goroutine, held>>

CallerSeesClose ==
  /\ cstate = "reading" /\ chClosed
  /\ cstate' = "done" /\ cctxDone' = TRUE
  /\ UNCHANGED <<backend, server, link, kpc, reqSent, goroutine, held, received>>

CallerClose ==
  /\ cstate = "reading"
  /\ cstate' = "closed" /\ cctxDone' = TRUE
  /\ UNCHANGED <<backend, server, link, kpc, reqSent, goroutine, held, received>>

\* Every goroutine has returned and the caller no longer reads.
Finished ==
  /\ kpc \in {"returned", "failed"}
  /\ cpc \in {"none", "exit"} /\ spc \in {"idle", "done"}
  /\ bsub # "open" /\ cstate \in {"done", "closed", "error"}

Terminating == Finished /\ UNCHANGED vars

Next ==
  \/ ClientCall \/ ClientGoroutine \/ ServerStep
  \/ Publish \/ BackendClose \/ PropagateCancel \/ TransportBreak
  \/ CallerProcess \/ CallerSeesClose \/ CallerClose
  \/ Terminating

\* Goroutines that can run are scheduled, gRPC delivers the cancellation,
\* and the caller keeps reading ch until it chooses to Close.  Publishing,
\* closing and failures have no fairness.
Spec ==
  /\ Init /\ [][Next]_vars
  /\ WF_vars(ClientCall) /\ WF_vars(ClientGoroutine) /\ WF_vars(ServerStep)
  /\ WF_vars(PropagateCancel)
  /\ WF_vars(CallerProcess) /\ WF_vars(CallerSeesClose)

----------------------------------------------------------------------------
(***************************************************************************)
(* Properties.                                                             *)
(***************************************************************************)

\* What the caller has read through ch is the backend's items in publish
\* order, with none lost, repeated or overwritten: across the handler's
\* forwarding, the stream, the client goroutine's receive buffers and the
\* pointer the caller dereferences after the goroutine has moved on.
ReceivedInOrder == received = [i \in 1..Len(received) |-> i]

\* A caller that saw ch close after a clean end of stream (the handler
\* returned nil because the backend closed its channel) has read every
\* item the backend published.
CompleteOnCleanEnd ==
  cstate = "done" /\ endStatus = "eof" =>
    received = [i \in 1..published |-> i]

\* Whatever ends the watch (the backend closing its channel, the caller
\* closing the subscription, or the transport failing, including during
\* WatchBlocks itself, whose SendMsg and CloseSend do not report it), both
\* goroutines return, the backend subscription is released and the caller
\* stops waiting: no goroutine is left blocked on a send nobody receives.
WatchTerminates == (bclosed \/ cctxDone \/ broken) ~> Finished

=============================================================================
