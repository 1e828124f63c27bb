-------------------------- MODULE ProposalPipeline --------------------------
(***************************************************************************)
(* How a write of one replica reaches raft and comes back, at the level of *)
(* channels and locks: registerPending, propose and waitPending of         *)
(* raftimpl/raft_impl.go, the sendProposals goroutine of node.go, and      *)
(* Shutdown, which may come at any point of a request.                     *)
(*                                                                         *)
(* A Caller is one SetKV or UnsetKV; those of Background run with          *)
(* context.Background(), the others with the context of their RPC.         *)
(* RaftKV takes the whole trip to raft as one step; this module opens it.  *)
(***************************************************************************)
EXTENDS Naturals, Sequences

CONSTANTS
  Caller,
  Background,   \* the callers whose context never ends
  ProposeCap,   \* capacity of proposeC
  CanCancel,    \* do contexts end?
  CanRefuse     \* does node.Propose answer errors?

ASSUME PipelineAssumption ==
  /\ Caller # {} /\ Background \subseteq Caller
  /\ ProposeCap \in Nat
  /\ CanCancel \in BOOLEAN /\ CanRefuse \in BOOLEAN

VARIABLES
  pc,            \* where each caller is
  result,        \* what it returned
  cancelled,     \* the callers whose context has ended
  pending,       \* raftNodeImpl.pending
  ack,           \* ack[c]: what was sent on its ack channel
  proposeC,      \* the buffer of proposeC
  sender,        \* sendProposals: "recv", "propose", "answer", "stopped"
  proposal,      \* the caller whose proposal the sender holds
  answer,        \* what node.Propose said
  accepted,      \* the commands raft has accepted
  applied,       \* those the applier has applied
  shutdown,      \* Shutdown: "no", "flag" (shuttingDown), "failed", "closed" (proposeC)
  running        \* the Ready loop has not stopped

pipelineVars ==
  <<pc, result, cancelled, pending, ack, proposeC, sender, proposal, answer, accepted, applied,
    shutdown, running>>
senderVars == <<proposeC, sender, proposal, answer, accepted>>
nodeVars == <<applied, shutdown, running>>

shuttingDown == shutdown # "no"
proposeClosed == shutdown = "closed"

-----------------------------------------------------------------------------
(* A caller *)

\* SetKV and UnsetKV return; the deferred cleanup leaves the pending map.
return(c, r) ==
  /\ pc' = [pc EXCEPT ![c] = "done"]
  /\ result' = [result EXCEPT ![c] = r]
  /\ pending' = pending \ {c}

goto(c, to) ==
  /\ pc' = [pc EXCEPT ![c] = to]
  /\ UNCHANGED result

\* registerPending looks at shuttingDown ...
checkShutdown(c) ==
  /\ pc[c] = "idle"
  /\ \/ shuttingDown /\ return(c, "shutdown")
     \/ ~shuttingDown /\ goto(c, "register") /\ UNCHANGED pending
  /\ UNCHANGED <<cancelled, ack, senderVars, nodeVars>>

\* ... and then locks the map.
registerPending(c) ==
  /\ pc[c] = "register"
  /\ goto(c, "propose")
  /\ pending' = pending \cup {c}
  /\ UNCHANGED <<cancelled, ack, senderVars, nodeVars>>

\* Mutant: propose does not look at shuttingDown again.
proposeUnchecked(c) ==
  /\ pc[c] = "propose"
  /\ goto(c, "send") /\ UNCHANGED pending
  /\ UNCHANGED <<cancelled, ack, senderVars, nodeVars>>

\* propose looks at it once more.
propose(c) ==
  /\ pc[c] = "propose"
  /\ \/ shuttingDown /\ return(c, "shutdown")
     \/ ~shuttingDown /\ goto(c, "send") /\ UNCHANGED pending
  /\ UNCHANGED <<cancelled, ack, senderVars, nodeVars>>

room == Len(proposeC) < ProposeCap

\* The send on proposeC; on a closed channel it panics.
sendProposal(c) ==
  /\ pc[c] = "send"
  /\ \/ proposeClosed /\ return(c, "panic") /\ UNCHANGED proposeC
     \/ /\ ~proposeClosed
        /\ room
        /\ proposeC' = Append(proposeC, c)
        /\ goto(c, "answer") /\ UNCHANGED pending
  /\ UNCHANGED <<cancelled, ack, sender, proposal, answer, accepted, nodeVars>>

\* waitPending receives the acknowledgement.
waitPending(c) ==
  /\ pc[c] = "wait"
  /\ ack[c] # "none"
  /\ return(c, ack[c])
  /\ UNCHANGED <<cancelled, ack, senderVars, nodeVars>>

\* Each of the three selects also listens to the context.
contextDone(c) ==
  /\ pc[c] \in {"send", "answer", "wait"}
  /\ c \in cancelled
  /\ return(c, "cancelled")
  /\ UNCHANGED <<cancelled, ack, senderVars, nodeVars>>

\* The client gives up, or its deadline passes.
Cancel(c) ==
  /\ CanCancel
  /\ c \notin Background /\ c \notin cancelled
  /\ cancelled' = cancelled \cup {c}
  /\ UNCHANGED <<pc, result, pending, ack, senderVars, nodeVars>>

-----------------------------------------------------------------------------
(* sendProposals *)

receiveProposal ==
  /\ sender = "recv"
  /\ proposeC # <<>>
  /\ proposal' = Head(proposeC)
  /\ proposeC' = Tail(proposeC)
  /\ sender' = "propose"
  /\ UNCHANGED <<pc, result, cancelled, pending, ack, answer, accepted, nodeVars>>

\* node.Propose: raft accepts the command, or the context of the proposal has
\* ended, or raft answers an error.
nodePropose ==
  /\ sender = "propose"
  /\ \/ accepted' = accepted \cup {proposal} /\ answer' = "ok"
     \/ /\ CanRefuse \/ proposal \in cancelled
        /\ answer' = "err" /\ UNCHANGED accepted
  /\ sender' = "answer"
  /\ UNCHANGED <<pc, result, cancelled, pending, ack, proposeC, proposal, nodeVars>>

\* The answer goes over an unbuffered channel: the caller must be there.
sendAnswer ==
  /\ sender = "answer"
  /\ pc[proposal] = "answer"
  /\ \/ answer = "ok" /\ goto(proposal, "wait") /\ UNCHANGED pending
     \/ answer = "err" /\ return(proposal, "err")
  /\ sender' = "recv"
  /\ UNCHANGED <<cancelled, ack, proposeC, proposal, answer, accepted, nodeVars>>

\* Mutant: the goroutine ends without closing stopc.
senderStopSilently ==
  /\ sender = "recv" /\ proposeC = <<>> /\ proposeClosed
  /\ UNCHANGED pipelineVars

\* proposeC is closed and drained: the goroutine closes stopc.
senderStop ==
  /\ sender = "recv"
  /\ proposeC = <<>> /\ proposeClosed
  /\ sender' = "stopped"
  /\ UNCHANGED <<pc, result, cancelled, pending, ack, proposeC, proposal, answer, accepted,
                 nodeVars>>

-----------------------------------------------------------------------------
(* The applier, the Ready loop and Shutdown *)

\* The applier applies an accepted command and resolves its caller.  After
\* stop it may still have a batch in hand.
resolvePending(c) ==
  /\ c \in accepted \ applied
  /\ applied' = applied \cup {c}
  /\ ack' = IF c \in pending THEN [ack EXCEPT ![c] = "ok"] ELSE ack
  /\ pending' = pending \ {c}
  /\ UNCHANGED <<pc, result, cancelled, senderVars, shutdown, running>>

stop ==
  /\ running
  /\ sender = "stopped"
  /\ running' = FALSE
  /\ UNCHANGED <<pc, result, cancelled, pending, ack, senderVars, applied, shutdown>>

ShutdownFlag ==
  /\ shutdown = "no"
  /\ shutdown' = "flag"
  /\ UNCHANGED <<pc, result, cancelled, pending, ack, senderVars, applied, running>>

\* Mutants: every waiting handler is told that its write succeeded; none is
\* told anything.
failAllPendingOk ==
  /\ shutdown = "flag"
  /\ shutdown' = "failed"
  /\ ack' = [c \in Caller |-> IF c \in pending THEN "ok" ELSE ack[c]]
  /\ pending' = {}
  /\ UNCHANGED <<pc, result, cancelled, senderVars, applied, running>>

failAllPendingSilent ==
  /\ shutdown = "flag"
  /\ shutdown' = "failed"
  /\ pending' = {}
  /\ UNCHANGED <<pc, result, cancelled, ack, senderVars, applied, running>>

failAllPending ==
  /\ shutdown = "flag"
  /\ shutdown' = "failed"
  /\ ack' = [c \in Caller |-> IF c \in pending THEN "shutdown" ELSE ack[c]]
  /\ pending' = {}
  /\ UNCHANGED <<pc, result, cancelled, senderVars, applied, running>>

ShutdownClose ==
  /\ shutdown = "failed"
  /\ shutdown' = "closed"
  /\ UNCHANGED <<pc, result, cancelled, pending, ack, senderVars, applied, running>>

-----------------------------------------------------------------------------

PipelineInit ==
  /\ pc = [c \in Caller |-> "idle"]
  /\ result = [c \in Caller |-> "none"]
  /\ ack = [c \in Caller |-> "none"]
  /\ cancelled = {} /\ pending = {} /\ accepted = {} /\ applied = {}
  /\ proposeC = <<>> /\ sender = "recv"
  /\ proposal = (CHOOSE c \in Caller : TRUE) /\ answer = "ok"
  /\ shutdown = "no" /\ running = TRUE

Call(c) ==
  \/ checkShutdown(c) \/ registerPending(c) \/ propose(c) \/ sendProposal(c)
  \/ waitPending(c) \/ contextDone(c)
Sender == receiveProposal \/ nodePropose \/ sendAnswer \/ senderStop
Shutdown == ShutdownFlag \/ failAllPending \/ ShutdownClose

PipelineNext ==
  \/ \E c \in Caller : Call(c) \/ Cancel(c) \/ resolvePending(c)
  \/ Sender \/ stop \/ Shutdown

PipelineSpec == PipelineInit /\ [][PipelineNext]_pipelineVars

\* Every goroutine runs and raft answers; nobody has to call Shutdown, or to
\* make a request, or to cancel one.
FairPipelineSpec ==
  /\ PipelineSpec
  /\ \A c \in Caller : /\ WF_pipelineVars(pc[c] # "idle" /\ Call(c))
                       /\ WF_pipelineVars(running /\ resolvePending(c))
  /\ WF_pipelineVars(Sender) /\ WF_pipelineVars(stop)
  /\ WF_pipelineVars(failAllPending \/ ShutdownClose)

-----------------------------------------------------------------------------
(* Properties *)

\* Every variable has its type, proposeC never holds more than its capacity
\* and only accepted commands are applied.
PipelineTypeOK ==
  /\ pc \in [Caller -> {"idle", "register", "propose", "send", "answer", "wait", "done"}]
  /\ result \in [Caller -> {"none", "ok", "err", "shutdown", "cancelled", "panic"}]
  /\ ack \in [Caller -> {"none", "ok", "shutdown"}]
  /\ cancelled \subseteq Caller /\ pending \subseteq Caller
  /\ accepted \subseteq Caller /\ applied \subseteq accepted
  /\ proposeC \in Seq(Caller) /\ Len(proposeC) <= ProposeCap
  /\ sender \in {"recv", "propose", "answer", "stopped"}
  /\ proposal \in Caller /\ answer \in {"ok", "err"}
  /\ shutdown \in {"no", "flag", "failed", "closed"} /\ running \in BOOLEAN

\* A caller that has registered and not returned will hear: it is still in
\* the pending map, or its acknowledgement is already there.
NobodyForgotten ==
  \A c \in Caller :
    pc[c] \in {"propose", "send", "answer", "wait"} => c \in pending \/ ack[c] # "none"

\* Once Shutdown has failed the pending requests, the only registrations left
\* are of callers that will look at shuttingDown again.
NobodyLeftBehind ==
  shutdown \in {"failed", "closed"} =>
    \A c \in pending : pc[c] = "propose"

\* Everyone who registered is answered, before, during and after Shutdown.
EveryoneAnswered == NobodyForgotten /\ NobodyLeftBehind

\* A write succeeds only if it was applied, whatever Shutdown does meanwhile.
OkIsApplied == \A c \in Caller : result[c] = "ok" => c \in applied

\* As long as no context ends, every request returns, whatever Shutdown does.
EveryCallReturns ==
  [](cancelled = {}) => \A c \in Caller : (pc[c] = "register") ~> (pc[c] = "done")

\* As long as no context ends, closing proposeC stops the node.
PatientShutdownStops == [](cancelled = {}) => (proposeClosed ~> ~running)
=============================================================================
