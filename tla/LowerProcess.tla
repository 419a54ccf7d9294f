---------------------------- MODULE LowerProcess ----------------------------
(***************************************************************************)
(* Lowering a module in a forked process under the compile timeout.        *)
(*                                                                         *)
(* A thread opens a pipe, forks a child that applies the lowering pipeline *)
(* and sends back the module or the exception, closes its own end, waits   *)
(* for an answer or the timeout, and joins the child.  A child may never   *)
(* finish, or die at any moment; the pipe reads as ended once no process   *)
(* holds its sending end, and a child forked by another thread holds every *)
(* sending end that was open in the process at the time.                   *)
(***************************************************************************)
EXTENDS Naturals, FiniteSets

CONSTANT Threads

\* A process: the compiling one, or a thread's child.
Parent == <<"parent">>
ChildOf(p) == <<"child", p>>

VARIABLES
  pc,       \* thread -> where _lower is
  child,    \* thread -> the state of its child
  writers,  \* thread -> processes holding the sending end of its pipe
  sent,     \* thread -> "nothing", "part" or "all" of a message in the pipe
  payload,  \* thread -> what became of the module, in the child or in process
  outcome,  \* thread -> what the thread got
  slow      \* thread -> its child was at work when the timeout passed (history)

loweringVars == <<pc, child, writers, sent, payload, outcome, slow>>

LoweringInit ==
  /\ pc = [p \in Threads |-> "new"]
  /\ child = [p \in Threads |-> "none"]
  /\ writers = [p \in Threads |-> {}]
  /\ sent = [p \in Threads |-> "nothing"]
  /\ payload = [p \in Threads |-> "none"]
  /\ outcome = [p \in Threads |-> "none"]
  /\ slow = [p \in Threads |-> FALSE]

\* Without a timeout the lowering runs in the process itself, perhaps forever.
LowerInProcess(p) ==
  /\ pc[p] = "new"
  /\ pc' = [pc EXCEPT ![p] = "in_process"]
  /\ UNCHANGED <<child, writers, sent, payload, outcome, slow>>

LoweredInProcess(p) ==
  /\ pc[p] = "in_process"
  /\ \E result \in {"module", "error"} :
       /\ payload' = [payload EXCEPT ![p] = result]
       /\ outcome' = [outcome EXCEPT ![p] = result]
  /\ pc' = [pc EXCEPT ![p] = "done"]
  /\ UNCHANGED <<child, writers, sent, slow>>

OpenPipe(p) ==
  /\ pc[p] = "new"
  /\ writers' = [writers EXCEPT ![p] = {Parent}]
  /\ pc' = [pc EXCEPT ![p] = "opened"]
  /\ UNCHANGED <<child, sent, payload, outcome, slow>>

\* Mutant of Fork: the process is created and never started.
Create(p) ==
  /\ pc[p] = "opened"
  /\ child' = [child EXCEPT ![p] = "created"]
  /\ pc' = [pc EXCEPT ![p] = "forked"]
  /\ UNCHANGED <<writers, sent, payload, outcome, slow>>

\* The child inherits every sending end its parent has open.
Fork(p) ==
  /\ pc[p] = "opened"
  /\ writers' = [q \in Threads |->
       IF Parent \in writers[q] THEN writers[q] \union {ChildOf(p)} ELSE writers[q]]
  /\ child' = [child EXCEPT ![p] = "lowering"]
  /\ pc' = [pc EXCEPT ![p] = "forked"]
  /\ UNCHANGED <<sent, payload, outcome, slow>>

CloseSender(p) ==
  /\ pc[p] = "forked"
  /\ writers' = [writers EXCEPT ![p] = @ \ {Parent}]
  /\ pc' = [pc EXCEPT ![p] = "polling"]
  /\ UNCHANGED <<child, sent, payload, outcome, slow>>

\* Data or the end of the pipe.
Readable(p) == sent[p] # "nothing" \/ writers[p] = {}

Poll(p) ==
  /\ pc[p] = "polling"
  /\ Readable(p)
  /\ pc' = [pc EXCEPT ![p] = "receiving"]
  /\ UNCHANGED <<child, writers, sent, payload, outcome, slow>>

\* A process that ends gives up every sending end it holds.
Released(q) == [p \in Threads |-> writers[p] \ {ChildOf(q)}]

Alive(p) == child[p] \in {"lowering", "sending", "exiting"}

\* The timeout passes with nothing to read.
Timeout(p) ==
  /\ pc[p] = "polling"
  /\ ~Readable(p)
  /\ slow' = [slow EXCEPT ![p] = Alive(p)]
  /\ pc' = [pc EXCEPT ![p] = "killing"]
  /\ UNCHANGED <<child, writers, sent, payload, outcome>>

\* Mutant of Kill: the child is left to finish.
GiveUp(p) ==
  /\ pc[p] = "killing"
  /\ outcome' = [outcome EXCEPT ![p] = "timeout"]
  /\ pc' = [pc EXCEPT ![p] = "joining"]
  /\ UNCHANGED <<child, writers, sent, payload, slow>>

\* Whatever the child did since, even answer, it is killed if it is still there.
Kill(p) ==
  /\ pc[p] = "killing"
  /\ IF Alive(p) THEN child' = [child EXCEPT ![p] = "killed"] /\ writers' = Released(p)
     ELSE UNCHANGED <<child, writers>>
  /\ outcome' = [outcome EXCEPT ![p] = "timeout"]
  /\ pc' = [pc EXCEPT ![p] = "joining"]
  /\ UNCHANGED <<sent, payload, slow>>

\* Mutant of Receive: what has arrived so far is taken for the answer.
ReceiveAvailable(p) ==
  /\ pc[p] = "receiving"
  /\ outcome' = [outcome EXCEPT ![p] = IF sent[p] = "nothing" THEN "died" ELSE payload[p]]
  /\ pc' = [pc EXCEPT ![p] = "joining"]
  /\ UNCHANGED <<child, writers, sent, payload, slow>>

\* recv: a whole message, or the end before any of it (EOFError, reported as the
\* child's death) or in the middle of it (OSError, raised as it is).
Receive(p) ==
  /\ pc[p] = "receiving"
  /\ sent[p] = "all" \/ writers[p] = {}
  /\ outcome' = [outcome EXCEPT ![p] =
       CASE sent[p] = "all" -> payload[p]
         [] sent[p] = "nothing" -> "died"
         [] sent[p] = "part" -> "torn"]
  /\ pc' = [pc EXCEPT ![p] = "joining"]
  /\ UNCHANGED <<child, writers, sent, payload, slow>>

\* Mutant of Join: the child is not waited for.
Leave(p) ==
  /\ pc[p] = "joining"
  /\ pc' = [pc EXCEPT ![p] = "done"]
  /\ UNCHANGED <<child, writers, sent, payload, outcome, slow>>

Join(p) ==
  /\ pc[p] = "joining"
  /\ ~Alive(p)
  /\ pc' = [pc EXCEPT ![p] = "done"]
  /\ UNCHANGED <<child, writers, sent, payload, outcome, slow>>

-----------------------------------------------------------------------------

\* The child: the pipeline returns or raises, and the answer is sent.
ChildLowered(p) ==
  /\ child[p] = "lowering"
  /\ \E result \in {"module", "error"} : payload' = [payload EXCEPT ![p] = result]
  /\ child' = [child EXCEPT ![p] = "sending"]
  /\ UNCHANGED <<pc, writers, sent, outcome, slow>>

SendPart(p) ==
  /\ child[p] = "sending"
  /\ sent[p] = "nothing"
  /\ sent' = [sent EXCEPT ![p] = "part"]
  /\ UNCHANGED <<pc, child, writers, payload, outcome, slow>>

SendRest(p) ==
  /\ child[p] = "sending"
  /\ sent[p] = "part"
  /\ sent' = [sent EXCEPT ![p] = "all"]
  /\ child' = [child EXCEPT ![p] = "exiting"]
  /\ UNCHANGED <<pc, writers, payload, outcome, slow>>

Exit(p) ==
  /\ child[p] = "exiting"
  /\ child' = [child EXCEPT ![p] = "exited"]
  /\ writers' = Released(p)
  /\ UNCHANGED <<pc, sent, payload, outcome, slow>>

\* A native abort, or the system kills the child.
Die(p) ==
  /\ Alive(p)
  /\ child' = [child EXCEPT ![p] = "dead"]
  /\ writers' = Released(p)
  /\ UNCHANGED <<pc, sent, payload, outcome, slow>>

Thread(p) ==
  \/ LowerInProcess(p) \/ OpenPipe(p) \/ Fork(p) \/ CloseSender(p)
  \/ Poll(p) \/ Timeout(p) \/ Kill(p) \/ Receive(p) \/ Join(p)

\* A child that has its answer sends it and exits; its lowering may run forever.
Answer(p) == SendPart(p) \/ SendRest(p) \/ Exit(p)

LoweringTerminated == (\A p \in Threads : pc[p] = "done") /\ UNCHANGED loweringVars

LoweringNext ==
  \/ \E p \in Threads : Thread(p) \/ LoweredInProcess(p) \/ ChildLowered(p) \/ Answer(p) \/ Die(p)
  \/ LoweringTerminated

LoweringSpec ==
  /\ LoweringInit /\ [][LoweringNext]_loweringVars
  /\ \A p \in Threads : WF_loweringVars(Thread(p)) /\ WF_loweringVars(Answer(p))

-----------------------------------------------------------------------------
\* The shape of every variable.
LoweringTypeOK ==
  /\ pc \in [Threads -> {"new", "opened", "forked", "polling", "killing", "receiving",
                       "joining", "in_process", "done"}]
  /\ child \in [Threads -> {"none", "lowering", "sending", "exiting", "exited", "dead", "killed"}]
  /\ writers \in [Threads -> SUBSET ({Parent} \union {ChildOf(p) : p \in Threads})]
  /\ sent \in [Threads -> {"nothing", "part", "all"}]
  /\ payload \in [Threads -> {"none", "module", "error"}]
  /\ outcome \in [Threads -> {"none", "module", "error", "timeout", "died", "torn"}]
  /\ slow \in [Threads -> BOOLEAN]

\* What a call says is what happened to its own child, whichever threads compile at
\* the same time (execution.py, _lower): it returns the module, or raises the
\* exception, that the child made and sent whole; "lighthouse lowering process died"
\* is only said of a child that died without an answer; and when no other child is in
\* the process, a timeout only of a lowering that was still at work, since closing
\* its own copy of the sending end makes the death of the child visible.
OutcomeIsTheChilds ==
  \A p \in Threads :
    /\ outcome[p] \in {"module", "error"} =>
         /\ outcome[p] = payload[p]
         /\ child[p] # "none" => sent[p] = "all"
    /\ outcome[p] \in {"died", "torn"} => child[p] = "dead" /\ sent[p] # "all"
    /\ outcome[p] = "timeout" /\ (\A q \in Threads \ {p} : child[q] = "none") => slow[p]

\* No child outlives the call that forked it.
NoChildLeftBehind == \A p \in Threads : pc[p] = "done" => ~Alive(p)

\* A call under a timeout ends, though lowerings may hang and children may die
\* mid-message (execution.py, _lower: "native passes cannot be interrupted, only
\* killed with their process").
EveryLoweringEnds == \A p \in Threads : (pc[p] = "opened") ~> (pc[p] = "done")

=============================================================================
