-------------------------- MODULE LowerProcessProofs --------------------------
(***************************************************************************)
(* For any number of compiling threads: what a call of _lower says is what *)
(* happened to its own child, and no child outlives its call.              *)
(***************************************************************************)
EXTENDS LowerProcess, TLAPS

\* Who holds the sending end of a pipe: the compiling process from opening it to
\* closing it, a thread's own child as long as it lives, and nobody that has ended.
PipesHeld ==
  \A p \in Threads :
    /\ Parent \in writers[p] <=> pc[p] \in {"opened", "forked"}
    /\ Alive(p) => ChildOf(p) \in writers[p]
    /\ \A q \in Threads : ChildOf(q) \in writers[p] => Alive(q)

\* Where a thread is tells whether it has a child, and a child is killed only after
\* the call has settled on the timeout.
ChildrenPlaced ==
  \A p \in Threads :
    /\ pc[p] \in {"new", "opened", "in_process"} => child[p] = "none"
    /\ pc[p] \in {"forked", "polling", "killing", "receiving", "joining"} => child[p] # "none"
    /\ child[p] = "killed" => outcome[p] = "timeout"
    /\ pc[p] = "done" => ~Alive(p)

\* What is in the pipe tells how far the child has come, and an answer is complete
\* before any of it is sent.
AnswersSent ==
  \A p \in Threads :
    /\ child[p] \in {"none", "lowering"} => sent[p] = "nothing"
    /\ child[p] = "sending" => sent[p] # "all"
    /\ child[p] \in {"exiting", "exited"} => sent[p] = "all"
    /\ child[p] = "sending" \/ sent[p] # "nothing" => payload[p] # "none"

\* A thread settles its outcome once, in the step that lets it join its child, and a
\* thread about to kill waited for a lowering at work, unless other children were there.
OutcomesSettled ==
  \A p \in Threads :
    /\ outcome[p] # "none" => pc[p] \in {"joining", "done"}
    /\ pc[p] = "killing" /\ (\A q \in Threads \ {p} : child[q] = "none") => slow[p]

Inv ==
  /\ LoweringTypeOK /\ PipesHeld /\ ChildrenPlaced /\ AnswersSent
  /\ OutcomesSettled /\ OutcomeIsTheChilds

-----------------------------------------------------------------------------
\* The processes of a compiling process are told apart.
LEMMA ProcessesDiffer ==
  /\ \A p : ChildOf(p) # Parent
  /\ \A p, q : ChildOf(p) = ChildOf(q) => p = q
PROOF
  BY DEF ChildOf, Parent

\* A thread that waits without anything to read, and no other child that could hold
\* its pipe, waits for its own child: closing its own end is what makes this so.
LEMMA WaitedForAlive ==
  ASSUME LoweringTypeOK, PipesHeld, NEW p \in Threads, pc[p] = "polling", ~Readable(p),
         \A q \in Threads \ {p} : child[q] = "none"
  PROVE  Alive(p)
PROOF
<1>1. PICK w \in writers[p] : TRUE
  BY DEF Readable
<1>2. w # Parent
  BY <1>1 DEF PipesHeld
<1>3. PICK q \in Threads : w = ChildOf(q)
  BY <1>2 DEF LoweringTypeOK
<1>4. Alive(q)
  BY <1>3 DEF PipesHeld
<1> QED
  BY <1>4 DEF Alive

\* No thread has begun and no pipe is open.
LEMMA InitInv == LoweringInit => Inv
PROOF
<1> SUFFICES ASSUME LoweringInit PROVE Inv
  OBVIOUS
<1>1. LoweringTypeOK
  BY DEF LoweringInit, LoweringTypeOK
<1>2. PipesHeld
  BY DEF LoweringInit, PipesHeld, Alive
<1>3. ChildrenPlaced
  BY DEF LoweringInit, ChildrenPlaced
<1>4. AnswersSent
  BY DEF LoweringInit, AnswersSent
<1>5. OutcomesSettled
  BY DEF LoweringInit, OutcomesSettled
<1>6. OutcomeIsTheChilds
  BY DEF LoweringInit, OutcomeIsTheChilds
<1> QED
  BY <1>1, <1>2, <1>3, <1>4, <1>5, <1>6 DEF Inv

\* Every step of a thread and of its child keeps the invariant.
LEMMA StepInv == Inv /\ [LoweringNext]_loweringVars => Inv'
PROOF
<1> SUFFICES ASSUME Inv, [LoweringNext]_loweringVars PROVE Inv'
  OBVIOUS
<1> USE DEF Inv
<1>1. ASSUME NEW p \in Threads, LowerInProcess(p) PROVE Inv'
  <2>1. LoweringTypeOK'
    BY <1>1 DEF LowerInProcess, LoweringTypeOK
  <2>2. PipesHeld'
    BY <1>1 DEF LowerInProcess, Alive, PipesHeld
  <2>3. ChildrenPlaced'
    BY <1>1 DEF LowerInProcess, Alive, ChildrenPlaced
  <2>4. AnswersSent'
    BY <1>1 DEF LowerInProcess, AnswersSent
  <2>5. OutcomesSettled'
    BY <1>1 DEF LowerInProcess, OutcomesSettled
  <2>6. OutcomeIsTheChilds'
    BY <1>1 DEF LowerInProcess, OutcomeIsTheChilds
  <2> QED
    BY <2>1, <2>2, <2>3, <2>4, <2>5, <2>6
<1>2. ASSUME NEW p \in Threads, LoweredInProcess(p) PROVE Inv'
  <2>1. LoweringTypeOK'
    BY <1>2 DEF LoweredInProcess, LoweringTypeOK
  <2>2. PipesHeld'
    BY <1>2 DEF LoweredInProcess, Alive, PipesHeld
  <2>3. ChildrenPlaced'
    BY <1>2 DEF LoweredInProcess, Alive, ChildrenPlaced
  <2>4. AnswersSent'
    BY <1>2 DEF LoweredInProcess, AnswersSent
  <2>5. OutcomesSettled'
    BY <1>2 DEF LoweredInProcess, LoweringTypeOK, OutcomesSettled
  <2>6. OutcomeIsTheChilds'
    BY <1>2 DEF LoweredInProcess, ChildrenPlaced, LoweringTypeOK, OutcomeIsTheChilds
  <2> QED
    BY <2>1, <2>2, <2>3, <2>4, <2>5, <2>6
<1>3. ASSUME NEW p \in Threads, OpenPipe(p) PROVE Inv'
  <2>1. LoweringTypeOK'
    BY <1>3 DEF OpenPipe, LoweringTypeOK
  <2>2. PipesHeld'
    BY <1>3, ProcessesDiffer DEF OpenPipe, Alive, ChildrenPlaced, LoweringTypeOK, PipesHeld
  <2>3. ChildrenPlaced'
    BY <1>3 DEF OpenPipe, Alive, ChildrenPlaced
  <2>4. AnswersSent'
    BY <1>3 DEF OpenPipe, AnswersSent
  <2>5. OutcomesSettled'
    BY <1>3 DEF OpenPipe, OutcomesSettled
  <2>6. OutcomeIsTheChilds'
    BY <1>3 DEF OpenPipe, OutcomeIsTheChilds
  <2> QED
    BY <2>1, <2>2, <2>3, <2>4, <2>5, <2>6
<1>4. ASSUME NEW p \in Threads, Fork(p) PROVE Inv'
  <2>1. LoweringTypeOK'
    BY <1>4 DEF Fork, LoweringTypeOK
  <2>2. PipesHeld'
    BY <1>4, ProcessesDiffer DEF Fork, Alive, LoweringTypeOK, PipesHeld
  <2>3. ChildrenPlaced'
    BY <1>4 DEF Fork, Alive, LoweringTypeOK, ChildrenPlaced
  <2>4. AnswersSent'
    BY <1>4 DEF Fork, ChildrenPlaced, AnswersSent
  <2>5. OutcomesSettled'
    BY <1>4 DEF Fork, OutcomesSettled
  <2>6. OutcomeIsTheChilds'
    BY <1>4 DEF Fork, OutcomesSettled, OutcomeIsTheChilds
  <2> QED
    BY <2>1, <2>2, <2>3, <2>4, <2>5, <2>6
<1>5. ASSUME NEW p \in Threads, CloseSender(p) PROVE Inv'
  <2>1. LoweringTypeOK'
    BY <1>5 DEF CloseSender, LoweringTypeOK
  <2>2. PipesHeld'
    BY <1>5, ProcessesDiffer DEF CloseSender, Alive, LoweringTypeOK, PipesHeld
  <2>3. ChildrenPlaced'
    BY <1>5 DEF CloseSender, Alive, ChildrenPlaced
  <2>4. AnswersSent'
    BY <1>5 DEF CloseSender, AnswersSent
  <2>5. OutcomesSettled'
    BY <1>5 DEF CloseSender, OutcomesSettled
  <2>6. OutcomeIsTheChilds'
    BY <1>5 DEF CloseSender, OutcomeIsTheChilds
  <2> QED
    BY <2>1, <2>2, <2>3, <2>4, <2>5, <2>6
<1>6. ASSUME NEW p \in Threads, Poll(p) PROVE Inv'
  <2>1. LoweringTypeOK'
    BY <1>6 DEF Poll, LoweringTypeOK
  <2>2. PipesHeld'
    BY <1>6 DEF Poll, Alive, PipesHeld
  <2>3. ChildrenPlaced'
    BY <1>6 DEF Poll, Alive, ChildrenPlaced
  <2>4. AnswersSent'
    BY <1>6 DEF Poll, AnswersSent
  <2>5. OutcomesSettled'
    BY <1>6 DEF Poll, OutcomesSettled
  <2>6. OutcomeIsTheChilds'
    BY <1>6 DEF Poll, OutcomeIsTheChilds
  <2> QED
    BY <2>1, <2>2, <2>3, <2>4, <2>5, <2>6
<1>7. ASSUME NEW p \in Threads, Timeout(p) PROVE Inv'
  <2>1. LoweringTypeOK'
    BY <1>7 DEF Timeout, Alive, LoweringTypeOK
  <2>2. PipesHeld'
    BY <1>7 DEF Timeout, Alive, PipesHeld
  <2>3. ChildrenPlaced'
    BY <1>7 DEF Timeout, Alive, ChildrenPlaced
  <2>4. AnswersSent'
    BY <1>7 DEF Timeout, AnswersSent
  <2>5. OutcomesSettled'
    <3>1. ASSUME \A q \in Threads \ {p} : child[q] = "none" PROVE Alive(p)
      BY <1>7, <3>1, WaitedForAlive DEF Timeout
    <3> QED
      BY <1>7, <3>1 DEF Timeout, LoweringTypeOK, OutcomesSettled
  <2>6. OutcomeIsTheChilds'
    BY <1>7 DEF Timeout, OutcomesSettled, OutcomeIsTheChilds
  <2> QED
    BY <2>1, <2>2, <2>3, <2>4, <2>5, <2>6
<1>8. ASSUME NEW p \in Threads, Kill(p) PROVE Inv'
  <2>1. LoweringTypeOK'
    BY <1>8 DEF Kill, Released, LoweringTypeOK
  <2>2. PipesHeld'
    BY <1>8, ProcessesDiffer DEF Kill, Released, Alive, LoweringTypeOK, PipesHeld
  <2>3. ChildrenPlaced'
    BY <1>8 DEF Kill, Alive, LoweringTypeOK, ChildrenPlaced
  <2>4. AnswersSent'
    BY <1>8 DEF Kill, LoweringTypeOK, AnswersSent
  <2>5. OutcomesSettled'
    BY <1>8 DEF Kill, LoweringTypeOK, OutcomesSettled
  <2>6. OutcomeIsTheChilds'
    BY <1>8 DEF Kill, OutcomesSettled, LoweringTypeOK, OutcomeIsTheChilds
  <2> QED
    BY <2>1, <2>2, <2>3, <2>4, <2>5, <2>6
<1>9. ASSUME NEW p \in Threads, Receive(p) PROVE Inv'
  <2>1. LoweringTypeOK'
    BY <1>9 DEF Receive, LoweringTypeOK
  <2>2. PipesHeld'
    BY <1>9 DEF Receive, Alive, PipesHeld
  <2>3. ChildrenPlaced'
    BY <1>9 DEF Receive, Alive, OutcomesSettled, ChildrenPlaced
  <2>4. AnswersSent'
    BY <1>9 DEF Receive, AnswersSent
  <2>5. OutcomesSettled'
    BY <1>9 DEF Receive, LoweringTypeOK, OutcomesSettled
  <2>6. OutcomeIsTheChilds'
    BY <1>9 DEF Receive, Alive, OutcomesSettled, AnswersSent, ChildrenPlaced, PipesHeld,
         LoweringTypeOK, OutcomeIsTheChilds
  <2> QED
    BY <2>1, <2>2, <2>3, <2>4, <2>5, <2>6
<1>10. ASSUME NEW p \in Threads, Join(p) PROVE Inv'
  <2>1. LoweringTypeOK'
    BY <1>10 DEF Join, LoweringTypeOK
  <2>2. PipesHeld'
    BY <1>10 DEF Join, Alive, PipesHeld
  <2>3. ChildrenPlaced'
    BY <1>10 DEF Join, Alive, ChildrenPlaced
  <2>4. AnswersSent'
    BY <1>10 DEF Join, AnswersSent
  <2>5. OutcomesSettled'
    BY <1>10 DEF Join, OutcomesSettled
  <2>6. OutcomeIsTheChilds'
    BY <1>10 DEF Join, OutcomeIsTheChilds
  <2> QED
    BY <2>1, <2>2, <2>3, <2>4, <2>5, <2>6
<1>11. ASSUME NEW p \in Threads, ChildLowered(p) PROVE Inv'
  <2>1. LoweringTypeOK'
    BY <1>11 DEF ChildLowered, LoweringTypeOK
  <2>2. PipesHeld'
    BY <1>11 DEF ChildLowered, Alive, PipesHeld
  <2>3. ChildrenPlaced'
    BY <1>11 DEF ChildLowered, Alive, ChildrenPlaced
  <2>4. AnswersSent'
    BY <1>11 DEF ChildLowered, LoweringTypeOK, AnswersSent
  <2>5. OutcomesSettled'
    BY <1>11 DEF ChildLowered, OutcomesSettled
  <2>6. OutcomeIsTheChilds'
    BY <1>11 DEF ChildLowered, AnswersSent, OutcomeIsTheChilds
  <2> QED
    BY <2>1, <2>2, <2>3, <2>4, <2>5, <2>6
<1>12. ASSUME NEW p \in Threads, SendPart(p) PROVE Inv'
  <2>1. LoweringTypeOK'
    BY <1>12 DEF SendPart, LoweringTypeOK
  <2>2. PipesHeld'
    BY <1>12 DEF SendPart, Alive, PipesHeld
  <2>3. ChildrenPlaced'
    BY <1>12 DEF SendPart, Alive, ChildrenPlaced
  <2>4. AnswersSent'
    BY <1>12 DEF SendPart, AnswersSent
  <2>5. OutcomesSettled'
    BY <1>12 DEF SendPart, OutcomesSettled
  <2>6. OutcomeIsTheChilds'
    BY <1>12 DEF SendPart, OutcomeIsTheChilds
  <2> QED
    BY <2>1, <2>2, <2>3, <2>4, <2>5, <2>6
<1>13. ASSUME NEW p \in Threads, SendRest(p) PROVE Inv'
  <2>1. LoweringTypeOK'
    BY <1>13 DEF SendRest, LoweringTypeOK
  <2>2. PipesHeld'
    BY <1>13 DEF SendRest, Alive, PipesHeld
  <2>3. ChildrenPlaced'
    BY <1>13 DEF SendRest, Alive, ChildrenPlaced
  <2>4. AnswersSent'
    BY <1>13 DEF SendRest, LoweringTypeOK, AnswersSent
  <2>5. OutcomesSettled'
    BY <1>13 DEF SendRest, OutcomesSettled
  <2>6. OutcomeIsTheChilds'
    BY <1>13 DEF SendRest, OutcomeIsTheChilds
  <2> QED
    BY <2>1, <2>2, <2>3, <2>4, <2>5, <2>6
<1>14. ASSUME NEW p \in Threads, Exit(p) PROVE Inv'
  <2>1. LoweringTypeOK'
    BY <1>14 DEF Exit, Released, LoweringTypeOK
  <2>2. PipesHeld'
    BY <1>14, ProcessesDiffer DEF Exit, Released, Alive, LoweringTypeOK, PipesHeld
  <2>3. ChildrenPlaced'
    BY <1>14 DEF Exit, Alive, ChildrenPlaced
  <2>4. AnswersSent'
    BY <1>14 DEF Exit, AnswersSent
  <2>5. OutcomesSettled'
    BY <1>14 DEF Exit, OutcomesSettled
  <2>6. OutcomeIsTheChilds'
    BY <1>14 DEF Exit, OutcomeIsTheChilds
  <2> QED
    BY <2>1, <2>2, <2>3, <2>4, <2>5, <2>6
<1>15. ASSUME NEW p \in Threads, Die(p) PROVE Inv'
  <2>1. LoweringTypeOK'
    BY <1>15 DEF Die, Released, LoweringTypeOK
  <2>2. PipesHeld'
    BY <1>15, ProcessesDiffer DEF Die, Released, Alive, LoweringTypeOK, PipesHeld
  <2>3. ChildrenPlaced'
    BY <1>15 DEF Die, Alive, ChildrenPlaced
  <2>4. AnswersSent'
    BY <1>15 DEF Die, AnswersSent
  <2>5. OutcomesSettled'
    BY <1>15 DEF Die, OutcomesSettled
  <2>6. OutcomeIsTheChilds'
    BY <1>15 DEF Die, OutcomesSettled, ChildrenPlaced, OutcomeIsTheChilds
  <2> QED
    BY <2>1, <2>2, <2>3, <2>4, <2>5, <2>6
<1>16. CASE UNCHANGED loweringVars
  <2>1. LoweringTypeOK'
    BY <1>16 DEF loweringVars, LoweringTypeOK
  <2>2. PipesHeld'
    BY <1>16 DEF loweringVars, Alive, PipesHeld
  <2>3. ChildrenPlaced'
    BY <1>16 DEF loweringVars, Alive, ChildrenPlaced
  <2>4. AnswersSent'
    BY <1>16 DEF loweringVars, AnswersSent
  <2>5. OutcomesSettled'
    BY <1>16 DEF loweringVars, OutcomesSettled
  <2>6. OutcomeIsTheChilds'
    BY <1>16 DEF loweringVars, OutcomeIsTheChilds
  <2> QED
    BY <2>1, <2>2, <2>3, <2>4, <2>5, <2>6
<1> QED
  BY <1>1, <1>2, <1>3, <1>4, <1>5, <1>6, <1>7, <1>8, <1>9, <1>10, <1>11, <1>12, <1>13,
     <1>14, <1>15, <1>16 DEF LoweringNext, Thread, Answer, LoweringTerminated

-----------------------------------------------------------------------------
\* The invariant holds for any number of threads.
THEOREM InvHolds == LoweringSpec => []Inv
PROOF
  BY InitInv, StepInv, PTL DEF LoweringSpec

\* Every variable has its shape, whatever the threads and their children do.
THEOREM TypesHold == LoweringSpec => []LoweringTypeOK
PROOF
<1>1. Inv => LoweringTypeOK
  BY DEF Inv
<1> QED
  BY <1>1, InvHolds, PTL

\* A call returns the module, or raises the exception, that its own child sent whole;
\* it reports a death only of a child that died unanswered, and with no other child
\* around it times out only on a lowering still at work (execution.py, _lower).
THEOREM OutcomesAreTheChilds == LoweringSpec => []OutcomeIsTheChilds
PROOF
<1>1. Inv => OutcomeIsTheChilds
  BY DEF Inv
<1> QED
  BY <1>1, InvHolds, PTL

\* When a call is over its child is not there any more: joined, or killed on the
\* timeout (execution.py, _lower).
THEOREM NoChildIsLeft == LoweringSpec => []NoChildLeftBehind
PROOF
<1>1. Inv => NoChildLeftBehind
  BY DEF Inv, ChildrenPlaced, NoChildLeftBehind
<1> QED
  BY <1>1, InvHolds, PTL
=============================================================================
