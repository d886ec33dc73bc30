------------------------ MODULE ProtectBridge_proofs ------------------------
(***************************************************************************)
(* TLAPS proofs about ProtectBridge: for any finite number of goroutines   *)
(* and any bounds, the bridge's globals keep their types, a protect call   *)
(* that returns 0 has protected its own socket unless some call was given  *)
(* up, and a stop or disable that returns 0 leaves no call in the bridge.  *)
(***************************************************************************)
EXTENDS ProtectBridge, FiniteSetTheorems, TLAPS

USE BridgeAssumption
USE DEF goVars, callVars, jsVars, histVars

-----------------------------------------------------------------------------
(* What a step leaves alone *)

\* The holder of g_protectCallMutex and the count of calls depend on the goroutines only.
LEMMA SameCalls ==
    ASSUME BridgeInv, UNCHANGED <<pc, callMutex, protectBusy>>
    PROVE  MutexHeld' /\ BusyCounts'
  BY DEF BridgeInv, MutexHeld, BusyCounts

\* The hook stays off if nothing about it changes and no goroutine enters it.
LEMMA SameHook ==
    ASSUME BridgeInv, UNCHANGED <<quiet, op, protectOn>>,
           \A d \in Dialers : pc'[d] \in InHook => pc[d] \in InHook
    PROVE  HookOff' /\ QuietAfterStop'
  BY DEF BridgeInv, HookOff, QuietAfterStop

\* The answer due is the same if only goroutines away from the bridge move.
LEMMA SameAnswer ==
    ASSUME BridgeInv, UNCHANGED <<queue, pending, protected, done, error, ret, late>>,
           js' = "settling" <=> js = "settling",
           NEW d \in Dialers, NEW x, x \notin InCall \ {"reset"}, pc[d] \notin InCall,
           pc' = [pc EXCEPT ![d] = x], x = "leave" => ret[d] # "ok",
           sock' = sock \/ (pc[d] = "idle" /\ \E n : sock' = [sock EXCEPT ![d] = n])
    PROVE  OneAnswer' /\ SuccessUnlessLate'
<1>1. pc \in [Dialers -> DialPc] /\ sock \in [Dialers -> Nat]
  BY DEF BridgeInv, TypeOK
<1>2. \A e \in Dialers : pc[e] # "idle" => Socket(e)' = Socket(e)
  BY <1>1 DEF Socket
<1>3. \A e \in Dialers : e # d => pc'[e] = pc[e]
  BY <1>1
<1>4. pc'[d] = x
  BY <1>1
<1>5. NoAnswerDue' <=> NoAnswerDue
  BY DEF NoAnswerDue
<1>6. \A e \in Dialers : pc[e] # "idle" => (Verdict(e)' <=> Verdict(e))
  BY <1>2 DEF Verdict
<1>7. \A e \in Dialers : pc[e] # "idle" => (AnswerDue(e)' <=> AnswerDue(e))
  BY <1>2, <1>5, <1>6 DEF AnswerDue
<1>8. OneAnswer'
  BY <1>3, <1>4, <1>5, <1>6, <1>7 DEF BridgeInv, OneAnswer, InCall
<1>9. SuccessUnlessLate'
  BY <1>2, <1>3, <1>4 DEF BridgeInv, SuccessUnlessLate, SuccessMeansProtected, Succeeded
<1>10. QED
  BY <1>8, <1>9

\* The answer due is the same if no goroutine moves and no answer is touched.
LEMMA QuietAnswer ==
    ASSUME BridgeInv,
           UNCHANGED <<pc, sock, queue, pending, protected, done, error, ret, late>>,
           js' = "settling" <=> js = "settling"
    PROVE  OneAnswer' /\ SuccessUnlessLate'
<1>1. \A e \in Dialers : Socket(e)' = Socket(e)
  BY DEF Socket
<1>2. NoAnswerDue' <=> NoAnswerDue
  BY DEF NoAnswerDue
<1>3. \A e \in Dialers : Verdict(e)' <=> Verdict(e)
  BY <1>1 DEF Verdict
<1>4. \A e \in Dialers : AnswerDue(e)' <=> AnswerDue(e)
  BY <1>1, <1>2, <1>3 DEF AnswerDue
<1>5. OneAnswer'
  BY <1>2, <1>3, <1>4 DEF BridgeInv, OneAnswer
<1>6. SuccessUnlessLate'
  BY <1>1 DEF BridgeInv, SuccessUnlessLate, SuccessMeansProtected, Succeeded
<1>7. QED
  BY <1>5, <1>6

\* A goroutine that moves inside or outside the hook does not change the count.
LEMMA BusyMove ==
    ASSUME BridgeInv, NEW d \in Dialers, NEW x, pc' = [pc EXCEPT ![d] = x],
           x \in InHook <=> pc[d] \in InHook, protectBusy' = protectBusy
    PROVE  BusyCounts'
<1>1. pc \in [Dialers -> DialPc]
  BY DEF BridgeInv, TypeOK
<1>2. {e \in Dialers : pc'[e] \in InHook} = {e \in Dialers : pc[e] \in InHook}
  BY <1>1
<1>3. QED
  BY <1>2 DEF BridgeInv, BusyCounts

\* A goroutine that enters the hook is counted.
LEMMA BusyEnter ==
    ASSUME BridgeInv, NEW d \in Dialers, NEW x, pc' = [pc EXCEPT ![d] = x],
           x \in InHook, pc[d] \notin InHook, protectBusy' = protectBusy + 1
    PROVE  BusyCounts'
<1> DEFINE S == {e \in Dialers : pc[e] \in InHook}
<1>1. pc \in [Dialers -> DialPc]
  BY DEF BridgeInv, TypeOK
<1>2. {e \in Dialers : pc'[e] \in InHook} = S \cup {d}
  BY <1>1
<1>3. IsFiniteSet(S) /\ d \notin S
  BY FS_Subset
<1>4. Cardinality(S \cup {d}) = Cardinality(S) + 1
  BY <1>3, FS_AddElement
<1>5. QED
  BY <1>2, <1>4 DEF BridgeInv, BusyCounts

\* A goroutine that leaves the hook is discounted.
LEMMA BusyLeave ==
    ASSUME BridgeInv, NEW d \in Dialers, NEW x, pc' = [pc EXCEPT ![d] = x],
           x \notin InHook, pc[d] \in InHook, protectBusy' = protectBusy - 1
    PROVE  BusyCounts' /\ protectBusy' \in Nat
<1> DEFINE S == {e \in Dialers : pc[e] \in InHook}
<1>1. pc \in [Dialers -> DialPc]
  BY DEF BridgeInv, TypeOK
<1>2. {e \in Dialers : pc'[e] \in InHook} = S \ {d}
  BY <1>1
<1>3. IsFiniteSet(S) /\ d \in S
  BY FS_Subset
<1>4. Cardinality(S \ {d}) = Cardinality(S) - 1
  BY <1>3, FS_RemoveElement
<1>5. Cardinality(S \ {d}) \in Nat
  BY <1>3, FS_RemoveElement, FS_CardinalityType
<1>6. protectBusy = Cardinality(S)
  BY DEF BridgeInv, BusyCounts
<1>7. QED
  BY <1>2, <1>4, <1>5, <1>6 DEF BusyCounts

\* One goroutine at most is inside NapiProtectBridgeImpl.
LEMMA OneHolder ==
    ASSUME BridgeInv, NEW d \in Dialers, pc[d] \in InCall,
           NEW e \in Dialers, e # d
    PROVE  pc[e] \notin InCall
  BY DEF BridgeInv, MutexHeld

\* While the holder does not wait, and no call was given up, no answer is on its way.
LEMMA NoneWaiting ==
    ASSUME BridgeInv, ~late, NEW d \in Dialers, pc[d] \in InCall, pc[d] # "wait"
    PROVE  NoAnswerDue
<1>1. \A e \in Dialers : pc[e] # "wait"
  BY OneHolder DEF InCall
<1>2. QED
  BY <1>1 DEF BridgeInv, OneAnswer

\* The holder moves: what has to be shown is about the holder only.
LEMMA HolderAnswer ==
    ASSUME BridgeInv, NEW d \in Dialers, pc[d] \in InCall,
           NEW x, pc' = [pc EXCEPT ![d] = x],
           UNCHANGED <<sock, protected>>, late => late',
           \A e \in Dialers : e # d => ret'[e] = ret[e],
           ~late' => /\ x # "wait" => NoAnswerDue'
                     /\ x = "wait" => AnswerDue(d)'
                     /\ x \in {"resetError", "send"} => ~done'
                     /\ x = "return" => Verdict(d)'
                     /\ x # "timeout"
                     /\ x = "leave" /\ ret'[d] = "ok" => Socket(d) \in protected
    PROVE  OneAnswer' /\ SuccessUnlessLate'
<1> SUFFICES ASSUME ~late', ~late PROVE OneAnswer' /\ SuccessUnlessLate'
  BY DEF OneAnswer, SuccessUnlessLate
<1>1. pc \in [Dialers -> DialPc]
  BY DEF BridgeInv, TypeOK
<1>2. \A e \in Dialers : e # d => pc'[e] = pc[e] /\ pc[e] \notin InCall
  BY <1>1, OneHolder
<1>3. pc'[d] = x
  BY <1>1
<1>4. OneAnswer'
  BY <1>2, <1>3 DEF OneAnswer, InCall
<1>5. \A e \in Dialers : Socket(e)' = Socket(e)
  BY DEF Socket
<1>6. SuccessUnlessLate'
  BY <1>2, <1>3, <1>5 DEF BridgeInv, SuccessUnlessLate, SuccessMeansProtected, Succeeded
<1>7. QED
  BY <1>4, <1>6

\* The JavaScript thread moves the answer on: what has to be shown is about the goroutine
\* that waits for it.
LEMMA WaiterAnswer ==
    ASSUME BridgeInv, UNCHANGED <<pc, sock, ret, late>>, protected \subseteq protected',
           ~late => \E d \in Dialers : pc[d] = "wait" /\ AnswerDue(d)'
    PROVE  OneAnswer' /\ SuccessUnlessLate'
<1> SUFFICES ASSUME ~late PROVE OneAnswer' /\ SuccessUnlessLate'
  BY DEF OneAnswer, SuccessUnlessLate
<1>1. PICK d \in Dialers : pc[d] = "wait" /\ AnswerDue(d)'
  OBVIOUS
<1>2. \A e \in Dialers : e # d => pc[e] \notin InCall
  BY <1>1, OneHolder DEF InCall
<1>3. OneAnswer'
  BY <1>1, <1>2 DEF OneAnswer, InCall
<1>4. \A e \in Dialers : Socket(e)' = Socket(e)
  BY DEF Socket
<1>5. SuccessUnlessLate'
  BY <1>4 DEF BridgeInv, SuccessUnlessLate, SuccessMeansProtected, Succeeded
<1>6. QED
  BY <1>3, <1>5

\* While an answer is on its way, and no call was given up, a goroutine waits for it.
LEMMA SomeoneWaits ==
    ASSUME BridgeInv, ~late, ~NoAnswerDue
    PROVE  \E d \in Dialers : pc[d] = "wait" /\ AnswerDue(d)
  BY DEF BridgeInv, OneAnswer

-----------------------------------------------------------------------------
(* One lemma per action *)

\* A dial is bound to the hook or not.
LEMMA InvDialBegin == ASSUME BridgeInv, NEW d \in Dialers, DialBegin(d) PROVE BridgeInv'
<1>1. BridgeFlagsOK'
  BY DEF BridgeInv, TypeOK, BridgeFlagsOK, DialBegin, Goto
<1>2. TypeOK'
  BY <1>1 DEF BridgeInv, TypeOK, DialPc, InHook, InCall, JsPc, OpPc, Results, DialBegin, Goto
<1>3. MutexHeld'
  BY DEF BridgeInv, TypeOK, MutexHeld, InCall, DialBegin, Goto
<1>4. BusyCounts'
  BY BusyMove DEF InHook, InCall, DialBegin, Goto
<1>5. HookOff' /\ QuietAfterStop'
  BY SameHook DEF BridgeInv, TypeOK, InHook, InCall, DialBegin, Goto
<1>6. OneAnswer' /\ SuccessUnlessLate'
  BY SameAnswer DEF InCall, DialBegin, Goto
<1>7. QED
  BY <1>2, <1>3, <1>4, <1>5, <1>6 DEF BridgeInv

\* The control function calls the hook, or nil.
LEMMA InvDialControl == ASSUME BridgeInv, NEW d \in Dialers, DialControl(d) PROVE BridgeInv'
<1>1. BridgeFlagsOK'
  BY DEF BridgeInv, TypeOK, BridgeFlagsOK, DialControl, Goto
<1>2. TypeOK'
  BY <1>1 DEF BridgeInv, TypeOK, DialPc, InHook, InCall, JsPc, OpPc, Results, DialControl, Goto
<1>3. MutexHeld'
  BY DEF BridgeInv, TypeOK, MutexHeld, InCall, DialControl, Goto
<1>4. BusyCounts'
  <2>1. CASE hookSet
    BY <2>1, BusyMove DEF InHook, InCall, DialControl, Goto
  <2>2. CASE ~hookSet
    BY <2>2, SameCalls DEF DialControl
  <2>3. QED
    BY <2>1, <2>2
<1>5. HookOff' /\ QuietAfterStop'
  BY SameHook DEF BridgeInv, TypeOK, InHook, InCall, DialControl, Goto
<1>6. OneAnswer' /\ SuccessUnlessLate'
  <2>1. CASE hookSet
    BY <2>1, SameAnswer DEF InCall, DialControl, Goto
  <2>2. CASE ~hookSet
    BY <2>2, QuietAnswer DEF DialControl
  <2>3. QED
    BY <2>1, <2>2
<1>7. QED
  BY <1>2, <1>3, <1>4, <1>5, <1>6 DEF BridgeInv

\* The hook admits the call or lets the dial pass.
LEMMA InvHookEnter == ASSUME BridgeInv, NEW d \in Dialers, HookEnter(d) PROVE BridgeInv'
<1>1. BridgeFlagsOK'
  BY DEF BridgeInv, TypeOK, BridgeFlagsOK, HookEnter, Goto
<1>2. TypeOK'
  BY <1>1 DEF BridgeInv, TypeOK, DialPc, InHook, InCall, JsPc, OpPc, Results, HookEnter, Goto
<1>3. MutexHeld'
  BY DEF BridgeInv, TypeOK, MutexHeld, InCall, HookEnter, Goto
<1>4. BusyCounts'
  <2>1. CASE Admitted
    BY <2>1, BusyEnter DEF InHook, InCall, HookEnter, Goto
  <2>2. CASE ~Admitted
    BY <2>2, BusyMove DEF InHook, InCall, HookEnter, Goto
  <2>3. QED
    BY <2>1, <2>2
<1>5. HookOff' /\ QuietAfterStop'
  <2>1. CASE Admitted
    BY <2>1 DEF BridgeInv, Admitted, HookOff, QuietAfterStop, HookEnter
  <2>2. CASE ~Admitted
    BY <2>2, SameHook DEF BridgeInv, TypeOK, InHook, InCall, HookEnter, Goto
  <2>3. QED
    BY <2>1, <2>2
<1>6. OneAnswer' /\ SuccessUnlessLate'
  BY SameAnswer DEF InCall, HookEnter, Goto
<1>7. QED
  BY <1>2, <1>3, <1>4, <1>5, <1>6 DEF BridgeInv

\* The hook returns.
LEMMA InvHookLeave == ASSUME BridgeInv, NEW d \in Dialers, HookLeave(d) PROVE BridgeInv'
<1>1. BridgeFlagsOK'
  BY DEF BridgeInv, TypeOK, BridgeFlagsOK, HookLeave, Goto
<1>2. TypeOK'
  <2>1. protectBusy' \in Nat
    BY BusyLeave DEF InHook, InCall, HookLeave, Goto
  <2>2. QED
    BY <1>1, <2>1 DEF BridgeInv, TypeOK, DialPc, InHook, InCall, JsPc, OpPc, Results, HookLeave, Goto
<1>3. MutexHeld'
  BY DEF BridgeInv, TypeOK, MutexHeld, InCall, HookLeave, Goto
<1>4. BusyCounts'
  BY BusyLeave DEF InHook, InCall, HookLeave, Goto
<1>5. HookOff' /\ QuietAfterStop'
  BY SameHook DEF BridgeInv, TypeOK, InHook, InCall, HookLeave, Goto
<1>6. OneAnswer' /\ SuccessUnlessLate'
  BY SameAnswer DEF InCall, HookLeave, Goto
<1>7. QED
  BY <1>2, <1>3, <1>4, <1>5, <1>6 DEF BridgeInv

\* A dial goes on without the hook.
LEMMA InvDialBare == ASSUME BridgeInv, NEW d \in Dialers, DialBare(d) PROVE BridgeInv'
<1>1. BridgeFlagsOK'
  BY DEF BridgeInv, TypeOK, BridgeFlagsOK, DialBare, Goto
<1>2. TypeOK'
  BY <1>1 DEF BridgeInv, TypeOK, DialPc, InHook, InCall, JsPc, OpPc, Results, DialBare, Goto
<1>3. MutexHeld'
  BY DEF BridgeInv, TypeOK, MutexHeld, InCall, DialBare, Goto
<1>4. BusyCounts'
  BY BusyMove DEF InHook, InCall, DialBare, Goto
<1>5. HookOff' /\ QuietAfterStop'
  BY SameHook DEF BridgeInv, TypeOK, InHook, InCall, DialBare, Goto
<1>6. OneAnswer' /\ SuccessUnlessLate'
  BY SameAnswer DEF InCall, DialBare, Goto
<1>7. QED
  BY <1>2, <1>3, <1>4, <1>5, <1>6 DEF BridgeInv

\* The call takes the mutex or is refused.
LEMMA InvCallLock == ASSUME BridgeInv, NEW d \in Dialers, CallLock(d) PROVE BridgeInv'
<1>1. BridgeFlagsOK'
  BY DEF BridgeInv, TypeOK, BridgeFlagsOK, CallLock, CallFrame, Goto
<1>2. TypeOK'
  BY <1>1 DEF BridgeInv, TypeOK, DialPc, InHook, InCall, JsPc, OpPc, Results, CallLock, CallFrame, Goto
<1>3. MutexHeld'
  <2>1. pc \in [Dialers -> DialPc]
    BY DEF BridgeInv, TypeOK
  <2>2. \A e \in Dialers : pc[e] \notin InCall
    BY DEF BridgeInv, MutexHeld, CallLock, CallFree
  <2>3. CASE tsfn
    BY <2>1, <2>2, <2>3 DEF MutexHeld, InCall, CallLock, Goto
  <2>4. CASE ~tsfn
    BY <2>1, <2>2, <2>4 DEF MutexHeld, InCall, CallLock, CallFree, Goto
  <2>5. QED
    BY <2>3, <2>4
<1>4. BusyCounts'
  BY BusyMove DEF InHook, InCall, CallLock, CallFrame, Goto
<1>5. HookOff' /\ QuietAfterStop'
  BY SameHook DEF BridgeInv, TypeOK, InHook, InCall, CallLock, CallFrame, Goto
<1>6. OneAnswer' /\ SuccessUnlessLate'
  <2>1. CASE tsfn
    BY <2>1, SameAnswer DEF InCall, CallLock, CallFrame, Goto
  <2>2. CASE ~tsfn
    <3>1. pc \in [Dialers -> DialPc] /\ ret \in [Dialers -> Results]
      BY DEF BridgeInv, TypeOK
    <3>2. /\ pc' = [pc EXCEPT ![d] = "leave"] /\ ret' = [ret EXCEPT ![d] = "failed"]
          /\ pc[d] = "enter"
          /\ UNCHANGED <<sock, queue, pending, protected, done, error, js, late>>
      BY <2>2 DEF CallLock, CallFrame, Goto
    <3>3. \A e \in Dialers : Socket(e)' = Socket(e)
      BY <3>2 DEF Socket
    <3>4. \A e \in Dialers : (Verdict(e)' <=> Verdict(e)) /\ (AnswerDue(e)' <=> AnswerDue(e))
      BY <3>2, <3>3 DEF Verdict, AnswerDue, NoAnswerDue
    <3>5. NoAnswerDue' <=> NoAnswerDue
      BY <3>2 DEF NoAnswerDue
    <3>6. OneAnswer'
      BY <3>1, <3>2, <3>4, <3>5 DEF BridgeInv, OneAnswer
    <3>7. SuccessUnlessLate'
      BY <3>1, <3>2, <3>3 DEF BridgeInv, SuccessUnlessLate, SuccessMeansProtected, Succeeded
    <3>8. QED
      BY <3>6, <3>7
  <2>3. QED
    BY <2>1, <2>2
<1>7. QED
  BY <1>2, <1>3, <1>4, <1>5, <1>6 DEF BridgeInv

\* The call clears the done flag.
LEMMA InvCallReset == ASSUME BridgeInv, NEW d \in Dialers, CallReset(d) PROVE BridgeInv'
<1>1. BridgeFlagsOK'
  BY DEF BridgeInv, TypeOK, BridgeFlagsOK, CallReset, CallFrame, Goto
<1>2. TypeOK'
  BY <1>1 DEF BridgeInv, TypeOK, DialPc, InHook, InCall, JsPc, OpPc, Results, CallReset, CallFrame, Goto
<1>3. MutexHeld'
  BY DEF BridgeInv, TypeOK, MutexHeld, InCall, CallReset, CallFrame, Goto
<1>4. BusyCounts'
  BY BusyMove DEF InHook, InCall, CallReset, CallFrame, Goto
<1>5. HookOff' /\ QuietAfterStop'
  BY SameHook DEF BridgeInv, TypeOK, InHook, InCall, CallReset, CallFrame, Goto
<1>6. OneAnswer' /\ SuccessUnlessLate'
  <2>1. ~late => NoAnswerDue' /\ ~done'
    BY NoneWaiting DEF NoAnswerDue, InCall, CallReset, CallFrame, Goto
  <2>2. QED
    BY <2>1, HolderAnswer DEF InCall, CallReset, CallFrame, Goto
<1>7. QED
  BY <1>2, <1>3, <1>4, <1>5, <1>6 DEF BridgeInv

\* The call clears the error.
LEMMA InvCallResetError == ASSUME BridgeInv, NEW d \in Dialers, CallResetError(d) PROVE BridgeInv'
<1>1. BridgeFlagsOK'
  BY DEF BridgeInv, TypeOK, BridgeFlagsOK, CallResetError, CallFrame, Goto
<1>2. TypeOK'
  BY <1>1 DEF BridgeInv, TypeOK, DialPc, InHook, InCall, JsPc, OpPc, Results, CallResetError, CallFrame, Goto
<1>3. MutexHeld'
  BY DEF BridgeInv, TypeOK, MutexHeld, InCall, CallResetError, CallFrame, Goto
<1>4. BusyCounts'
  BY BusyMove DEF InHook, InCall, CallResetError, CallFrame, Goto
<1>5. HookOff' /\ QuietAfterStop'
  BY SameHook DEF BridgeInv, TypeOK, InHook, InCall, CallResetError, CallFrame, Goto
<1>6. OneAnswer' /\ SuccessUnlessLate'
  <2>1. ~late => NoAnswerDue' /\ ~done'
    BY NoneWaiting DEF BridgeInv, OneAnswer, NoAnswerDue, InCall, CallResetError, CallFrame, Goto
  <2>2. QED
    BY <2>1, HolderAnswer DEF InCall, CallResetError, CallFrame, Goto
<1>7. QED
  BY <1>2, <1>3, <1>4, <1>5, <1>6 DEF BridgeInv

\* The call is queued or refused.
LEMMA InvCallSend == ASSUME BridgeInv, NEW d \in Dialers, CallSend(d) PROVE BridgeInv'
<1>1. BridgeFlagsOK'
  BY DEF BridgeInv, TypeOK, BridgeFlagsOK, CallSend, CallFrame, Goto
<1>2. TypeOK'
  <2>1. Socket(d) \in Sockets
    BY DEF BridgeInv, TypeOK, Socket, Sockets
  <2>2. queue' \in Seq(Sockets)
    <3>1. queue \in Seq(Sockets)
      BY DEF BridgeInv, TypeOK
    <3>2. queue' = queue \/ queue' = Append(queue, Socket(d))
      BY DEF CallSend
    <3>3. QED
      BY <2>1, <3>1, <3>2
  <2>3. QED
    BY <1>1, <2>2 DEF BridgeInv, TypeOK, DialPc, InHook, InCall, JsPc, OpPc, Results, CallSend, CallFrame, Goto
<1>3. MutexHeld'
  BY DEF BridgeInv, TypeOK, MutexHeld, InCall, CallSend, CallFrame, Goto
<1>4. BusyCounts'
  BY BusyMove DEF InHook, InCall, CallSend, CallFrame, Goto
<1>5. HookOff' /\ QuietAfterStop'
  BY SameHook DEF BridgeInv, TypeOK, InHook, InCall, CallSend, CallFrame, Goto
<1>6. OneAnswer' /\ SuccessUnlessLate'
  <2>1. ~late => NoAnswerDue /\ ~done
    BY NoneWaiting DEF BridgeInv, OneAnswer, InCall, CallSend, Goto
  <2>2. CASE tsfn
    <3>1. Socket(d)' = Socket(d)
      BY DEF Socket, CallSend, CallFrame
    <3>2. ~late => queue' = <<Socket(d)>>
      BY <2>1, <2>2 DEF NoAnswerDue, CallSend
    <3>3. ~late => AnswerDue(d)'
      BY <2>1, <2>2, <3>1, <3>2 DEF NoAnswerDue, AnswerDue, CallSend, CallFrame
    <3>4. QED
      BY <2>2, <3>3, HolderAnswer DEF InCall, CallSend, CallFrame, Goto
  <2>3. CASE ~tsfn
    <3>1. ret'[d] = "failed" /\ \A e \in Dialers : e # d => ret'[e] = ret[e]
      BY <2>3 DEF BridgeInv, TypeOK, CallSend
    <3>2. ~late => NoAnswerDue'
      BY <2>1, <2>3 DEF NoAnswerDue, CallSend, CallFrame
    <3>3. QED
      BY <2>3, <3>1, <3>2, HolderAnswer DEF InCall, CallSend, CallFrame, Goto
  <2>4. QED
    BY <2>2, <2>3
<1>7. QED
  BY <1>2, <1>3, <1>4, <1>5, <1>6 DEF BridgeInv

\* The call has seen the done flag.
LEMMA InvCallAnswered == ASSUME BridgeInv, NEW d \in Dialers, CallAnswered(d) PROVE BridgeInv'
<1>1. BridgeFlagsOK'
  BY DEF BridgeInv, TypeOK, BridgeFlagsOK, CallAnswered, CallFrame, Goto
<1>2. TypeOK'
  BY <1>1 DEF BridgeInv, TypeOK, DialPc, InHook, InCall, JsPc, OpPc, Results, CallAnswered, CallFrame, Goto
<1>3. MutexHeld'
  BY DEF BridgeInv, TypeOK, MutexHeld, InCall, CallAnswered, CallFrame, Goto
<1>4. BusyCounts'
  BY BusyMove DEF InHook, InCall, CallAnswered, CallFrame, Goto
<1>5. HookOff' /\ QuietAfterStop'
  BY SameHook DEF BridgeInv, TypeOK, InHook, InCall, CallAnswered, CallFrame, Goto
<1>6. OneAnswer' /\ SuccessUnlessLate'
  <2>1. ~late => NoAnswerDue /\ Verdict(d)
    BY DEF BridgeInv, OneAnswer, AnswerDue, CallAnswered, Goto
  <2>2. NoAnswerDue' = NoAnswerDue /\ Socket(d)' = Socket(d)
    BY DEF NoAnswerDue, Socket, CallAnswered, CallFrame
  <2>3. Verdict(d)' <=> Verdict(d)
    BY <2>2 DEF Verdict, CallAnswered, CallFrame
  <2>4. QED
    BY <2>1, <2>2, <2>3, HolderAnswer DEF InCall, CallAnswered, CallFrame, Goto
<1>7. QED
  BY <1>2, <1>3, <1>4, <1>5, <1>6 DEF BridgeInv

\* The call gives up.
LEMMA InvCallTimeout == ASSUME BridgeInv, NEW d \in Dialers, CallTimeout(d) PROVE BridgeInv'
<1>1. BridgeFlagsOK'
  BY DEF BridgeInv, TypeOK, BridgeFlagsOK, CallTimeout, CallFrame, Goto
<1>2. TypeOK'
  BY <1>1 DEF BridgeInv, TypeOK, DialPc, InHook, InCall, JsPc, OpPc, Results, CallTimeout, CallFrame, Goto
<1>3. MutexHeld'
  BY DEF BridgeInv, TypeOK, MutexHeld, InCall, CallTimeout, CallFrame, Goto
<1>4. BusyCounts'
  BY BusyMove DEF InHook, InCall, CallTimeout, CallFrame, Goto
<1>5. HookOff' /\ QuietAfterStop'
  BY SameHook DEF BridgeInv, TypeOK, InHook, InCall, CallTimeout, CallFrame, Goto
<1>6. OneAnswer' /\ SuccessUnlessLate'
  BY DEF OneAnswer, SuccessUnlessLate, CallTimeout
<1>7. QED
  BY <1>2, <1>3, <1>4, <1>5, <1>6 DEF BridgeInv

\* The time-out becomes the error.
LEMMA InvCallTimeoutError == ASSUME BridgeInv, NEW d \in Dialers, CallTimeoutError(d) PROVE BridgeInv'
<1>1. BridgeFlagsOK'
  BY DEF BridgeInv, TypeOK, BridgeFlagsOK, CallTimeoutError, CallFrame, Goto
<1>2. TypeOK'
  BY <1>1 DEF BridgeInv, TypeOK, DialPc, InHook, InCall, JsPc, OpPc, Results, CallTimeoutError, CallFrame, Goto
<1>3. MutexHeld'
  BY DEF BridgeInv, TypeOK, MutexHeld, InCall, CallTimeoutError, CallFrame, Goto
<1>4. BusyCounts'
  BY BusyMove DEF InHook, InCall, CallTimeoutError, CallFrame, Goto
<1>5. HookOff' /\ QuietAfterStop'
  BY SameHook DEF BridgeInv, TypeOK, InHook, InCall, CallTimeoutError, CallFrame, Goto
<1>6. OneAnswer' /\ SuccessUnlessLate'
  <2>1. late'
    BY DEF BridgeInv, OneAnswer, CallTimeoutError, Goto
  <2>2. QED
    BY <2>1 DEF OneAnswer, SuccessUnlessLate
<1>7. QED
  BY <1>2, <1>3, <1>4, <1>5, <1>6 DEF BridgeInv

\* The call returns the error.
LEMMA InvCallReturn == ASSUME BridgeInv, NEW d \in Dialers, CallReturn(d) PROVE BridgeInv'
<1>1. BridgeFlagsOK'
  BY DEF BridgeInv, TypeOK, BridgeFlagsOK, CallReturn, CallFrame, Goto
<1>2. TypeOK'
  BY <1>1 DEF BridgeInv, TypeOK, DialPc, InHook, InCall, JsPc, OpPc, Results, CallReturn, CallFrame, Goto
<1>3. MutexHeld'
  BY DEF BridgeInv, TypeOK, MutexHeld, InCall, CallReturn, CallFrame, Goto
<1>4. BusyCounts'
  BY BusyMove DEF InHook, InCall, CallReturn, CallFrame, Goto
<1>5. HookOff' /\ QuietAfterStop'
  BY SameHook DEF BridgeInv, TypeOK, InHook, InCall, CallReturn, CallFrame, Goto
<1>6. OneAnswer' /\ SuccessUnlessLate'
  <2>1. ~late => NoAnswerDue' /\ Verdict(d)
    BY NoneWaiting DEF BridgeInv, OneAnswer, NoAnswerDue, InCall, CallReturn, CallFrame, Goto
  <2>2. ret'[d] = error /\ \A e \in Dialers : e # d => ret'[e] = ret[e]
    BY DEF BridgeInv, TypeOK, CallReturn
  <2>3. QED
    BY <2>1, <2>2, HolderAnswer DEF Verdict, InCall, CallReturn, CallFrame, Goto
<1>7. QED
  BY <1>2, <1>3, <1>4, <1>5, <1>6 DEF BridgeInv

\* The callback returns a promise.
LEMMA InvJsCallback == ASSUME BridgeInv, JsCallback PROVE BridgeInv'
<1>1. BridgeFlagsOK'
  BY DEF BridgeInv, TypeOK, BridgeFlagsOK, JsCallback, JsFrame, JsRuns
<1>2. TypeOK'
  <2>1. queue' \in Seq(Sockets) /\ Head(queue) \in Sockets
    BY DEF BridgeInv, TypeOK, JsCallback
  <2>2. vpnConnection \in BOOLEAN
    BY DEF BridgeInv, TypeOK, BridgeFlagsOK
  <2>3. pending' \subseteq Promise
    BY <2>1, <2>2 DEF BridgeInv, TypeOK, Promise, JsCallback
  <2>4. QED
    BY <1>1, <2>1, <2>3 DEF BridgeInv, TypeOK, DialPc, InHook, InCall, JsPc, OpPc, Results, JsCallback, JsFrame, JsRuns
<1>3. MutexHeld'
  BY SameCalls DEF JsCallback, JsFrame, JsRuns
<1>4. BusyCounts'
  BY SameCalls DEF JsCallback, JsFrame, JsRuns
<1>5. HookOff' /\ QuietAfterStop'
  BY SameHook DEF JsCallback, JsFrame, JsRuns
<1>6. OneAnswer' /\ SuccessUnlessLate'
  <2> SUFFICES ASSUME ~late
               PROVE  \E d \in Dialers : pc[d] = "wait" /\ AnswerDue(d)'
    BY WaiterAnswer DEF JsCallback, JsFrame
  <2>1. PICK d \in Dialers : pc[d] = "wait" /\ AnswerDue(d)
    BY SomeoneWaits DEF NoAnswerDue, JsCallback, JsRuns
  <2>2. Socket(d)' = Socket(d)
    BY DEF Socket, JsCallback, JsFrame
  <2>3. ~done /\ queue = <<Socket(d)>> /\ pending = {}
    BY <2>1 DEF AnswerDue, NoAnswerDue, JsCallback
  <2>4. queue' = <<>> /\ pending' = {[sock |-> Socket(d), connected |-> vpnConnection]}
    BY <2>3 DEF JsCallback
  <2>5. vpnConnection \in BOOLEAN
    BY DEF BridgeInv, TypeOK, BridgeFlagsOK
  <2>6. QED
    BY <2>1, <2>2, <2>3, <2>4, <2>5 DEF AnswerDue, JsCallback, JsRuns
<1>7. QED
  BY <1>2, <1>3, <1>4, <1>5, <1>6 DEF BridgeInv

\* The callback fails.
LEMMA InvJsCallbackFails == ASSUME BridgeInv, JsCallbackFails PROVE BridgeInv'
<1>1. BridgeFlagsOK'
  BY DEF BridgeInv, TypeOK, BridgeFlagsOK, JsCallbackFails, JsFrame, JsRuns
<1>2. TypeOK'
  BY <1>1 DEF BridgeInv, TypeOK, DialPc, InHook, InCall, JsPc, OpPc, Results, JsCallbackFails, JsFrame, JsRuns
<1>3. MutexHeld'
  BY SameCalls DEF JsCallbackFails, JsFrame, JsRuns
<1>4. BusyCounts'
  BY SameCalls DEF JsCallbackFails, JsFrame, JsRuns
<1>5. HookOff' /\ QuietAfterStop'
  BY SameHook DEF JsCallbackFails, JsFrame, JsRuns
<1>6. OneAnswer' /\ SuccessUnlessLate'
  <2> SUFFICES ASSUME ~late
               PROVE  \E d \in Dialers : pc[d] = "wait" /\ AnswerDue(d)'
    BY WaiterAnswer DEF JsCallbackFails, JsFrame
  <2>1. PICK d \in Dialers : pc[d] = "wait" /\ AnswerDue(d)
    BY SomeoneWaits DEF NoAnswerDue, JsCallbackFails, JsRuns
  <2>2. Socket(d)' = Socket(d)
    BY DEF Socket, JsCallbackFails, JsFrame
  <2>3. ~done /\ queue = <<Socket(d)>> /\ pending = {}
    BY <2>1 DEF AnswerDue, NoAnswerDue, JsCallbackFails
  <2>4. queue' = <<>>
    BY <2>3 DEF JsCallbackFails
  <2>5. QED
    BY <2>1, <2>3, <2>4 DEF AnswerDue, Verdict, JsCallbackFails, JsRuns
<1>7. QED
  BY <1>2, <1>3, <1>4, <1>5, <1>6 DEF BridgeInv

\* A promise settles: the error is stored.
LEMMA InvJsSettle == ASSUME BridgeInv, NEW c \in pending, JsSettle(c) PROVE BridgeInv'
<1>1. BridgeFlagsOK'
  BY DEF BridgeInv, TypeOK, BridgeFlagsOK, JsSettle, JsFrame, JsRuns
<1>2. TypeOK'
  <2>1. c.sock \in Sockets
    BY DEF BridgeInv, TypeOK, Promise
  <2>2. pending' \subseteq Promise /\ protected' \subseteq Sockets
    BY <2>1 DEF BridgeInv, TypeOK, JsSettle
  <2>3. QED
    BY <1>1, <2>2 DEF BridgeInv, TypeOK, DialPc, InHook, InCall, JsPc, OpPc, Results, JsSettle, JsFrame, JsRuns
<1>3. MutexHeld'
  BY SameCalls DEF JsSettle, JsFrame, JsRuns
<1>4. BusyCounts'
  BY SameCalls DEF JsSettle, JsFrame, JsRuns
<1>5. HookOff' /\ QuietAfterStop'
  BY SameHook DEF JsSettle, JsFrame, JsRuns
<1>6. OneAnswer' /\ SuccessUnlessLate'
  <2> SUFFICES ASSUME ~late
               PROVE  \E d \in Dialers : pc[d] = "wait" /\ AnswerDue(d)'
    BY WaiterAnswer DEF JsSettle, JsFrame
  <2>1. PICK d \in Dialers : pc[d] = "wait" /\ AnswerDue(d)
    BY SomeoneWaits DEF NoAnswerDue, JsSettle, JsRuns
  <2>2. Socket(d)' = Socket(d)
    BY DEF Socket, JsSettle, JsFrame
  <2>3. PICK b \in BOOLEAN :
          ~done /\ queue = <<>> /\ pending = {[sock |-> Socket(d), connected |-> b]}
    BY <2>1 DEF AnswerDue, NoAnswerDue
  <2>4. c.sock = Socket(d) /\ pending' = {}
    BY <2>3 DEF JsSettle
  <2>5. Verdict(d)'
    BY <2>2, <2>4 DEF Verdict, JsSettle
  <2>6. QED
    BY <2>1, <2>3, <2>4, <2>5 DEF AnswerDue, JsSettle, JsRuns
<1>7. QED
  BY <1>2, <1>3, <1>4, <1>5, <1>6 DEF BridgeInv

\* The done flag is stored.
LEMMA InvJsSettled == ASSUME BridgeInv, JsSettled PROVE BridgeInv'
<1>1. BridgeFlagsOK'
  BY DEF BridgeInv, TypeOK, BridgeFlagsOK, JsSettled, JsFrame, JsRuns
<1>2. TypeOK'
  BY <1>1 DEF BridgeInv, TypeOK, DialPc, InHook, InCall, JsPc, OpPc, Results, JsSettled, JsFrame, JsRuns
<1>3. MutexHeld'
  BY SameCalls DEF JsSettled, JsFrame, JsRuns
<1>4. BusyCounts'
  BY SameCalls DEF JsSettled, JsFrame, JsRuns
<1>5. HookOff' /\ QuietAfterStop'
  BY SameHook DEF JsSettled, JsFrame, JsRuns
<1>6. OneAnswer' /\ SuccessUnlessLate'
  <2> SUFFICES ASSUME ~late
               PROVE  \E d \in Dialers : pc[d] = "wait" /\ AnswerDue(d)'
    BY WaiterAnswer DEF JsSettled, JsFrame
  <2>1. PICK d \in Dialers : pc[d] = "wait" /\ AnswerDue(d)
    BY SomeoneWaits DEF NoAnswerDue, JsSettled, JsRuns
  <2>2. Socket(d)' = Socket(d)
    BY DEF Socket, JsSettled, JsFrame
  <2>3. queue = <<>> /\ pending = {} /\ Verdict(d)
    BY <2>1 DEF AnswerDue, NoAnswerDue, JsSettled, JsRuns
  <2>4. Verdict(d)'
    BY <2>2, <2>3 DEF Verdict, JsSettled
  <2>5. NoAnswerDue'
    BY <2>3 DEF NoAnswerDue, JsSettled, JsRuns
  <2>6. done'
    BY DEF JsSettled
  <2>7. QED
    BY <2>1, <2>4, <2>5, <2>6 DEF AnswerDue
<1>7. QED
  BY <1>2, <1>3, <1>4, <1>5, <1>6 DEF BridgeInv

\* The old handle is released.
LEMMA InvJsRegister == ASSUME BridgeInv, JsRegister PROVE BridgeInv'
<1>1. BridgeFlagsOK'
  BY DEF BridgeInv, TypeOK, BridgeFlagsOK, JsRegister, JsFrame, JsRuns, JsBudget
<1>2. TypeOK'
  BY <1>1 DEF BridgeInv, TypeOK, DialPc, InHook, InCall, JsPc, OpPc, Results, JsRegister, JsFrame, JsRuns, JsBudget
<1>3. MutexHeld'
  BY SameCalls DEF JsRegister, JsFrame, JsRuns, JsBudget
<1>4. BusyCounts'
  BY SameCalls DEF JsRegister, JsFrame, JsRuns, JsBudget
<1>5. HookOff' /\ QuietAfterStop'
  BY SameHook DEF JsRegister, JsFrame, JsRuns, JsBudget
<1>6. OneAnswer' /\ SuccessUnlessLate'
  BY QuietAnswer DEF JsRegister, JsFrame, JsRuns, JsBudget
<1>7. QED
  BY <1>2, <1>3, <1>4, <1>5, <1>6 DEF BridgeInv

\* The new handle is there or not.
LEMMA InvJsRegistered == ASSUME BridgeInv, JsRegistered PROVE BridgeInv'
<1>1. BridgeFlagsOK'
  BY DEF BridgeInv, TypeOK, BridgeFlagsOK, JsRegistered, JsFrame, JsRuns
<1>2. TypeOK'
  BY <1>1 DEF BridgeInv, TypeOK, DialPc, InHook, InCall, JsPc, OpPc, Results, JsRegistered, JsFrame, JsRuns
<1>3. MutexHeld'
  BY SameCalls DEF JsRegistered, JsFrame, JsRuns
<1>4. BusyCounts'
  BY SameCalls DEF JsRegistered, JsFrame, JsRuns
<1>5. HookOff' /\ QuietAfterStop'
  BY SameHook DEF JsRegistered, JsFrame, JsRuns
<1>6. OneAnswer' /\ SuccessUnlessLate'
  BY QuietAnswer DEF JsRegistered, JsFrame, JsRuns
<1>7. QED
  BY <1>2, <1>3, <1>4, <1>5, <1>6 DEF BridgeInv

\* The connection is gone.
LEMMA InvJsDestroy == ASSUME BridgeInv, JsDestroy PROVE BridgeInv'
<1>1. BridgeFlagsOK'
  BY DEF BridgeInv, TypeOK, BridgeFlagsOK, JsDestroy, JsFrame, JsRuns, JsBudget
<1>2. TypeOK'
  BY <1>1 DEF BridgeInv, TypeOK, DialPc, InHook, InCall, JsPc, OpPc, Results, JsDestroy, JsFrame, JsRuns, JsBudget
<1>3. MutexHeld'
  BY SameCalls DEF JsDestroy, JsFrame, JsRuns, JsBudget
<1>4. BusyCounts'
  BY SameCalls DEF JsDestroy, JsFrame, JsRuns, JsBudget
<1>5. HookOff' /\ QuietAfterStop'
  BY SameHook DEF JsDestroy, JsFrame, JsRuns, JsBudget
<1>6. OneAnswer' /\ SuccessUnlessLate'
  BY QuietAnswer DEF JsDestroy, JsFrame, JsRuns, JsBudget
<1>7. QED
  BY <1>2, <1>3, <1>4, <1>5, <1>6 DEF BridgeInv

\* A synchronous native call waits for the mutex.
LEMMA InvJsSync == ASSUME BridgeInv, NEW c \in SyncCalls, JsSync(c) PROVE BridgeInv'
<1>1. BridgeFlagsOK'
  BY DEF BridgeInv, TypeOK, BridgeFlagsOK, JsSync, JsFrame, JsRuns, JsBudget
<1>2. TypeOK'
  BY <1>1 DEF BridgeInv, TypeOK, DialPc, InHook, InCall, JsPc, OpPc, Results, JsSync, JsFrame, JsRuns, JsBudget
<1>3. MutexHeld'
  BY SameCalls DEF JsSync, JsFrame, JsRuns, JsBudget
<1>4. BusyCounts'
  BY SameCalls DEF JsSync, JsFrame, JsRuns, JsBudget
<1>5. HookOff' /\ QuietAfterStop'
  BY SameHook DEF JsSync, JsFrame, JsRuns, JsBudget
<1>6. OneAnswer' /\ SuccessUnlessLate'
  BY QuietAnswer DEF JsSync, JsFrame, JsRuns, JsBudget
<1>7. QED
  BY <1>2, <1>3, <1>4, <1>5, <1>6 DEF BridgeInv

\* A synchronous native call has had the mutex.
LEMMA InvJsSynced == ASSUME BridgeInv, NEW c \in SyncCalls, JsSynced(c) PROVE BridgeInv'
<1>1. BridgeFlagsOK'
  BY DEF BridgeInv, TypeOK, BridgeFlagsOK, JsSynced, JsFrame, JsRuns
<1>2. TypeOK'
  BY <1>1 DEF BridgeInv, TypeOK, DialPc, InHook, InCall, JsPc, OpPc, Results, JsSynced, JsFrame, JsRuns
<1>3. MutexHeld'
  BY SameCalls DEF JsSynced, JsFrame, JsRuns
<1>4. BusyCounts'
  BY SameCalls DEF JsSynced, JsFrame, JsRuns
<1>5. HookOff' /\ QuietAfterStop'
  <2>1. op' = "none" /\ pc' = pc /\ (quiet' => quiet) /\ (quiet' /\ protectOn' => protectOn)
    BY DEF JsSynced, JsFrame
  <2>2. QED
    BY <2>1 DEF BridgeInv, HookOff, QuietAfterStop
<1>6. OneAnswer' /\ SuccessUnlessLate'
  BY QuietAnswer DEF JsSynced, JsFrame, JsRuns
<1>7. QED
  BY <1>2, <1>3, <1>4, <1>5, <1>6 DEF BridgeInv

\* A start sets the protect function.
LEMMA InvStartBridge == ASSUME BridgeInv, StartBridge PROVE BridgeInv'
<1>1. BridgeFlagsOK'
  BY DEF BridgeInv, TypeOK, BridgeFlagsOK, StartBridge, OpBegin, OpFrame
<1>2. TypeOK'
  BY <1>1 DEF BridgeInv, TypeOK, DialPc, InHook, InCall, JsPc, OpPc, Results, StartBridge, OpBegin, OpFrame
<1>3. MutexHeld'
  BY SameCalls DEF StartBridge, OpBegin, OpFrame
<1>4. BusyCounts'
  BY SameCalls DEF StartBridge, OpBegin, OpFrame
<1>5. HookOff' /\ QuietAfterStop'
  BY DEF BridgeInv, HookOff, QuietAfterStop, StartBridge, OpBegin, OpFrame
<1>6. OneAnswer' /\ SuccessUnlessLate'
  BY QuietAnswer DEF StartBridge, OpBegin, OpFrame
<1>7. QED
  BY <1>2, <1>3, <1>4, <1>5, <1>6 DEF BridgeInv

\* A start parses under stateMu.
LEMMA InvStartParse == ASSUME BridgeInv, StartParse PROVE BridgeInv'
<1>1. BridgeFlagsOK'
  BY DEF BridgeInv, TypeOK, BridgeFlagsOK, StartParse, OpFrame
<1>2. TypeOK'
  BY <1>1 DEF BridgeInv, TypeOK, DialPc, InHook, InCall, JsPc, OpPc, Results, StartParse, OpFrame
<1>3. MutexHeld'
  BY SameCalls DEF StartParse, OpFrame
<1>4. BusyCounts'
  BY SameCalls DEF StartParse, OpFrame
<1>5. HookOff' /\ QuietAfterStop'
  BY DEF BridgeInv, HookOff, QuietAfterStop, StartParse, OpFrame
<1>6. OneAnswer' /\ SuccessUnlessLate'
  BY QuietAnswer DEF StartParse, OpFrame
<1>7. QED
  BY <1>2, <1>3, <1>4, <1>5, <1>6 DEF BridgeInv

\* The core runs.
LEMMA InvStartParsed == ASSUME BridgeInv, StartParsed PROVE BridgeInv'
<1>1. BridgeFlagsOK'
  BY DEF BridgeInv, TypeOK, BridgeFlagsOK, StartParsed, OpFrame
<1>2. TypeOK'
  BY <1>1 DEF BridgeInv, TypeOK, DialPc, InHook, InCall, JsPc, OpPc, Results, StartParsed, OpFrame
<1>3. MutexHeld'
  BY SameCalls DEF StartParsed, OpFrame
<1>4. BusyCounts'
  BY SameCalls DEF StartParsed, OpFrame
<1>5. HookOff' /\ QuietAfterStop'
  BY DEF BridgeInv, HookOff, QuietAfterStop, StartParsed, OpFrame
<1>6. OneAnswer' /\ SuccessUnlessLate'
  BY QuietAnswer DEF StartParsed, OpFrame
<1>7. QED
  BY <1>2, <1>3, <1>4, <1>5, <1>6 DEF BridgeInv

\* The configuration was refused.
LEMMA InvStartFailed == ASSUME BridgeInv, StartFailed PROVE BridgeInv'
<1>1. BridgeFlagsOK'
  BY DEF BridgeInv, TypeOK, BridgeFlagsOK, StartFailed, OpFrame
<1>2. TypeOK'
  BY <1>1 DEF BridgeInv, TypeOK, DialPc, InHook, InCall, JsPc, OpPc, Results, StartFailed, OpFrame
<1>3. MutexHeld'
  BY SameCalls DEF StartFailed, OpFrame
<1>4. BusyCounts'
  BY SameCalls DEF StartFailed, OpFrame
<1>5. HookOff' /\ QuietAfterStop'
  BY DEF BridgeInv, HookOff, QuietAfterStop, StartFailed, OpFrame
<1>6. OneAnswer' /\ SuccessUnlessLate'
  BY QuietAnswer DEF StartFailed, OpFrame
<1>7. QED
  BY <1>2, <1>3, <1>4, <1>5, <1>6 DEF BridgeInv

\* The hook is installed.
LEMMA InvStartHooked == ASSUME BridgeInv, StartHooked PROVE BridgeInv'
<1>1. BridgeFlagsOK'
  BY DEF BridgeInv, TypeOK, BridgeFlagsOK, StartHooked, OpFrame
<1>2. TypeOK'
  BY <1>1 DEF BridgeInv, TypeOK, DialPc, InHook, InCall, JsPc, OpPc, Results, StartHooked, OpFrame
<1>3. MutexHeld'
  BY SameCalls DEF StartHooked, OpFrame
<1>4. BusyCounts'
  BY SameCalls DEF StartHooked, OpFrame
<1>5. HookOff' /\ QuietAfterStop'
  BY DEF BridgeInv, HookOff, QuietAfterStop, StartHooked, OpFrame
<1>6. OneAnswer' /\ SuccessUnlessLate'
  BY QuietAnswer DEF StartHooked, OpFrame
<1>7. QED
  BY <1>2, <1>3, <1>4, <1>5, <1>6 DEF BridgeInv

\* The hook is taken away.
LEMMA InvStopBegin == ASSUME BridgeInv, NEW o \in {"stop", "disable"}, StopBegin(o) PROVE BridgeInv'
<1>1. BridgeFlagsOK'
  BY DEF BridgeInv, TypeOK, BridgeFlagsOK, StopBegin, OpBegin, OpFrame
<1>2. TypeOK'
  BY <1>1 DEF BridgeInv, TypeOK, DialPc, InHook, InCall, JsPc, OpPc, Results, StopBegin, OpBegin, OpFrame
<1>3. MutexHeld'
  BY SameCalls DEF StopBegin, OpBegin, OpFrame
<1>4. BusyCounts'
  BY SameCalls DEF StopBegin, OpBegin, OpFrame
<1>5. HookOff' /\ QuietAfterStop'
  BY DEF BridgeInv, HookOff, QuietAfterStop, StopBegin, OpBegin, OpFrame
<1>6. OneAnswer' /\ SuccessUnlessLate'
  BY QuietAnswer DEF StopBegin, OpBegin, OpFrame
<1>7. QED
  BY <1>2, <1>3, <1>4, <1>5, <1>6 DEF BridgeInv

\* The wait for the calls in flight is over.
LEMMA InvStopEnd == ASSUME BridgeInv, NEW o \in {"stop", "disable"}, StopEnd(o) PROVE BridgeInv'
<1>1. BridgeFlagsOK'
  BY DEF BridgeInv, TypeOK, BridgeFlagsOK, StopEnd, OpFrame
<1>2. TypeOK'
  BY <1>1 DEF BridgeInv, TypeOK, DialPc, InHook, InCall, JsPc, OpPc, Results, StopEnd, OpFrame
<1>3. MutexHeld'
  BY SameCalls DEF StopEnd, OpFrame
<1>4. BusyCounts'
  BY SameCalls DEF StopEnd, OpFrame
<1>5. HookOff' /\ QuietAfterStop'
  <2> DEFINE S == {d \in Dialers : pc[d] \in InHook}
  <2>1. op' = "none" /\ protectOn' = FALSE
    BY DEF BridgeInv, TypeOK, BridgeFlagsOK, HookOff, StopEnd
  <2>2. IsFiniteSet(S)
    BY FS_Subset
  <2>3. quiet' => S = {}
    BY <2>2, FS_EmptySet DEF BridgeInv, BusyCounts, StopEnd
  <2>4. QED
    BY <2>1, <2>3 DEF HookOff, QuietAfterStop, StopEnd, OpFrame
<1>6. OneAnswer' /\ SuccessUnlessLate'
  BY QuietAnswer DEF StopEnd, OpFrame
<1>7. QED
  BY <1>2, <1>3, <1>4, <1>5, <1>6 DEF BridgeInv

-----------------------------------------------------------------------------
(* The theorems *)

LEMMA BridgeInit == Init => BridgeInv
<1> SUFFICES ASSUME Init PROVE BridgeInv
  OBVIOUS
<1>1. BridgeFlagsOK
  BY DEF Init, BridgeFlagsOK
<1>2. TypeOK
  BY <1>1 DEF Init, TypeOK, DialPc, InHook, InCall, JsPc, OpPc, Results
<1>3. MutexHeld
  BY DEF Init, MutexHeld, InCall
<1>4. BusyCounts
  <2>1. {d \in Dialers : pc[d] \in InHook} = {}
    BY DEF Init, InHook, InCall
  <2>2. QED
    BY <2>1, FS_EmptySet DEF Init, BusyCounts
<1>5. HookOff /\ QuietAfterStop
  BY DEF Init, HookOff, QuietAfterStop
<1>6. OneAnswer
  BY DEF Init, OneAnswer, NoAnswerDue
<1>7. SuccessUnlessLate
  BY DEF Init, SuccessUnlessLate, SuccessMeansProtected, Succeeded
<1>8. QED
  BY <1>2, <1>3, <1>4, <1>5, <1>6, <1>7 DEF BridgeInv

LEMMA BridgeStep == BridgeInv /\ [Next]_vars => BridgeInv'
<1> SUFFICES ASSUME BridgeInv, [Next]_vars PROVE BridgeInv'
  OBVIOUS
<1>1. CASE \E d \in Dialers : DialBegin(d) \/ DialStep(d)
  BY <1>1, InvDialBegin, InvDialControl, InvHookEnter, InvHookLeave, InvDialBare,
     InvCallLock, InvCallReset, InvCallResetError, InvCallSend, InvCallAnswered,
     InvCallTimeout, InvCallTimeoutError, InvCallReturn DEF DialStep
<1>2. CASE JsCallback \/ JsCallbackFails \/ JsRegister \/ JsDestroy \/ JsProceeds
             \/ (\E c \in pending : JsSettle(c)) \/ (\E c \in SyncCalls : JsSync(c))
  BY <1>2, InvJsCallback, InvJsCallbackFails, InvJsRegister, InvJsDestroy, InvJsSettled,
     InvJsRegistered, InvJsSettle, InvJsSync, InvJsSynced DEF JsProceeds
<1>3. CASE StartBridge \/ OpProceeds \/ \E o \in {"stop", "disable"} : StopBegin(o)
  BY <1>3, InvStartBridge, InvStartParse, InvStartParsed, InvStartFailed, InvStartHooked,
     InvStopBegin, InvStopEnd DEF OpProceeds
<1>4. CASE UNCHANGED vars
  <2>1. TypeOK'
    BY <1>4 DEF BridgeInv, TypeOK, BridgeFlagsOK, vars
  <2>2. QED
    BY <1>4, <2>1, SameCalls, SameHook, QuietAnswer DEF BridgeInv, vars
<1>5. QED
  BY <1>1, <1>2, <1>3, <1>4 DEF Next

LEMMA AlwaysBridgeInv == Spec => []BridgeInv
  BY BridgeInit, BridgeStep, PTL DEF Spec

\* The threads stay at their program points and the globals keep their types; the count
\* of protect calls in flight never goes below zero.
THEOREM BridgeTypeCorrect == Spec => []TypeOK
<1>1. BridgeInv => TypeOK
  BY DEF BridgeInv
<1>2. QED
  BY <1>1, AlwaysBridgeInv, PTL

\* However many goroutines dial, a protect call that returns 0 has protected its own
\* socket as long as no call has been given up.
THEOREM SuccessIsProtection == Spec => []SuccessUnlessLate
<1>1. BridgeInv => SuccessUnlessLate
  BY DEF BridgeInv
<1>2. QED
  BY <1>1, AlwaysBridgeInv, PTL

\* A stop or disable that returns 0 leaves no goroutine in the native protect call, and
\* none enters until the hook is enabled again.
THEOREM StopIsQuiet == Spec => []QuietAfterStop
<1>1. BridgeInv => QuietAfterStop
  BY DEF BridgeInv
<1>2. QED
  BY <1>1, AlwaysBridgeInv, PTL

-----------------------------------------------------------------------------
(* The hook of a started core *)

\* Nothing about the hook changes and no goroutine binds or calls it.
LEMMA HookReadyKept ==
    ASSUME HookReady, UNCHANGED <<goVars, coreUp, op, unhooked>>,
           \A d \in Dialers : pc'[d] \in {"bound", "hook"} => pc[d] \in {"bound", "hook"}
    PROVE  HookReady'
  BY DEF HookReady, Admitted, goVars

\* A goroutine moves to a point where it is not about to use the hook.
LEMMA HookReadyMove ==
    ASSUME HookReady, TypeOK, UNCHANGED <<goVars, coreUp, op, unhooked>>,
           NEW d \in Dialers, NEW from, NEW to, Goto(d, from, to),
           to \in {"bound", "hook"} => from = "bound"
    PROVE  HookReady'
<1>1. \A e \in Dialers : pc'[e] \in {"bound", "hook"} => pc[e] \in {"bound", "hook"}
  BY DEF TypeOK, Goto
<1>2. QED
  BY <1>1, HookReadyKept

LEMMA HookReadyDial ==
    ASSUME HookReady, TypeOK, NEW d \in Dialers, DialBegin(d) \/ DialStep(d)
    PROVE  HookReady'
<1>1. CASE DialBegin(d)
  <2>1. (hookSet /\ pc' = [pc EXCEPT ![d] = "bound"]) \/ pc' = [pc EXCEPT ![d] = "bare"]
    BY <1>1 DEF DialBegin, Goto
  <2>2. ~hookSet => \A e \in Dialers : pc'[e] \in {"bound", "hook"} => pc[e] \in {"bound", "hook"}
    BY <2>1 DEF TypeOK
  <2>3. UNCHANGED <<goVars, coreUp, op, unhooked>>
    BY <1>1 DEF DialBegin, histVars
  <2>4. CASE hookSet
    BY <2>3, <2>4 DEF HookReady, Admitted, goVars
  <2>5. CASE ~hookSet
    BY <2>2, <2>3, <2>5, HookReadyKept
  <2>6. QED
    BY <2>4, <2>5
<1>2. CASE DialControl(d)
  <2>1. UNCHANGED <<goVars, coreUp, op, unhooked>>
    BY <1>2 DEF DialControl, histVars
  <2>2. CASE hookSet
    BY <1>2, <2>1, <2>2, HookReadyMove DEF DialControl
  <2>3. CASE ~hookSet
    BY <1>2, <2>1, <2>3, HookReadyKept DEF DialControl
  <2>4. QED
    BY <2>2, <2>3
<1>3. CASE HookEnter(d)
  BY <1>3, HookReadyMove DEF HookEnter, histVars
<1>4. CASE HookLeave(d) \/ DialBare(d)
  BY <1>4, HookReadyMove DEF HookLeave, DialBare, histVars
<1>5. CASE CallLock(d) \/ CallSend(d) \/ CallReturn(d)
  BY <1>5, HookReadyMove DEF CallLock, CallSend, CallReturn, CallFrame, histVars
<1>6. CASE CallReset(d) \/ CallResetError(d) \/ CallAnswered(d) \/ CallTimeout(d) \/ CallTimeoutError(d)
  BY <1>6, HookReadyMove
  DEF CallReset, CallResetError, CallAnswered, CallTimeout, CallTimeoutError, CallFrame, histVars
<1>7. QED
  BY <1>1, <1>2, <1>3, <1>4, <1>5, <1>6 DEF DialStep

LEMMA HookReadyJs ==
    ASSUME HookReady, JsCallback \/ JsCallbackFails \/ JsRegister \/ JsDestroy \/ JsProceeds
                      \/ (\E c \in pending : JsSettle(c)) \/ (\E c \in SyncCalls : JsSync(c))
    PROVE  HookReady'
<1>1. CASE \E c \in SyncCalls : JsSynced(c)
  <2>1. PICK c \in SyncCalls : JsSynced(c)
    BY <1>1
  <2>2. op' = "none" /\ UNCHANGED <<started, protectFn, coreUp, op, unhooked, pc>>
    BY <2>1 DEF JsSynced, JsFrame
  <2>3. hookSet => hookSet' /\ (protectOn => protectOn')
    BY <2>1 DEF JsSynced
  <2>4. hookSet' /\ ~hookSet => started /\ protectFn /\ protectOn'
    BY <2>1 DEF JsSynced
  <2>5. QED
    BY <2>2, <2>3, <2>4 DEF HookReady, Admitted
<1>2. CASE JsCallback \/ JsCallbackFails \/ JsRegister \/ JsDestroy \/ JsSettled \/ JsRegistered
           \/ (\E c \in pending : JsSettle(c)) \/ (\E c \in SyncCalls : JsSync(c))
  <2>1. UNCHANGED <<goVars, coreUp, op, unhooked, pc>>
    BY <1>2 DEF JsCallback, JsCallbackFails, JsRegister, JsDestroy, JsSettled, JsRegistered,
                JsSettle, JsSync, JsFrame
  <2>2. QED
    BY <2>1, HookReadyKept
<1>3. QED
  BY <1>1, <1>2 DEF JsProceeds

LEMMA HookReadyOp ==
    ASSUME HookReady, StartBridge \/ OpProceeds \/ \E o \in {"stop", "disable"} : StopBegin(o)
    PROVE  HookReady'
<1>1. CASE StartBridge
  BY <1>1 DEF StartBridge, OpBegin, OpFrame, HookReady, Admitted
<1>2. CASE StartParse \/ StartParsed \/ StartFailed
  BY <1>2 DEF StartParse, StartParsed, StartFailed, OpFrame, HookReady, Admitted, goVars
<1>3. CASE StartHooked
  BY <1>3 DEF StartHooked, OpFrame, HookReady, Admitted
<1>4. CASE \E o \in {"stop", "disable"} : StopBegin(o) \/ StopEnd(o)
  BY <1>4 DEF StopBegin, StopEnd, OpBegin, OpFrame, HookReady, Admitted
<1>5. QED
  BY <1>1, <1>2, <1>3, <1>4 DEF OpProceeds

LEMMA HookReadyStep == BridgeInv /\ HookReady /\ [Next]_vars => HookReady'
<1> SUFFICES ASSUME BridgeInv, HookReady, [Next]_vars PROVE HookReady'
  OBVIOUS
<1>1. TypeOK
  BY DEF BridgeInv
<1>2. CASE UNCHANGED vars
  BY <1>2, HookReadyKept DEF vars, histVars
<1>3. QED
  BY <1>1, <1>2, HookReadyDial, HookReadyJs, HookReadyOp DEF Next

\* A goroutine leaves for the bare dial, or calls the nil hook, only when the hook is away.
LEMMA UnhookedStep ==
    ASSUME BridgeInv, HookReady, [Next]_vars,
           crashed' # crashed \/ \E d \in Dialers : pc[d] # "bare" /\ pc'[d] = "bare"
    PROVE  unhooked \/ op = "parsed"
<1>1. TypeOK
  BY DEF BridgeInv
<1>2. ~(UNCHANGED vars)
  BY DEF vars
<1>3. CASE \E d \in Dialers : DialBegin(d) \/ DialStep(d)
  <2>1. PICK d \in Dialers : DialBegin(d) \/ DialStep(d)
    BY <1>3
  <2>2. CASE DialBegin(d)
    <3>1. crashed' = crashed
      BY <2>2 DEF DialBegin
    <3>2. PICK e \in Dialers : pc[e] # "bare" /\ pc'[e] = "bare"
      BY <3>1
    <3>3. coreUp /\ ~hookSet
      BY <1>1, <2>2, <3>2 DEF DialBegin, Goto, TypeOK
    <3>4. QED
      BY <3>3 DEF HookReady
  <2>3. CASE DialControl(d)
    <3>1. pc[d] = "bound"
      BY <2>3 DEF DialControl, Goto
    <3>2. ~hookSet
      BY <1>1, <2>3 DEF DialControl, Goto, TypeOK
    <3>3. QED
      BY <3>1, <3>2 DEF HookReady
  <2>4. CASE HookEnter(d)
    <3>1. pc[d] = "hook"
      BY <2>4 DEF HookEnter, Goto
    <3>2. ~Admitted
      BY <1>1, <2>4 DEF HookEnter, Goto, TypeOK
    <3>3. QED
      BY <3>1, <3>2 DEF HookReady
  <2>5. CASE HookLeave(d) \/ DialBare(d) \/ CallLock(d) \/ CallSend(d) \/ CallReturn(d)
    BY <1>1, <2>5 DEF HookLeave, DialBare, CallLock, CallSend, CallReturn, CallFrame, Goto, TypeOK
  <2>6. CASE CallReset(d) \/ CallResetError(d) \/ CallAnswered(d) \/ CallTimeout(d) \/ CallTimeoutError(d)
    BY <1>1, <2>6 DEF CallReset, CallResetError, CallAnswered, CallTimeout, CallTimeoutError, CallFrame,
                      Goto, TypeOK
  <2>7. QED
    BY <2>1, <2>2, <2>3, <2>4, <2>5, <2>6 DEF DialStep
<1>4. CASE JsCallback \/ JsCallbackFails \/ JsRegister \/ JsDestroy \/ JsProceeds
           \/ (\E c \in pending : JsSettle(c)) \/ (\E c \in SyncCalls : JsSync(c))
  BY <1>4 DEF JsCallback, JsCallbackFails, JsRegister, JsDestroy, JsProceeds, JsSettled,
              JsRegistered, JsSettle, JsSync, JsSynced, JsFrame
<1>5. CASE StartBridge \/ OpProceeds \/ \E o \in {"stop", "disable"} : StopBegin(o)
  BY <1>5 DEF StartBridge, OpProceeds, StartParse, StartParsed, StartFailed, StartHooked, StopBegin,
              StopEnd, OpFrame
<1>6. QED
  BY <1>2, <1>3, <1>4, <1>5 DEF Next

\* However many goroutines dial: from the end of a start until stop or disable, every dial
\* binds and calls the hook (enableProtectHookLocked); only dials of the start itself do not.
THEOREM DialsAreHooked == Spec => HookedWhileStarted
<1>1. Init => HookReady
  BY DEF Init, HookReady
<1>2. BridgeInv /\ HookReady /\ [Next]_vars
        => [(crashed' # crashed) \/ (\E d \in Dialers : pc[d] # "bare" /\ pc'[d] = "bare")
            => unhooked \/ op = "parsed"]_vars
  BY UnhookedStep
<1>3. QED
  BY <1>1, <1>2, HookReadyStep, AlwaysBridgeInv, PTL DEF Spec, HookedWhileStarted

=============================================================================
