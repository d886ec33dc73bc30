---------------------------- MODULE ProtectBridge ----------------------------
(***************************************************************************)
(* The socket protect bridge of the VPN extension process.                 *)
(*                                                                         *)
(* A goroutine of the core that dials runs dialer.DefaultSocketHook        *)
(* between socket() and connect(); mihomoProtectSocketHook (Go) calls      *)
(* NapiProtectBridgeImpl (C++), which queues a call for the JavaScript     *)
(* thread and polls one set of global atomics for the answer, for 500 ms.  *)
(* Start, stop and disable run on NAPI workers under g_mihomoMutex;        *)
(* isMihomoRunning and enableProtectHook take that mutex on the            *)
(* JavaScript thread itself.                                               *)
(*                                                                         *)
(* An action is the code between two points where another thread can see a *)
(* difference: one lock section, or one store to a global atomic.  Error   *)
(* codes are abstracted to "failed", time to the order of a time-out and   *)
(* the late answer.                                                        *)
(***************************************************************************)
EXTENDS Naturals, Sequences, FiniteSets

CONSTANTS
    Dialers,        \* goroutines of the core that dial
    None,           \* no holder of a mutex
    Ops,            \* NAPI worker operations: "start", "stop", "disable"
    SyncCalls,      \* native calls on the JavaScript thread
    MaxDials,       \* bound: dials of one goroutine
    MaxOps,         \* bound: worker operations
    MaxJs           \* bound: registrations, sync calls and teardowns of the JS thread

ASSUME BridgeAssumption ==
    /\ None \notin Dialers
    /\ IsFiniteSet(Dialers)
    /\ Ops \subseteq {"start", "stop", "disable"}
    /\ SyncCalls \subseteq {"isRunning", "enable"}
    /\ MaxDials \in Nat /\ MaxOps \in Nat /\ MaxJs \in Nat

VARIABLES
    started, protectOn, hookSet, protectFn,  \* Go: hookSet is DefaultSocketHook # nil
    protectBusy,
    parsing,        \* startWithConfig holds stateMu
    coreUp,         \* the core has been configured: goroutines dial
    op,             \* the worker operation that holds g_mihomoMutex
    pc, sock, ret,  \* per goroutine: control, number of the socket, protect result
    callMutex,      \* holder of g_protectCallMutex
    done, error,    \* g_protectDone, g_protectError
    tsfn,           \* g_protectTsfn # nullptr
    queue,          \* calls queued in the thread-safe function
    pending,        \* protect promises that are not settled
    protected,      \* sockets the system has excluded from the VPN
    js,             \* where the JavaScript thread is
    vpnConnection,  \* the connection the protect callback uses is not null
    crashed,        \* the process has panicked
    ops, jsOps,     \* bounds
    late, quiet, unhooked  \* history, see below

goVars   == <<started, protectOn, hookSet, protectFn>>
callVars == <<callMutex, done, error>>
jsVars   == <<tsfn, pending, protected, js, vpnConnection, jsOps>>
histVars == <<late, quiet, unhooked>>
vars == <<goVars, protectBusy, parsing, coreUp, op, pc, sock, ret, callVars, queue,
          jsVars, crashed, ops, histVars>>

Socket(d) == <<d, sock[d]>>

Results == {"ok", "failed", "timeout"}
\* A goroutine is inside mihomoProtectSocketHook past its admission.
InCall  == {"reset", "resetError", "send", "wait", "timeout", "return"}
InHook  == InCall \cup {"enter", "leave"}
DialPc  == InHook \cup {"idle", "bound", "bare", "hook"}
JsPc    == {"free", "settling", "registering", "isRunning", "enable"}
OpPc    == {"none", "start", "parse", "parsed", "stop", "disable"}
Sockets == Dialers \X Nat
Promise == [sock: Sockets, connected: BOOLEAN]

BridgeFlagsOK ==
    /\ started \in BOOLEAN /\ protectOn \in BOOLEAN /\ hookSet \in BOOLEAN
    /\ protectFn \in BOOLEAN /\ parsing \in BOOLEAN /\ coreUp \in BOOLEAN
    /\ done \in BOOLEAN /\ tsfn \in BOOLEAN /\ vpnConnection \in BOOLEAN
    /\ crashed \in BOOLEAN /\ late \in BOOLEAN /\ quiet \in BOOLEAN /\ unhooked \in BOOLEAN

\* Every thread is at one of its program points and the bridge's globals hold values
\* the code stores in them.
TypeOK ==
    /\ BridgeFlagsOK
    /\ protectBusy \in Nat
    /\ op \in OpPc /\ js \in JsPc
    /\ pc \in [Dialers -> DialPc]
    /\ sock \in [Dialers -> Nat]
    /\ ret \in [Dialers -> Results]
    /\ callMutex \in Dialers \cup {None}
    /\ error \in Results
    /\ queue \in Seq(Sockets)
    /\ pending \subseteq Promise
    /\ protected \subseteq Sockets
    /\ ops \in Nat /\ jsOps \in Nat

Init ==
    /\ started = FALSE /\ protectOn = FALSE /\ hookSet = FALSE /\ protectFn = FALSE
    /\ protectBusy = 0 /\ parsing = FALSE /\ coreUp = FALSE /\ op = "none"
    /\ pc = [d \in Dialers |-> "idle"]
    /\ sock = [d \in Dialers |-> 0]
    /\ ret = [d \in Dialers |-> "failed"]
    /\ callMutex = None /\ done = FALSE /\ error = "ok"
    /\ tsfn = FALSE /\ queue = <<>> /\ pending = {} /\ protected = {}
    /\ js = "free" /\ vpnConnection = FALSE
    /\ crashed = FALSE /\ ops = 0 /\ jsOps = 0
    /\ late = FALSE /\ quiet = FALSE /\ unhooked = FALSE

-----------------------------------------------------------------------------
(* A dial: dialer.go and mihomoProtectSocketHook *)

Goto(d, from, to) == ~crashed /\ pc[d] = from /\ pc' = [pc EXCEPT ![d] = to]

\* dialContext, ListenPacket: the hook is bound if it is set now.
DialBegin(d) ==
    /\ coreUp /\ sock[d] < MaxDials
    /\ Goto(d, "idle", IF hookSet THEN "bound" ELSE "bare")
    /\ sock' = [sock EXCEPT ![d] = @ + 1]
    /\ UNCHANGED <<goVars, protectBusy, parsing, coreUp, op, ret, callVars, queue,
                   jsVars, crashed, ops, histVars>>

\* The control function runs: it reads DefaultSocketHook again and calls it.
DialControl(d) ==
    /\ IF hookSet THEN Goto(d, "bound", "hook") /\ UNCHANGED crashed
       ELSE ~crashed /\ pc[d] = "bound" /\ crashed' = TRUE /\ UNCHANGED pc
    /\ UNCHANGED <<goVars, protectBusy, parsing, coreUp, op, sock, ret, callVars,
                   queue, jsVars, ops, histVars>>

\* Mutant: the hook does not look at protectOn.
Admitted_IgnoresProtectOn == started /\ protectFn

Admitted == started /\ protectOn /\ protectFn

\* The entry of mihomoProtectSocketHook under stateMu.
HookEnter(d) ==
    /\ ~parsing
    /\ \/ Admitted /\ Goto(d, "hook", "enter") /\ protectBusy' = protectBusy + 1
       \/ ~Admitted /\ Goto(d, "hook", "bare") /\ UNCHANGED protectBusy
    /\ UNCHANGED <<goVars, parsing, coreUp, op, sock, ret, callVars, queue, jsVars,
                   crashed, ops, histVars>>

\* Mutant: a failed call is discounted twice.
HookLeave_Twice(d) ==
    /\ ~parsing
    /\ Goto(d, "leave", "idle")
    /\ protectBusy' = protectBusy - (IF ret[d] = "ok" THEN 1 ELSE 2)
    /\ UNCHANGED <<goVars, parsing, coreUp, op, sock, ret, callVars, queue, jsVars,
                   crashed, ops, histVars>>

\* The deferred function under stateMu, and the dial's end.
HookLeave(d) ==
    /\ ~parsing
    /\ Goto(d, "leave", "idle") /\ protectBusy' = protectBusy - 1
    /\ UNCHANGED <<goVars, parsing, coreUp, op, sock, ret, callVars, queue, jsVars,
                   crashed, ops, histVars>>

\* A dial without the hook connects.
DialBare(d) ==
    /\ Goto(d, "bare", "idle")
    /\ UNCHANGED <<goVars, protectBusy, parsing, coreUp, op, sock, ret, callVars,
                   queue, jsVars, crashed, ops, histVars>>

-----------------------------------------------------------------------------
(* NapiProtectBridgeImpl *)

CallFrame == UNCHANGED <<goVars, protectBusy, parsing, coreUp, op, sock, jsVars,
                         crashed, ops>>

\* Mutant: calls are not serialised.
CallFree_Always == TRUE

CallFree == callMutex = None

\* g_protectCallMutex is taken, then g_protectTsfn checked under g_protectCbMutex.
CallLock(d) ==
    /\ CallFree /\ js # "registering"
    /\ \/ tsfn /\ Goto(d, "enter", "reset") /\ callMutex' = d /\ UNCHANGED ret
       \/ /\ ~tsfn /\ Goto(d, "enter", "leave")
          /\ ret' = [ret EXCEPT ![d] = "failed"] /\ UNCHANGED callMutex
    /\ UNCHANGED <<done, error, queue, histVars>> /\ CallFrame

CallReset(d) ==
    /\ Goto(d, "reset", "resetError") /\ done' = FALSE
    /\ UNCHANGED <<callMutex, error, ret, queue, histVars>> /\ CallFrame

CallResetError(d) ==
    /\ Goto(d, "resetError", "send") /\ error' = "ok"
    /\ UNCHANGED <<callMutex, done, ret, queue, histVars>> /\ CallFrame

\* The call is queued; it is refused while RegisterProtect has the handle null.
CallSend(d) ==
    /\ \/ /\ tsfn /\ Goto(d, "send", "wait")
          /\ queue' = Append(queue, Socket(d))
          /\ UNCHANGED <<callVars, ret>>
       \/ /\ ~tsfn /\ Goto(d, "send", "leave")
          /\ done' = TRUE /\ error' = "failed" /\ callMutex' = None
          /\ ret' = [ret EXCEPT ![d] = "failed"] /\ UNCHANGED queue
    /\ UNCHANGED histVars /\ CallFrame

CallAnswered(d) ==
    /\ done /\ Goto(d, "wait", "return")
    /\ UNCHANGED <<callVars, ret, queue, histVars>> /\ CallFrame

\* 500 ms have passed.  late: a call has been given up while its answer may come.
CallTimeout(d) ==
    /\ ~done /\ Goto(d, "wait", "timeout")
    /\ late' = TRUE
    /\ UNCHANGED <<callVars, ret, queue, quiet, unhooked>> /\ CallFrame

\* Mutant: a time-out is logged and the call waits on.
CallTimeoutError_WaitsOn(d) ==
    /\ Goto(d, "timeout", "wait")
    /\ UNCHANGED <<callVars, ret, queue, histVars>> /\ CallFrame

CallTimeoutError(d) ==
    /\ Goto(d, "timeout", "return") /\ error' = "timeout"
    /\ UNCHANGED <<callMutex, done, ret, queue, histVars>> /\ CallFrame

CallReturn(d) ==
    /\ Goto(d, "return", "leave")
    /\ ret' = [ret EXCEPT ![d] = error] /\ callMutex' = None
    /\ UNCHANGED <<done, error, queue, histVars>> /\ CallFrame

-----------------------------------------------------------------------------
(* The JavaScript thread *)

JsFrame == UNCHANGED <<protectBusy, parsing, coreUp, op, pc, sock, ret, callMutex,
                       crashed, ops, late, unhooked>>

JsRuns(from, to) == ~crashed /\ js = from /\ js' = to
JsBudget == jsOps < MaxJs /\ jsOps' = jsOps + 1

\* ProtectTsfnCallback calls the callback of registerProductProtect: a promise.
JsCallback ==
    /\ JsRuns("free", "free") /\ queue # <<>>
    /\ queue' = Tail(queue)
    /\ pending' = pending \cup {[sock |-> Head(queue), connected |-> vpnConnection]}
    /\ UNCHANGED <<goVars, done, error, tsfn, protected, vpnConnection, jsOps, quiet>>
    /\ JsFrame

\* The callback cannot be invoked, or its promise cannot be observed: -1, -2 or -4.
JsCallbackFails ==
    /\ JsRuns("free", "settling") /\ queue # <<>>
    /\ queue' = Tail(queue) /\ error' = "failed"
    /\ UNCHANGED <<goVars, done, tsfn, pending, protected, vpnConnection, jsOps, quiet>>
    /\ JsFrame

\* CompleteProtectPromise stores the code of the callback: 0, -901 or -902.
JsSettle(c) ==
    /\ JsRuns("free", "settling")
    /\ pending' = pending \ {c}
    /\ \/ c.connected /\ protected' = protected \cup {c.sock} /\ error' = "ok"
       \/ protected' = protected /\ error' = "failed"
    /\ UNCHANGED <<goVars, done, queue, tsfn, vpnConnection, jsOps, quiet>>
    /\ JsFrame

JsSettled ==
    /\ JsRuns("settling", "free") /\ done' = TRUE
    /\ UNCHANGED <<goVars, error, queue, tsfn, pending, protected, vpnConnection, jsOps, quiet>>
    /\ JsFrame

\* A start: a connection exists, RegisterProtect has released the old handle.
JsRegister ==
    /\ JsRuns("free", "registering") /\ JsBudget
    /\ tsfn' = FALSE /\ vpnConnection' = TRUE
    /\ UNCHANGED <<goVars, done, error, queue, pending, protected, quiet>>
    /\ JsFrame

\* The new handle is created, or its creation fails.
JsRegistered ==
    /\ JsRuns("registering", "free") /\ tsfn' \in BOOLEAN
    /\ UNCHANGED <<goVars, done, error, queue, pending, protected, vpnConnection, jsOps, quiet>>
    /\ JsFrame

\* destroyVpn
JsDestroy ==
    /\ JsRuns("free", "free") /\ vpnConnection /\ JsBudget
    /\ vpnConnection' = FALSE
    /\ UNCHANGED <<goVars, done, error, queue, tsfn, pending, protected, quiet>>
    /\ JsFrame

\* isMihomoRunning or enableProtectHook: the JavaScript thread waits for g_mihomoMutex.
JsSync(call) ==
    /\ JsRuns("free", call) /\ JsBudget
    /\ UNCHANGED <<goVars, done, error, queue, tsfn, pending, protected, vpnConnection, quiet>>
    /\ JsFrame

JsSynced(call) ==
    /\ JsRuns(call, "free") /\ op = "none" /\ ~parsing
    /\ LET enables == call = "enable" /\ protectFn /\ started IN
       /\ protectOn' = (protectOn \/ enables) /\ hookSet' = (hookSet \/ enables)
       /\ quiet' = (quiet /\ ~enables)
    /\ UNCHANGED <<started, protectFn, done, error, queue, tsfn, pending, protected,
                   vpnConnection, jsOps>>
    /\ JsFrame

-----------------------------------------------------------------------------
(* Worker operations under g_mihomoMutex *)

OpFrame == UNCHANGED <<protectBusy, pc, sock, ret, callVars, queue, jsVars, crashed, late>>

OpBegin(o) == ~crashed /\ op = "none" /\ o \in Ops /\ ops < MaxOps /\ ops' = ops + 1

\* StartMihomoConfigFileWithTunFd: MihomoOhosSetProtectBridge.
StartBridge ==
    /\ OpBegin("start") /\ op' = "start" /\ tsfn
    /\ protectFn' = TRUE
    /\ UNCHANGED <<started, protectOn, hookSet, parsing, coreUp, quiet, unhooked>> /\ OpFrame

\* startWithConfig takes stateMu and keeps it through hub.Parse.
StartParse ==
    /\ ~crashed /\ op = "start" /\ op' = "parse" /\ parsing' = TRUE
    /\ UNCHANGED <<goVars, coreUp, ops, quiet, unhooked>> /\ OpFrame

\* hub.Parse has applied the configuration: the core is running.
StartParsed ==
    /\ ~crashed /\ op = "parse" /\ op' = "parsed" /\ coreUp' = TRUE
    /\ UNCHANGED <<goVars, parsing, ops, quiet, unhooked>> /\ OpFrame

StartFailed ==
    /\ ~crashed /\ op = "parse" /\ op' = "none" /\ parsing' = FALSE
    /\ UNCHANGED <<goVars, coreUp, ops, quiet, unhooked>> /\ OpFrame

\* Mutant: the start that finds protection on leaves the hook alone.
StartHooked_Assumed ==
    /\ ~crashed /\ op = "parsed" /\ op' = "none" /\ parsing' = FALSE
    /\ started' = TRUE /\ protectOn' = TRUE /\ hookSet' = hookSet
    /\ quiet' = FALSE /\ unhooked' = FALSE
    /\ UNCHANGED <<protectFn, coreUp, ops>> /\ OpFrame

\* enableProtectHookLocked
StartHooked ==
    /\ ~crashed /\ op = "parsed" /\ op' = "none" /\ parsing' = FALSE
    /\ started' = TRUE /\ protectOn' = TRUE /\ hookSet' = TRUE
    /\ quiet' = FALSE /\ unhooked' = FALSE
    /\ UNCHANGED <<protectFn, coreUp, ops>> /\ OpFrame

\* MihomoOhosStop, MihomoOhosDisableProtectHook: the hook goes before the wait.
StopBegin(o) ==
    /\ OpBegin(o) /\ op' = o
    /\ protectOn' = FALSE /\ hookSet' = FALSE
    /\ unhooked' = TRUE
    /\ UNCHANGED <<started, protectFn, parsing, coreUp, quiet>> /\ OpFrame

\* Mutant: stop does not wait for the calls in flight and reports success.
StopEnd_NoWait(o) ==
    /\ ~crashed /\ op = o /\ op' = "none"
    /\ started' = (started /\ o # "stop") /\ protectFn' = (protectFn /\ o # "stop")
    /\ quiet' = TRUE
    /\ UNCHANGED <<protectOn, hookSet, parsing, coreUp, ops, unhooked>> /\ OpFrame

\* waitProtectIdleLocked ends, idle or timed out.  quiet: the code returned is 0.
StopEnd(o) ==
    /\ ~crashed /\ op = o /\ op' = "none"
    /\ started' = (started /\ o # "stop") /\ protectFn' = (protectFn /\ o # "stop")
    /\ quiet' = (protectBusy = 0)
    /\ UNCHANGED <<protectOn, hookSet, parsing, coreUp, ops, unhooked>> /\ OpFrame

-----------------------------------------------------------------------------
(* Specification *)

DialStep(d) ==
    \/ DialControl(d) \/ HookEnter(d) \/ HookLeave(d) \/ DialBare(d)
    \/ CallLock(d) \/ CallReset(d) \/ CallResetError(d) \/ CallSend(d)
    \/ CallAnswered(d) \/ CallTimeout(d) \/ CallTimeoutError(d) \/ CallReturn(d)

JsProceeds == JsSettled \/ JsRegistered \/ \E c \in SyncCalls : JsSynced(c)

OpProceeds == StartParse \/ StartParsed \/ StartFailed \/ StartHooked
                \/ \E o \in {"stop", "disable"} : StopEnd(o)

Next ==
    \/ \E d \in Dialers : DialBegin(d) \/ DialStep(d)
    \/ JsCallback \/ JsCallbackFails \/ JsRegister \/ JsDestroy \/ JsProceeds
    \/ \E c \in pending : JsSettle(c)
    \/ \E c \in SyncCalls : JsSync(c)
    \/ StartBridge \/ OpProceeds
    \/ \E o \in {"stop", "disable"} : StopBegin(o)

Spec == Init /\ [][Next]_vars

\* Threads run.  Neither the event loop nor the system's protect is assumed to answer:
\* the code has a time-out for that.
Fairness ==
    /\ \A d \in Dialers : WF_vars(DialStep(d))
    /\ WF_vars(JsProceeds) /\ WF_vars(OpProceeds)

FairSpec == Spec /\ Fairness

-----------------------------------------------------------------------------
(* Properties *)

\* The protect call of d returned 0.
Succeeded(d) == pc[d] = "leave" /\ ret[d] = "ok"

\* A dial whose protect call returned 0 has a socket the system has protected.
SuccessMeansProtected == \A d \in Dialers : Succeeded(d) => Socket(d) \in protected

\* The same as long as no call has timed out: with one set of globals for all calls it
\* rests on g_protectCallMutex, on the order of the stores in NapiProtectBridgeImpl and
\* CompleteProtectPromise, and on the refusal while the callback is re-registered.
SuccessUnlessLate == ~late => SuccessMeansProtected

\* After MihomoOhosStop or MihomoOhosDisableProtectHook has returned 0 no goroutine is
\* inside the native protect call until the hook is enabled again (waitProtectIdleLocked,
\* the admission under stateMu).
QuietAfterStop == quiet => \A d \in Dialers : pc[d] \notin InHook

(* The strengthening that makes SuccessUnlessLate and QuietAfterStop inductive *)

\* g_protectCallMutex is held by the goroutine inside NapiProtectBridgeImpl.
MutexHeld == \A d \in Dialers : pc[d] \in InCall <=> callMutex = d

BusyCounts == protectBusy = Cardinality({d \in Dialers : pc[d] \in InHook})

HookOff == quiet \/ op \in {"stop", "disable"} => ~protectOn

NoAnswerDue == queue = <<>> /\ pending = {} /\ js # "settling"

Verdict(d) == error = "ok" => Socket(d) \in protected

\* The one answer due to d is queued, a promise, half stored, or stored.
AnswerDue(d) ==
    \/ ~done /\ js # "settling" /\ queue = <<Socket(d)>> /\ pending = {}
    \/ /\ ~done /\ js # "settling" /\ queue = <<>>
       /\ \E b \in BOOLEAN : pending = {[sock |-> Socket(d), connected |-> b]}
    \/ ~done /\ js = "settling" /\ queue = <<>> /\ pending = {} /\ Verdict(d)
    \/ done /\ NoAnswerDue /\ Verdict(d)

\* Unless a call was given up, the only answer on its way is for the call that waits.
OneAnswer ==
    ~late =>
        /\ (\A d \in Dialers : pc[d] # "wait") => NoAnswerDue
        /\ \A d \in Dialers :
               /\ pc[d] = "wait" => AnswerDue(d)
               /\ pc[d] \in {"resetError", "send"} => ~done
               /\ pc[d] = "return" => Verdict(d)
               /\ pc[d] # "timeout"

BridgeInv ==
    /\ TypeOK /\ MutexHeld /\ BusyCounts /\ HookOff
    /\ OneAnswer /\ SuccessUnlessLate /\ QuietAfterStop

\* From the end of a start on every dial finds the hook, when it binds it and when its control
\* function calls it, until stop or disable takes it away: then a new dial goes out bare and
\* a bound one panics.  Between hub.Parse and enableProtectHookLocked dials go out bare too.
HookedWhileStarted ==
    [][(crashed' # crashed) \/ (\E d \in Dialers : pc[d] # "bare" /\ pc'[d] = "bare")
       => unhooked \/ op = "parsed"]_vars

\* The strengthening for it: what a start has prepared, and what the hook finds, as long as
\* nothing has taken the hook away.
HookReady ==
    /\ op \in {"start", "parse", "parsed"} => protectFn
    /\ op \in {"stop", "disable"} => unhooked
    /\ ~unhooked =>
          /\ hookSet => Admitted
          /\ coreUp => hookSet \/ op = "parsed"
          /\ \A d \in Dialers : pc[d] \in {"bound", "hook"} => hookSet

\* A dial ends, even if the JavaScript thread never answers or waits for g_mihomoMutex
\* while stop waits for the dial (the 500 ms of NapiProtectBridgeImpl).
\* And the JavaScript thread is not blocked for good in isMihomoRunning, neither by a worker
\* that waits for calls only that thread could answer, nor by a start that failed (stateMu).
WaitsEnd ==
    /\ \A d \in Dialers : (pc[d] # "idle") ~> (pc[d] = "idle" \/ crashed)
    /\ (js # "free") ~> (js = "free" \/ crashed)

=============================================================================
