--------------------------- MODULE TcgExecProofs ----------------------------
(***************************************************************************)
(* Proofs about TcgExec: for any number of transports, any timeout and any *)
(* lag of a transfer, exec polls a bounded number of times, sends a        *)
(* command at most once per transport, and gives up only when its time is  *)
(* over.                                                                   *)
(***************************************************************************)
EXTENDS TcgExec, SequenceTheorems, TLAPS

\* The polls so far against the clock: every turn of the loop advances it.
ClockInv ==
  /\ pc \in {"begin", "send"} => polls = 0
  /\ pc = "loop" => polls <= now /\ polls <= Timeout + 1
  /\ pc = "recv" => polls <= spent /\ spent < now /\ polls <= Timeout + 1
  /\ pc = "check" => polls <= spent + 1 /\ spent < now
  /\ PollBound

\* What SentOncePerTry needs to be inductive: the count starts at zero, and a
\* device without an SSC gets no further than the guard.
SendInv ==
  /\ SentOncePerTry
  /\ pc = "begin" => sent = 0
  /\ ~anySSC => pc \in {"idle", "begin"}

\* A thread inside exec has a command to work on.
BusyInv == (cmd = NoCmd) <=> (pc = "idle")

\* The header exec looks at after an IF-RECV: "not ready" comes without an
\* answer and was counted.
WaitInv == pc = "check" /\ NotReady => resp.ans = Nothing /\ polls > 0

IInv == TypeOK /\ BusyInv /\ ClockInv /\ SendInv /\ WaitInv

-----------------------------------------------------------------------------

LEMMA InitIInv == ASSUME ExecAssumption PROVE Init => IInv
BY ExecAssumption DEF ExecAssumption, Init, IInv, TypeOK, BusyInv, ClockInv,
  SendInv, WaitInv, NotReady, PollBound, SentOncePerTry, Cleared, Nothing, Answer

\* What an IF-SEND, an IF-RECV and the TPer do to the two queues.
LEMMA DeliveredType ==
  ASSUME TypeOK, Delivered, cmd \in Cmd
  PROVE  inbox' \in Seq(Cmd) /\ outbox' \in Seq(Answer)
<1>1. inbox' \in Seq(Cmd)
  BY AppendProperties DEF TypeOK, Delivered
<1>2. outbox' \in Seq(Answer)
  BY EmptySeq DEF TypeOK, Delivered
<1> QED BY <1>1, <1>2

LEMMA FetchType ==
  ASSUME TypeOK, Fits
  PROVE  Head(outbox) \in Answer /\ Tail(outbox) \in Seq(Answer)
BY HeadTailProperties DEF TypeOK, Fits

LEMMA HeaderType ==
  ASSUME NEW o \in BOOLEAN, NEW m \in BOOLEAN, NEW a \in Answer \cup {Nothing}
  PROVE  Header(o, m, a)
           \in [outstanding : BOOLEAN, minTransfer : BOOLEAN, ans : Answer \cup {Nothing}, heard : BOOLEAN]
BY DEF Header

LEMMA TPerType ==
  ASSUME TypeOK, TPer
  PROVE  inbox' \in Seq(Cmd) /\ outbox' \in Seq(Answer)
<1>1. Head(inbox) \in Cmd /\ inbox' \in Seq(Cmd)
  BY HeadTailProperties DEF TypeOK, TPer
<1>2. ASSUME NEW b \in Body, Answered(b) PROVE outbox' \in Seq(Answer)
  <2>1. [to |-> Head(inbox), body |-> b] \in Answer
    BY <1>1 DEF Answer
  <2> QED BY <1>2, <2>1, AppendProperties DEF TypeOK, Answered
<1> QED BY <1>1, <1>2 DEF TypeOK, TPer

LEMMA TypeStep ==
  ASSUME TypeOK, BusyInv, [Next]_vars
  PROVE  TypeOK'
<1> USE ExecAssumption DEF ExecAssumption, TypeOK, BusyInv, Answer
<1>1. ASSUME NEW c \in Cmd, Enter(c) PROVE TypeOK'
  BY <1>1 DEF Enter, Goto, tperVars
<1>2. CASE RejectNoSSC
  BY <1>2 DEF RejectNoSSC, Return, clockVars, tperVars
<1>3. CASE StartSend
  BY <1>3 DEF StartSend, Goto, clockVars, tperVars
<1>4. CASE SendSucceeds
  <2>1. inbox' \in Seq(Cmd) /\ outbox' \in Seq(Answer)
    BY <1>4, DeliveredType DEF SendSucceeds, Goto, Swallowed, tperVars
  <2> QED BY <1>4, <2>1 DEF SendSucceeds, Goto, Delivered, Swallowed, Elapse, clockVars, tperVars
<1>5. CASE SendFails
  <2>1. inbox' \in Seq(Cmd) /\ outbox' \in Seq(Answer)
    BY <1>5, DeliveredType DEF SendFails, Swallowed, tperVars
  <2> QED BY <1>5, <2>1 DEF SendFails, Delivered, Swallowed, Elapse, clockVars, tperVars
<1>6. CASE LoopTop
  BY <1>6 DEF LoopTop, Goto, Cleared, Nothing, clockVars, tperVars
<1>7. CASE RecvFails
  <2>1. outbox' \in Seq(Answer)
    BY <1>7, FetchType DEF RecvFails, Dropped
  <2> QED BY <1>7, <2>1 DEF RecvFails, Dropped, Fits, Elapse, clockVars, tperVars
<1>8. CASE GiveUp
  BY <1>8 DEF GiveUp, Return, clockVars, tperVars
<1>9. CASE RecvSucceeds
  <2>1. outbox' \in Seq(Answer)
    BY <1>9, FetchType DEF RecvSucceeds, Dropped
  <2>2. resp' \in [outstanding : BOOLEAN, minTransfer : BOOLEAN, ans : Answer \cup {Nothing}, heard : BOOLEAN]
    <3>1. (outbox # <<>> \/ inbox # <<>>) \in BOOLEAN /\ (outbox # <<>>) \in BOOLEAN
      OBVIOUS
    <3>2. CASE Fits /\ resp' = Header(FALSE, FALSE, Head(outbox))
      BY <3>2, FetchType, HeaderType
    <3>3. CASE resp' = Header(outbox # <<>> \/ inbox # <<>>, outbox # <<>>, Nothing)
      BY <3>1, <3>3, HeaderType
    <3>4. CASE resp' = Cleared
      BY <3>4 DEF Cleared
    <3> QED BY <1>9, <3>2, <3>3, <3>4 DEF RecvSucceeds
  <2> QED BY <1>9, <2>1, <2>2 DEF RecvSucceeds, Goto, Dropped, Fits, Header, Cleared, Elapse, MaxPolls,
         Nothing, clockVars, tperVars
<1>10. CASE LoopAgain
  BY <1>10 DEF LoopAgain, Goto, NotReady, clockVars, tperVars
<1>11. CASE TimeOut
  BY <1>11 DEF TimeOut, Return, NotReady, clockVars, tperVars
<1>12. CASE Commit
  BY <1>12 DEF Commit, Return, NotReady, clockVars, tperVars
<1>13. CASE TPer
  <2>1. inbox' \in Seq(Cmd) /\ outbox' \in Seq(Answer)
    BY <1>13, TPerType
  <2> QED BY <1>13, <2>1 DEF TPer, Answered, hostVars, clockVars
<1>14. CASE UNCHANGED vars
  BY <1>14 DEF vars, hostVars, clockVars, tperVars
<1> QED BY <1>1, <1>2, <1>3, <1>4, <1>5, <1>6, <1>7, <1>8, <1>9, <1>10, <1>11, <1>12, <1>13, <1>14 DEF Next, Host

LEMMA BusyStep ==
  ASSUME BusyInv, [Next]_vars
  PROVE  BusyInv'
BY ExecAssumption DEF ExecAssumption, BusyInv, Next, Host, Enter, RejectNoSSC, StartSend,
  SendSucceeds, SendFails, LoopTop, RecvFails, GiveUp, RecvSucceeds, LoopAgain,
  TimeOut, Commit, TPer, Goto, Return, vars, hostVars

LEMMA ClockStep ==
  ASSUME TypeOK, ClockInv, [Next]_vars
  PROVE  ClockInv'
<1> USE ExecAssumption DEF ExecAssumption, TypeOK, ClockInv, PollBound
<1>1. ASSUME NEW c \in Cmd, Enter(c) PROVE ClockInv'
  BY <1>1 DEF Enter, Goto, tperVars
<1>2. CASE RejectNoSSC
  BY <1>2 DEF RejectNoSSC, Return, clockVars, tperVars
<1>3. CASE StartSend
  BY <1>3 DEF StartSend, Goto, clockVars, tperVars
<1>4. CASE SendSucceeds
  BY <1>4 DEF SendSucceeds, Goto, Delivered, Swallowed, Elapse, clockVars, tperVars
<1>5. CASE SendFails
  BY <1>5 DEF SendFails, Delivered, Swallowed, Elapse, clockVars, tperVars
<1>6. CASE LoopTop
  BY <1>6 DEF LoopTop, Goto, Cleared, Nothing, clockVars, tperVars
<1>7. CASE RecvFails
  BY <1>7 DEF RecvFails, Dropped, Fits, Elapse, clockVars, tperVars
<1>8. CASE GiveUp
  BY <1>8 DEF GiveUp, Return, clockVars, tperVars
<1>9. CASE RecvSucceeds
  BY <1>9 DEF RecvSucceeds, Goto, Dropped, Fits, Header, Cleared, Elapse, MaxPolls, Nothing, clockVars,
    tperVars
<1>10. CASE LoopAgain
  BY <1>10 DEF LoopAgain, Goto, NotReady, clockVars, tperVars
<1>11. CASE TimeOut
  BY <1>11 DEF TimeOut, Return, NotReady, clockVars, tperVars
<1>12. CASE Commit
  BY <1>12 DEF Commit, Return, NotReady, clockVars, tperVars
<1>13. CASE TPer
  BY <1>13 DEF TPer, Answered, hostVars, clockVars
<1>14. CASE UNCHANGED vars
  BY <1>14 DEF vars, hostVars, clockVars, tperVars
<1> QED BY <1>1, <1>2, <1>3, <1>4, <1>5, <1>6, <1>7, <1>8, <1>9, <1>10, <1>11, <1>12, <1>13, <1>14 DEF Next, Host

LEMMA SendStep ==
  ASSUME TypeOK, SendInv, [Next]_vars
  PROVE  SendInv'
<1> USE ExecAssumption DEF ExecAssumption, TypeOK, SendInv, SentOncePerTry
<1>1. ASSUME NEW c \in Cmd, Enter(c) PROVE SendInv'
  BY <1>1 DEF Enter, Goto, tperVars
<1>2. CASE RejectNoSSC
  BY <1>2 DEF RejectNoSSC, Return, clockVars, tperVars
<1>3. CASE StartSend
  BY <1>3 DEF StartSend, Goto, clockVars, tperVars
<1>4. CASE SendSucceeds
  BY <1>4 DEF SendSucceeds, Goto, Delivered, Swallowed, Elapse, clockVars, tperVars
<1>5. CASE SendFails
  BY <1>5 DEF SendFails, Delivered, Swallowed, Elapse, clockVars, tperVars
<1>6. CASE LoopTop
  BY <1>6 DEF LoopTop, Goto, Cleared, Nothing, clockVars, tperVars
<1>7. CASE RecvFails
  BY <1>7 DEF RecvFails, Dropped, Fits, Elapse, clockVars, tperVars
<1>8. CASE GiveUp
  BY <1>8 DEF GiveUp, Return, clockVars, tperVars
<1>9. CASE RecvSucceeds
  BY <1>9 DEF RecvSucceeds, Goto, Dropped, Fits, Header, Cleared, Elapse, MaxPolls, Nothing, clockVars,
    tperVars
<1>10. CASE LoopAgain
  BY <1>10 DEF LoopAgain, Goto, NotReady, clockVars, tperVars
<1>11. CASE TimeOut
  BY <1>11 DEF TimeOut, Return, NotReady, clockVars, tperVars
<1>12. CASE Commit
  BY <1>12 DEF Commit, Return, NotReady, clockVars, tperVars
<1>13. CASE TPer
  BY <1>13 DEF TPer, Answered, hostVars, clockVars
<1>14. CASE UNCHANGED vars
  BY <1>14 DEF vars, hostVars, clockVars, tperVars
<1> QED BY <1>1, <1>2, <1>3, <1>4, <1>5, <1>6, <1>7, <1>8, <1>9, <1>10, <1>11, <1>12, <1>13, <1>14 DEF Next, Host

LEMMA WaitStep ==
  ASSUME TypeOK, WaitInv, [Next]_vars
  PROVE  WaitInv'
<1> USE ExecAssumption DEF ExecAssumption, TypeOK, WaitInv, NotReady
<1>1. ASSUME NEW c \in Cmd, Enter(c) PROVE WaitInv'
  BY <1>1 DEF Enter, Goto, tperVars
<1>2. CASE RejectNoSSC
  BY <1>2 DEF RejectNoSSC, Return, clockVars, tperVars
<1>3. CASE StartSend
  BY <1>3 DEF StartSend, Goto, clockVars, tperVars
<1>4. CASE SendSucceeds
  BY <1>4 DEF SendSucceeds, Goto, Delivered, Swallowed, Elapse, clockVars, tperVars
<1>5. CASE SendFails
  BY <1>5 DEF SendFails, Delivered, Swallowed, Elapse, clockVars, tperVars
<1>6. CASE LoopTop
  BY <1>6 DEF LoopTop, Goto, Cleared, Nothing, clockVars, tperVars
<1>7. CASE RecvFails
  BY <1>7 DEF RecvFails, Dropped, Fits, Elapse, clockVars, tperVars
<1>8. CASE GiveUp
  BY <1>8 DEF GiveUp, Return, clockVars, tperVars
<1>9. CASE RecvSucceeds
  BY <1>9 DEF RecvSucceeds, Goto, Dropped, Fits, Header, Cleared, Elapse, MaxPolls, Nothing, clockVars,
    tperVars
<1>10. CASE LoopAgain
  BY <1>10 DEF LoopAgain, Goto, NotReady, clockVars, tperVars
<1>11. CASE TimeOut
  BY <1>11 DEF TimeOut, Return, NotReady, clockVars, tperVars
<1>12. CASE Commit
  BY <1>12 DEF Commit, Return, NotReady, clockVars, tperVars
<1>13. CASE TPer
  BY <1>13 DEF TPer, Answered, hostVars, clockVars
<1>14. CASE UNCHANGED vars
  BY <1>14 DEF vars, hostVars, clockVars, tperVars
<1> QED BY <1>1, <1>2, <1>3, <1>4, <1>5, <1>6, <1>7, <1>8, <1>9, <1>10, <1>11, <1>12, <1>13, <1>14 DEF Next, Host

-----------------------------------------------------------------------------

LEMMA IInvariant == Spec => []IInv
<1>1. Init => IInv
  BY InitIInv, ExecAssumption
<1>2. IInv /\ [Next]_vars => IInv'
  BY TypeStep, BusyStep, ClockStep, SendStep, WaitStep DEF IInv
<1> QED BY <1>1, <1>2, PTL DEF Spec

(***************************************************************************)
(* The variables keep their types; attempt never runs past the transports. *)
(***************************************************************************)
THEOREM TypeCorrect == Spec => []TypeOK
<1>1. IInv => TypeOK
  BY DEF IInv
<1> QED BY <1>1, IInvariant, PTL

(***************************************************************************)
(* Whatever the timeout and however long a transfer takes, exec finds the  *)
(* answer outstanding at most two times more often than the timeout has    *)
(* ticks (tcg_device_general.cc:124-136).                                  *)
(***************************************************************************)
THEOREM PollsBounded == Spec => []PollBound
<1>1. IInv => PollBound
  BY DEF IInv, ClockInv
<1> QED BY <1>1, IInvariant, PTL

(***************************************************************************)
(* Whatever fails, a command reaches the drive at most once per transport, *)
(* and a device without an SSC is left alone                               *)
(* (tcg_device_general.cc:114-128, drive_handle_base.cc:192-221).          *)
(***************************************************************************)
THEOREM CommandSentOncePerTry == Spec => []SentOncePerTry
<1>1. IInv => SentOncePerTry
  BY DEF IInv, SendInv
<1> QED BY <1>1, IInvariant, PTL

(***************************************************************************)
(* exec gives up only after its time was over when it asked for the last   *)
(* time, and with no answer in hand (tcg_device_general.cc:132-142).       *)
(***************************************************************************)
THEOREM TimeoutEarned == Spec => TimeoutIsEarned
<1> DEFINE Earned ==
      ret'.code = "OPERATION_TIMEOUT" /\ ret' # ret
        => spent > Timeout /\ polls > 0 /\ resp.ans = Nothing
<1>1. ASSUME IInv, [Next]_vars PROVE Earned
  <2>1. CASE TimeOut
    BY <1>1, <2>1 DEF TimeOut, IInv, WaitInv
  <2>2. CASE ~TimeOut
    <3>1. CASE RejectNoSSC \/ GiveUp \/ Commit
      BY <3>1 DEF RejectNoSSC, GiveUp, Commit, Return
    <3>2. CASE ~(RejectNoSSC \/ GiveUp \/ Commit)
      <4>1. ret' = ret
        BY <1>1, <2>2, <3>2 DEF Next, Host, Enter, StartSend, SendSucceeds, SendFails,
          LoopTop, RecvFails, RecvSucceeds, LoopAgain, TPer, vars, hostVars
      <4> QED BY <4>1
    <3> QED BY <3>1, <3>2
  <2> QED BY <2>1, <2>2
<1>2. IInv /\ [Next]_vars => [Earned]_vars
  BY <1>1
<1> QED BY <1>2, IInvariant, PTL DEF Spec, TimeoutIsEarned

-----------------------------------------------------------------------------
(* exec implements TcgRpc. *)

\* What the IF-RECV brought, and why it brought nothing.  The reason still
\* holds when exec looks at it: only answers can have joined the queue.
FetchInv ==
  pc = "check" =>
    /\ resp.heard \in BOOLEAN
    /\ resp.ans # Nothing => resp.ans.body \notin Oversize /\ ~NotReady /\ resp.heard
    /\ resp.ans = Nothing /\ ~NotReady /\ resp.heard =>
         \/ inbox = <<>> /\ outbox = <<>>
         \/ outbox # <<>> /\ ~Fits

LEMMA PushFront ==
  ASSUME NEW S, NEW s \in Seq(S), NEW e \in S
  PROVE  /\ <<e>> \o s \in Seq(S)
         /\ <<e>> \o s # <<>>
         /\ Head(<<e>> \o s) = e
         /\ Tail(<<e>> \o s) = s
<1>1. <<e>> \in Seq(S) /\ Len(<<e>>) = 1 OBVIOUS
<1>2. <<e>> \o s \in Seq(S) /\ <<e>> \o s # <<>>
  BY <1>1, ConcatProperties, ConcatEqualIffEmpty
<1>3. Head(<<e>> \o s) = e
  BY <1>1, <1>2, ConcatProperties
<1>4. Tail(<<e>> \o s) = s
  <2>1. /\ Tail(<<e>> \o s) \in Seq(S)
        /\ Len(Tail(<<e>> \o s)) = Len(s)
    BY <1>1, <1>2, ConcatProperties, HeadTailProperties
  <2>2. \A i \in 1..Len(s) : Tail(<<e>> \o s)[i] = s[i]
    BY <1>1, <1>2, ConcatProperties, HeadTailProperties, LenProperties
  <2> QED BY <2>1, <2>2, SeqEqual
<1> QED BY <1>2, <1>3, <1>4

LEMMA HeadThenTail ==
  ASSUME NEW S, NEW s \in Seq(S), s # <<>>
  PROVE  <<Head(s)>> \o Tail(s) = s
<1>1. <<Head(s)>> \in Seq(S) /\ Len(<<Head(s)>>) = 1 
  BY HeadTailProperties
<1>2. Tail(s) \in Seq(S) /\ Len(Tail(s)) = Len(s) - 1 /\ Len(s) \in Nat /\ Len(s) # 0
  BY HeadTailProperties, LenProperties, EmptySeq
<1>3. <<Head(s)>> \o Tail(s) \in Seq(S) /\ Len(<<Head(s)>> \o Tail(s)) = Len(s)
  BY <1>1, <1>2, ConcatProperties
<1>4. ASSUME NEW i \in 1..Len(s) PROVE (<<Head(s)>> \o Tail(s))[i] = s[i]
  BY <1>1, <1>2, ConcatProperties, HeadTailProperties, LenProperties
<1> QED BY <1>3, <1>4, SeqEqual

LEMMA FetchStep ==
  ASSUME TypeOK, SendInv, FetchInv, [Next]_vars
  PROVE  FetchInv'
<1> USE ExecAssumption DEF ExecAssumption, FetchInv, NotReady, Fits
<1>1. CASE RecvSucceeds
  <2>1. CASE Fits /\ resp' = Header(FALSE, FALSE, Head(outbox))
    <3>1. Head(outbox) \in Answer /\ Head(outbox).body \notin Oversize
      BY <2>1, FetchType
    <3>2. ~resp'.outstanding /\ resp'.ans = Head(outbox) /\ resp'.heard = TRUE
      BY <2>1 DEF Header
    <3>3. Head(outbox) # Nothing
      BY <3>1 DEF Answer, Nothing
    <3> QED BY <3>1, <3>2, <3>3
  <2>2. CASE /\ ~Fits
             /\ resp' = Header(outbox # <<>> \/ inbox # <<>>, outbox # <<>>, Nothing)
             /\ UNCHANGED outbox
    <3>1. /\ resp'.outstanding <=> outbox # <<>> \/ inbox # <<>>
          /\ resp'.minTransfer <=> outbox # <<>>
          /\ resp'.ans = Nothing
          /\ resp'.heard = TRUE
      BY <2>2 DEF Header
    <3>2. UNCHANGED <<inbox, outbox>>
      BY <1>1, <2>2 DEF RecvSucceeds
    <3> QED BY <2>2, <3>1, <3>2
  <2>3. CASE resp' = Cleared
    BY <2>3 DEF Cleared
  <2> QED BY <1>1, <2>1, <2>2, <2>3 DEF RecvSucceeds
<1>2. CASE TPer
  <2>1. inbox # <<>> /\ UNCHANGED <<pc, resp>>
    BY <1>2 DEF TPer, hostVars
  <2>2. outbox # <<>> => outbox' # <<>> /\ Head(outbox') = Head(outbox)
    <3>1. CASE UNCHANGED outbox
      BY <3>1
    <3>2. ASSUME NEW b \in Body, Answered(b), outbox # <<>>
          PROVE  outbox' # <<>> /\ Head(outbox') = Head(outbox)
      <4> DEFINE e == [to |-> Head(inbox), body |-> b]
      <4>1. outbox \in Seq(Answer) /\ outbox' = Append(outbox, e)
        BY <3>2 DEF TypeOK, Answered
      <4>2. e \in Answer
        BY <2>1, HeadTailProperties DEF TypeOK, Answer
      <4> HIDE DEF e
      <4>3. Append(outbox, e) # <<>>
        BY <4>1, <4>2, AppendProperties
      <4>4. Head(Append(outbox, e)) = Head(outbox)
        BY <3>2, <4>1, HeadTailAppend
      <4> QED BY <4>1, <4>3, <4>4
    <3> QED BY <1>2, <3>1, <3>2 DEF TPer
  <2> QED BY <2>1, <2>2
<1>3. CASE UNCHANGED vars
  BY <1>3 DEF vars, hostVars, tperVars
<1>4. ASSUME Next, ~RecvSucceeds, ~TPer PROVE pc' # "check"
  BY <1>4 DEF TypeOK, Next, Host, Enter, RejectNoSSC, StartSend, SendSucceeds,
    SendFails, LoopTop, RecvFails, GiveUp, LoopAgain, TimeOut, Commit, Goto, Return
<1> QED BY <1>1, <1>2, <1>3, <1>4

LEMMA FetchInvariant == Spec => []FetchInv
<1>1. Init => FetchInv
  BY DEF Init, FetchInv
<1>2. IInv /\ FetchInv /\ [Next]_vars => FetchInv'
  BY FetchStep DEF IInv
<1> QED BY <1>1, <1>2, IInvariant, PTL DEF Spec

\* A step of exec is a step of TcgRpc or changes nothing TcgRpc knows of.
LEMMA RefineStep ==
  ASSUME IInv, FetchInv, [Next]_vars
  PROVE  [Rpc!RpcNext]_(Rpc!rpcVars)
<1> USE ExecAssumption DEF ExecAssumption, IInv, Queued
<1>1. ASSUME NEW c \in Cmd, Enter(c) PROVE Rpc!Call(c)
  BY <1>1 DEF BusyInv, Enter, Goto, tperVars, Rpc!Call, Rpc!Quiet
<1>2. CASE RejectNoSSC
  BY <1>2 DEF BusyInv, RejectNoSSC, Return, tperVars, Rpc!RpcNext, Rpc!ReturnError, Rpc!Errors,
    Rpc!Return, Nothing, Rpc!Nothing
<1>3. CASE StartSend
  BY <1>3 DEF StartSend, Goto, tperVars, Rpc!rpcVars
<1>4. ASSUME pc = "send", Delivered, attempt <= Attempts, pc' # "check", UNCHANGED <<cmd, clean, ret>>
      PROVE  Rpc!Deliver
  BY <1>4 DEF TypeOK, BusyInv, SendInv, SentOncePerTry, Delivered, Rpc!Deliver
<1>5. CASE SendSucceeds
  BY <1>4, <1>5 DEF SendSucceeds, Goto, Swallowed, tperVars, Rpc!RpcNext, Rpc!rpcVars
<1>6. CASE SendFails
  <2>1. CASE Delivered
    BY <1>4, <1>6, <2>1 DEF SendFails, Rpc!RpcNext
  <2>2. CASE Swallowed
    BY <1>6, <2>2 DEF SendFails, Swallowed, tperVars, Rpc!rpcVars
  <2> QED BY <1>6, <2>1, <2>2 DEF SendFails
<1>7. CASE LoopTop
  BY <1>7 DEF LoopTop, Goto, tperVars, Rpc!rpcVars
<1>8. CASE RecvFails
  <2>1. CASE UNCHANGED outbox
    BY <1>8, <2>1 DEF RecvFails, Rpc!rpcVars
  <2>2. CASE Fits /\ outbox' = Tail(outbox)
    BY <1>8, <2>2 DEF TypeOK, BusyInv, RecvFails, Fits, Rpc!RpcNext, Rpc!Lose, Rpc!Oversized
  <2> QED BY <1>8, <2>1, <2>2 DEF RecvFails, Dropped
<1>9. CASE GiveUp
  BY <1>9 DEF BusyInv, GiveUp, Return, tperVars, Rpc!RpcNext, Rpc!ReturnError, Rpc!Errors,
    Rpc!Return, Nothing, Rpc!Nothing
<1>10. CASE RecvSucceeds
  <2>1. UNCHANGED <<cmd, sent, clean, inbox, ret>> /\ pc # "check" /\ pc' = "check"
    BY <1>10 DEF RecvSucceeds, Goto
  <2>2. CASE Fits /\ resp' = Header(FALSE, FALSE, Head(outbox)) /\ outbox' = Tail(outbox)
    <3>1. <<Head(outbox)>> \o Tail(outbox) = outbox
      BY <2>2, HeadThenTail DEF TypeOK, Fits
    <3>2. resp'.ans = Head(outbox)
      BY <2>2 DEF Header
    <3>3. Head(outbox) # Nothing
      BY <2>2, FetchType DEF Answer, Nothing
    <3> QED BY <2>1, <2>2, <3>1, <3>2, <3>3 DEF Rpc!rpcVars
  <2>3. CASE /\ resp' = Header(outbox # <<>> \/ inbox # <<>>, outbox # <<>>, Nothing)
             /\ UNCHANGED outbox
    <3>1. resp'.ans = Nothing
      BY <2>3 DEF Header
    <3> QED BY <2>1, <2>3, <3>1 DEF Rpc!rpcVars
  <2>4. CASE resp' = Cleared /\ Dropped
    <3>1. resp'.ans = Nothing
      BY <2>4 DEF Cleared
    <3>2. CASE UNCHANGED outbox
      BY <2>1, <3>1, <3>2 DEF Rpc!rpcVars
    <3>3. CASE Fits /\ outbox' = Tail(outbox)
      BY <1>10, <2>1, <3>1, <3>3 DEF BusyInv, RecvSucceeds, Goto, Fits, Rpc!RpcNext, Rpc!Lose,
        Rpc!Oversized
    <3> QED BY <2>4, <3>2, <3>3 DEF Dropped
  <2> QED BY <1>10, <2>2, <2>3, <2>4 DEF RecvSucceeds
<1>11. CASE LoopAgain
  BY <1>11 DEF WaitInv, LoopAgain, Goto, tperVars, Rpc!rpcVars
<1>12. CASE TimeOut
  BY <1>12 DEF WaitInv, BusyInv, SendInv, SentOncePerTry, TypeOK, TimeOut, Return, tperVars, Rpc!RpcNext,
    Rpc!ReturnTimeout, Rpc!Return, Nothing, Rpc!Nothing
<1>13. CASE Commit
  <2>1. cmd # NoCmd /\ pc = "check" /\ ~NotReady
    BY <1>13 DEF BusyInv, Commit
  <2>2. CASE resp.ans = Nothing
    <3>1. Nothing.body \notin Garbled
      BY DEF Nothing
    <3>2. UNCHANGED <<inbox, outbox>> /\ pc' = "idle"
      BY <1>13 DEF Commit, Return, tperVars
    <3>3. CASE resp.heard
      <4>1. resp.heard = TRUE
        BY <2>1, <3>3 DEF FetchInv
      <4>2. (inbox = <<>> /\ outbox = <<>>) \/ (outbox # <<>> /\ ~Fits)
        BY <2>1, <2>2, <3>3 DEF FetchInv
      <4> QED BY <1>13, <2>1, <2>2, <3>1, <3>2, <4>1, <4>2 DEF Commit, Return, Fits, Rpc!RpcNext,
        Rpc!ReturnNothing, Rpc!Return, Rpc!Quiet, Rpc!Oversized, Nothing, Rpc!Nothing
    <3>4. CASE ~resp.heard
      <4>1. resp.heard = FALSE
        BY <2>1, <3>4 DEF FetchInv
      <4> QED BY <1>13, <2>1, <2>2, <3>1, <3>2, <4>1 DEF Commit, Return, Rpc!RpcNext,
        Rpc!ReturnUnheard, Rpc!Return, Nothing, Rpc!Nothing
    <3> QED BY <3>3, <3>4
  <2>3. CASE resp.ans # Nothing
    <3>1. /\ resp.ans \in Answer /\ resp.ans.body \notin Oversize /\ outbox \in Seq(Answer)
          /\ resp.heard = TRUE
      BY <2>1, <2>3 DEF TypeOK, FetchInv
    <3>2. /\ <<resp.ans>> \o outbox # <<>>
          /\ Head(<<resp.ans>> \o outbox) = resp.ans
          /\ Tail(<<resp.ans>> \o outbox) = outbox
      BY <3>1, PushFront, Zenon
    <3>3. Queued = <<resp.ans>> \o outbox /\ Queued' = outbox
      BY <1>13, <2>1, <2>3 DEF Commit, Return, tperVars
    <3>4. Queued # <<>> /\ Head(Queued) = resp.ans /\ Tail(Queued) = outbox
      BY <3>2, <3>3
    <3> HIDE DEF Queued
    <3>5. Rpc!ReturnAnswer
      BY <1>13, <2>1, <3>1, <3>3, <3>4 DEF Commit, Return, tperVars,
        Rpc!ReturnAnswer, Rpc!Return, Rpc!Oversized, Nothing, Rpc!Nothing
    <3> QED BY <3>5 DEF Rpc!RpcNext
  <2> QED BY <2>2, <2>3
<1>14. CASE TPer
  <2>1. /\ inbox # <<>> /\ inbox' = Tail(inbox)
        /\ Head(inbox) \in Cmd
        /\ UNCHANGED <<cmd, sent, clean, ret, pc, resp>>
    BY <1>14, HeadTailProperties DEF TPer, TypeOK, hostVars
  <2>2. Queued \in Seq(Answer)
    BY PushFront DEF TypeOK
  <2>3. CASE UNCHANGED outbox
    <3>1. Queued' = Queued /\ Queued \o <<>> = Queued
      BY <2>1, <2>2, <2>3, ConcatEmptySeq
    <3>2. [i \in 1..Len(<<>>) |-> [to |-> Head(inbox), body |-> <<>>[i]]] = <<>>
      OBVIOUS
    <3>3. Rpc!Process(<<>>)
      BY <2>1, <3>1, <3>2 DEF Rpc!Process
    <3> QED BY <3>3 DEF Rpc!RpcNext
  <2>4. ASSUME NEW b \in Body, Answered(b) PROVE Rpc!Process(<<b>>)
    <3> DEFINE a == [to |-> Head(inbox), body |-> b]
    <3>1. a \in Answer /\ outbox' = Append(outbox, a)
      BY <2>1, <2>4 DEF Answered, Answer
    <3> HIDE DEF a
    <3>2. outbox' = outbox \o <<a>>
      BY <3>1, AppendIsConcat DEF TypeOK
    <3>3. Queued' = Queued \o <<a>>
      <4>1. CASE pc = "check" /\ resp.ans # Nothing
        <5>1. <<resp.ans>> \in Seq(Answer) /\ <<a>> \in Seq(Answer)
          BY <3>1, <4>1 DEF TypeOK
        <5>2. (<<resp.ans>> \o outbox) \o <<a>> = <<resp.ans>> \o (outbox \o <<a>>)
          BY <5>1, ConcatAssociative DEF TypeOK
        <5> QED BY <2>1, <3>2, <4>1, <5>2
      <4>2. CASE ~(pc = "check" /\ resp.ans # Nothing)
        BY <2>1, <3>2, <4>2
      <4> QED BY <4>1, <4>2
    <3>4. [i \in 1..Len(<<b>>) |-> [to |-> Head(inbox), body |-> <<b>>[i]]] = <<a>>
      BY DEF a
    <3> QED BY <2>1, <3>3, <3>4 DEF Rpc!Process
  <2> QED BY <1>14, <2>3, <2>4 DEF TPer, Rpc!RpcNext
<1>15. CASE UNCHANGED vars
  BY <1>15 DEF vars, hostVars, tperVars, Rpc!rpcVars
<1> QED BY <1>1, <1>2, <1>3, <1>5, <1>6, <1>7, <1>8, <1>9, <1>10, <1>11, <1>12, <1>13,
  <1>14, <1>15 DEF Next, Host, Rpc!RpcNext

(***************************************************************************)
(* exec keeps the promise of TcgRpc, on which the sessions are built, for  *)
(* every number of transports, every timeout and every lag                 *)
(* (tcg_device_general.cc:109-148).                                        *)
(***************************************************************************)
THEOREM ExecImplementsRpc == Spec => RpcRefined
<1>1. Init => Rpc!RpcInit
  BY DEF Init, Queued, Rpc!RpcInit, Nothing, Rpc!Nothing
<1>2. IInv /\ FetchInv /\ [Next]_vars => [Rpc!RpcNext]_(Rpc!rpcVars)
  BY RefineStep
<1> QED BY <1>1, <1>2, IInvariant, FetchInvariant, PTL DEF Spec, RpcRefined, Rpc!RpcSpec

-----------------------------------------------------------------------------
(* What follows from the promise alone: calls that end well do not disturb   *)
(* each other, for any number of transports and any capacity of the TPer.    *)

Queues ==
  /\ cmd \in Cmd \cup {NoCmd}
  /\ sent \in Nat
  /\ inbox \in Seq(Cmd)
  /\ Queued \in Seq(Answer)

\* A caller that found nothing pending finds no more pending than it sent;
\* after a call SyncKept speaks of, only an oversized answer can be pending,
\* and the TPer has nothing left to answer.
SyncInv ==
  /\ Queues
  /\ clean => Len(inbox) + Len(Queued) <= sent
  /\ cmd = NoCmd /\ ret.clean /\ ret.heard /\ ret.sent <= 1 /\ ret.code \in {"OK", "ILLEGAL_DATA"}
       => inbox = <<>> /\ (Queued = <<>> \/ Rpc!Oversized)

LEMMA TailLength ==
  ASSUME NEW S, NEW s \in Seq(S), s # <<>>
  PROVE  Tail(s) \in Seq(S) /\ Len(Tail(s)) = Len(s) - 1 /\ Len(s) \in Nat
BY HeadTailProperties, LenProperties

LEMMA NoLength ==
  ASSUME NEW S, NEW s \in Seq(S), Len(s) = 0
  PROVE  s = <<>>
BY EmptySeq

\* The TPer takes a command and queues at most one answer.
LEMMA ProcessStep ==
  ASSUME Queues, NEW bodies \in Seq(Body), Len(bodies) <= 1, Rpc!Process(bodies)
  PROVE  Queues' /\ Len(inbox') + Len(Queued') <= Len(inbox) + Len(Queued)
<1> DEFINE new == [i \in 1..Len(bodies) |-> [to |-> Head(inbox), body |-> bodies[i]]]
<1>1. /\ inbox # <<>> /\ inbox' = Tail(inbox) /\ Head(inbox) \in Cmd
      /\ Queued' = Queued \o new /\ UNCHANGED <<cmd, sent>>
  BY HeadTailProperties DEF Rpc!Process, Queues
<1>2. new \in Seq(Answer) /\ Len(new) = Len(bodies)
  <2>1. Len(bodies) \in Nat /\ \A i \in 1..Len(bodies) : bodies[i] \in Body
    BY LenProperties, ElementOfSeq
  <2>2. new \in [1..Len(bodies) -> Answer]
    BY <1>1, <2>1 DEF Answer
  <2>3. new \in Seq(Answer)
    BY <2>1, <2>2, SeqDef
  <2> QED BY <2>1, <2>2, <2>3, LenProperties
<1> HIDE DEF new
<1>3. Queued' \in Seq(Answer) /\ Len(Queued') = Len(Queued) + Len(new)
  BY <1>1, <1>2, ConcatProperties DEF Queues
<1>4. inbox' \in Seq(Cmd) /\ Len(inbox') = Len(inbox) - 1 /\ Len(inbox) \in Nat
  BY <1>1, TailLength DEF Queues
<1>5. Len(Queued) \in Nat /\ Len(bodies) \in Nat
  BY LenProperties DEF Queues
<1> QED BY <1>1, <1>2, <1>3, <1>4, <1>5 DEF Queues

LEMMA SyncStep ==
  ASSUME SyncInv, [Rpc!RpcNext]_(Rpc!rpcVars)
  PROVE  SyncInv'
<1>0. Len(inbox) \in Nat /\ Len(Queued) \in Nat
  BY LenProperties DEF SyncInv, Queues
<1> USE <1>0 DEF SyncInv, Queues
<1>1. ASSUME NEW c \in Cmd, Rpc!Call(c) PROVE SyncInv'
  <2>1. UNCHANGED <<inbox, Queued, ret>> /\ sent' = 0 /\ clean' = Rpc!Quiet /\ cmd = NoCmd
    BY <1>1 DEF Rpc!Call
  <2>2. clean' => Len(inbox') = 0 /\ Len(Queued') = 0
    BY <2>1, EmptySeq DEF Rpc!Quiet
  <2>3. cmd' = c /\ (Rpc!Oversized' <=> Rpc!Oversized)
    BY <1>1, <2>1 DEF Rpc!Call, Rpc!Oversized
  <2> QED BY <2>1, <2>2, <2>3
<1>2. CASE Rpc!Deliver
  <2>1. inbox' \in Seq(Cmd) /\ Len(inbox') = Len(inbox) + 1
    BY <1>2, AppendProperties DEF Rpc!Deliver
  <2>2. Queued' \in Seq(Answer) /\ Len(Queued') <= Len(Queued) /\ Len(Queued') \in Nat
    <3>1. CASE Queued' = Queued
      BY <3>1
    <3>2. CASE Queued' = <<>>
      BY <3>2, EmptySeq
    <3> QED BY <1>2, <3>1, <3>2 DEF Rpc!Deliver
  <2>3. sent' = sent + 1 /\ UNCHANGED <<cmd, clean, ret>> /\ cmd # NoCmd
    BY <1>2 DEF Rpc!Deliver
  <2> QED BY <2>1, <2>2, <2>3
<1>3. ASSUME NEW bodies \in Seq(Body), Len(bodies) <= 1, Rpc!Process(bodies) PROVE SyncInv'
  <2>1. Queues' /\ Len(inbox') + Len(Queued') <= Len(inbox) + Len(Queued)
    BY <1>3, ProcessStep
  <2>2. Len(inbox') \in Nat /\ Len(Queued') \in Nat
    BY <2>1, LenProperties
  <2> QED BY <1>3, <2>1, <2>2 DEF Rpc!Process
<1>4. CASE Rpc!Lose
  BY <1>4, TailLength DEF Rpc!Lose
<1>5. CASE Rpc!ReturnAnswer
  <2>1. Queued' \in Seq(Answer) /\ Len(Queued') = Len(Queued) - 1
    BY <1>5, TailLength DEF Rpc!ReturnAnswer
  <2>2. /\ inbox' = inbox /\ sent' = sent /\ clean' = clean /\ ret'.sent = sent /\ ret'.clean = clean
        /\ cmd' = NoCmd
    BY <1>5 DEF Rpc!ReturnAnswer, Rpc!Return
  <2>3. clean /\ sent <= 1 => inbox' = <<>> /\ Queued' = <<>>
    BY <2>1, <2>2, NoLength
  <2> QED BY <2>1, <2>2, <2>3
<1>6. CASE Rpc!ReturnNothing
  <2>1. /\ UNCHANGED <<inbox, Queued, sent, clean>> /\ ret'.sent = sent /\ ret'.clean = clean
        /\ cmd' = NoCmd
        /\ Rpc!Quiet \/ Rpc!Oversized
    BY <1>6 DEF Rpc!ReturnNothing, Rpc!Return
  <2>2. clean /\ sent <= 1 /\ Rpc!Oversized => inbox = <<>>
    <3>1. Queued # <<>> => Len(Queued) >= 1
      BY EmptySeq
    <3>2. ASSUME clean, sent <= 1, Rpc!Oversized PROVE Len(inbox) = 0
      BY <3>1, <3>2 DEF Rpc!Oversized
    <3> QED BY <3>2, NoLength
  <2> QED BY <2>1, <2>2 DEF Rpc!Quiet, Rpc!Oversized
<1>7. CASE Rpc!ReturnUnheard \/ Rpc!ReturnTimeout \/ Rpc!ReturnError
  BY <1>7 DEF Rpc!ReturnUnheard, Rpc!ReturnTimeout, Rpc!ReturnError, Rpc!Return, Rpc!Errors
<1>8. CASE UNCHANGED Rpc!rpcVars
  BY <1>8 DEF Rpc!rpcVars, Rpc!Oversized
<1>9. ASSUME NEW b \in Body PROVE <<b>> \in Seq(Body) /\ Len(<<b>>) <= 1
  OBVIOUS
<1>10. <<>> \in Seq(Body) /\ Len(<<>>) <= 1
  BY EmptySeq
<1> HIDE DEF SyncInv
<1>11. (\E b \in Body : Rpc!Process(<<b>>)) \/ Rpc!Process(<<>>) => SyncInv'
  <2>1. ASSUME NEW b \in Body, Rpc!Process(<<b>>) PROVE SyncInv'
    BY <1>3, <1>9, <2>1, Zenon
  <2>2. ASSUME Rpc!Process(<<>>) PROVE SyncInv'
    BY <1>3, <1>10, <2>2, Zenon
  <2> QED BY <2>1, <2>2
<1> QED BY <1>1, <1>2, <1>4, <1>5, <1>6, <1>7, <1>8, <1>11 DEF Rpc!RpcNext

(***************************************************************************)
(* For every number of transports and every capacity, a call that found    *)
(* nothing pending, reached the drive at most once and really heard from   *)
(* it in time leaves nothing pending but an oversized answer               *)
(* (tcg_device_general.cc:118-147).                                        *)
(***************************************************************************)
THEOREM CallsKeepSync == Rpc!RpcSpec => []SyncKept
<1>1. Rpc!RpcInit => SyncInv
  <2>1. <<>> \in Seq(Cmd) /\ <<>> \in Seq(Answer) /\ Len(<<>>) = 0
    BY EmptySeq
  <2> QED BY <2>1 DEF Rpc!RpcInit, SyncInv, Queues
<1>2. SyncInv /\ [Rpc!RpcNext]_(Rpc!rpcVars) => SyncInv'
  BY SyncStep
<1>3. SyncInv => SyncKept
  BY DEF SyncInv, SyncKept, Rpc!SyncKept, Rpc!Quiet
<1> QED BY <1>1, <1>2, <1>3, PTL DEF Rpc!RpcSpec

(***************************************************************************)
(* So what TcgRpc guarantees holds of exec: for every number of            *)
(* transports, timeout and lag, a call that found nothing pending, reached *)
(* the drive at most once and really heard from it in time leaves nothing  *)
(* pending but an oversized answer (tcg_device_general.cc:118-147).        *)
(***************************************************************************)
THEOREM ExecKeepsSync == Spec => []SyncKept
BY CallsKeepSync, ExecImplementsRpc, PTL DEF RpcRefined

=============================================================================
