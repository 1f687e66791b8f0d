----------------------------- MODULE TcgSession -----------------------------
(***************************************************************************)
(* The TCG session objects of a program (TcgSessionImpl,                   *)
(* src/tcg/tcg_session_impl.cc), the two device operations that run a      *)
(* session of their own (revertTPer and getDefaultPassword), and the TPer  *)
(* of the drive with its table of open sessions.                           *)
(*                                                                         *)
(* The program is one thread: it creates, starts, uses, closes and         *)
(* destroys session objects in any order, and every command goes through   *)
(* exec, of which this module knows only what TcgRpc says.  pc is the C++  *)
(* function the thread is in.                                              *)
(*                                                                         *)
(* A TPer session is identified by the number the TPer gave it (tsn); the  *)
(* host's number is 105 for every session.  Sessions are open in two       *)
(* places, in an object and in the TPer, and the properties are about how  *)
(* the two drift apart.                                                    *)
(***************************************************************************)
EXTENDS Integers, Sequences, FiniteSets

CONSTANTS
  Sess,       \* the session objects the program may create
  NoCmd,      \* no command is being executed
  Attempts,   \* transports tried for one transfer, see TcgExec
  Capacity,   \* commands and answers the TPer can hold
  Slots,      \* sessions the TPer can have open
  MaxCalls,   \* bound on the commands the program sends of its own accord
  FaultSets   \* what may go wrong, one set for each kind of surroundings

ASSUME SessionAssumption ==
  /\ Attempts \in Nat /\ Capacity \in Nat /\ Slots \in Nat /\ MaxCalls \in Nat
  /\ \A F \in FaultSets : F \subseteq {"resend", "lose", "giveup", "swallow", "odd", "abort"}

VARIABLES
  \* the objects
  life,       \* "unborn", "alive" or "dead"
  opened,     \* session_opened_
  hsn, tsn,   \* host_session_num_, tper_session_num_
  autoClose,  \* flag_auto_close_
  \* the thread
  device,     \* the kind of TcgDevice the drive got
  faults,     \* what may go wrong: see the actions that mention it
  pc,         \* where the thread is
  who,        \* the object it works on
  prog,       \* "user", "revert" or "msid": the function that owns the object
  busy, sent, clean, inbox, outbox, ret,     \* exec and the ComID: see TcgRpc
  \* the TPer
  tper,       \* the session numbers open in the TPer
  \* history
  serial,     \* how many commands were executed
  owner,      \* owner[t]: the object whose StartSession opened t
  ran,        \* the commands the TPer carried out, with their session
  starts,     \* starts[s]: how often start() found SUCCESS
  ends,       \* ends[s]: how often s sent EndOfSession
  last,       \* what the last session function returned
  trouble     \* trouble[s]: what has gone wrong in the calls of s

objVars == <<life, opened, hsn, tsn, autoClose>>
rpcVars == <<busy, sent, clean, inbox, outbox, ret>>
threadVars == <<pc, who, prog>>
tperVars == <<tper, owner, ran>>
countVars == <<serial, starts, ends>>
setting == <<device, faults>>
vars == <<objVars, threadVars, setting, rpcVars, tperVars, countVars, last, trouble>>

HostSessionId == 105

Ops == {"StartSession", "EndOfSession", "Authenticate", "Get", "Set", "Revert"}

Packet == [id : Nat, op : Ops, hsn : Nat, tsn : Nat, sess : Sess]

(***************************************************************************)
(* An answer, cut down to what the session code looks at: whether          *)
(* sendCommand finds a method status, and what getUint32 and getUint8 make *)
(* of tokens 1, 4 and 5, which start and authenticate read whatever        *)
(* command the answer was meant for.                                       *)
(***************************************************************************)
NotNumber == -1    \* the token is no unsigned integer
Missing == -2      \* there are fewer tokens

Body == [class : {"success", "refused", "eos", "malformed", "garbled", "oversize"},
         tok1 : Int, tok4 : Int, tok5 : Int]

Tokens(class, t1, t4, t5) == [class |-> class, tok1 |-> t1, tok4 |-> t4, tok5 |-> t5]

SyncSession(t) == Tokens("success", 255, HostSessionId, t)  \* F8 <SMUID> <SYNC> [ 105 t ]
EmptyList == Tokens("success", NotNumber, 0, 0)             \* [ ] F9 [ 0 0 0 ]
Row == Tokens("success", NotNumber, NotNumber, NotNumber)   \* [ [ F2 3 "..." F3 ] ]
Verdict(v) == Tokens("success", v, NotNumber, 0)            \* [ v ] F9 [ 0 0 0 ]
Refusal == Tokens("refused", NotNumber, NotNumber, NotNumber)
EndToken == Tokens("eos", Missing, Missing, Missing)

OddBodies ==
  { EndToken,
    Tokens("malformed", Missing, Missing, Missing),
    Tokens("garbled", Missing, Missing, Missing),
    Tokens("oversize", Missing, Missing, Missing),
    Tokens("success", NotNumber, HostSessionId, NotNumber) }

Rpc == INSTANCE TcgRpc WITH
  Cmd <- Packet,
  Oversize <- {b \in Body : b.class = "oversize"},
  Garbled <- {b \in Body : b.class = "garbled"}

Init ==
  /\ life = [s \in Sess |-> "unborn"]
  /\ opened = [s \in Sess |-> FALSE]
  /\ hsn = [s \in Sess |-> 0]
  /\ tsn = [s \in Sess |-> 0]
  /\ autoClose = [s \in Sess |-> TRUE]
  /\ device \in {"Opal", "Enterprise", "Generic"}
  /\ faults \in FaultSets
  /\ pc = "idle"
  /\ who \in Sess
  /\ prog = "user"
  /\ Rpc!RpcInit
  /\ tper = {}
  /\ serial = 0
  /\ owner = <<>>
  /\ ran = {}
  /\ starts = [s \in Sess |-> 0]
  /\ ends = [s \in Sess |-> 0]
  /\ last = [fn |-> "none", sess |-> who, code |-> "OK", id |-> 0, clean |-> TRUE]
  /\ trouble = [s \in Sess |-> {}]

-----------------------------------------------------------------------------
(* The thread *)

\* sendCommand puts the object's session numbers into the header and enters
\* exec.
Send(s, op, in) ==
  /\ Rpc!Call([id |-> serial + 1, op |-> op, hsn |-> hsn[s], tsn |-> tsn[s], sess |-> s])
  /\ serial' = serial + 1
  /\ pc' = in

Idle == pc = "idle"
\* Something out of the ordinary happened to a call of object s.
Note(s, kind) == trouble' = [trouble EXCEPT ![s] = @ \cup {kind}]

Room == serial < MaxCalls
Usable(s) == Idle /\ life[s] = "alive"

\* createSession(): the constructor.
Create(s) ==
  /\ Idle
  /\ life[s] = "unborn"
  /\ life' = [life EXCEPT ![s] = "alive"]
  /\ UNCHANGED <<opened, hsn, tsn, autoClose, threadVars, setting, rpcVars, tperVars,
                 countVars, last, trouble>>

\* start(): nothing stops a program from starting an object that is open.
Start(s) ==
  /\ Usable(s) /\ Room
  /\ who' = s
  /\ Send(s, "StartSession", "inStart")
  /\ trouble' = [trouble EXCEPT ![s] = @ \cup (IF opened[s] THEN {"restart"} ELSE {})
                                          \cup (IF Rpc!Quiet THEN {} ELSE {"unclean"})]
  /\ UNCHANGED <<objVars, prog, setting, tperVars, starts, ends, last>>

Command(s, op) ==
  /\ Usable(s) /\ Room
  /\ op \in {"Get", "Set", "Authenticate"}
  /\ who' = s
  /\ Send(s, op, IF op = "Authenticate" THEN "inAuth" ELSE "inSend")
  /\ UNCHANGED <<objVars, prog, setting, tperVars, starts, ends, last, trouble>>

DontAutoClose(s) ==
  /\ Usable(s)
  /\ autoClose' = [autoClose EXCEPT ![s] = FALSE]
  /\ Note(s, "kept")
  /\ UNCHANGED <<life, opened, hsn, tsn, threadVars, setting, rpcVars, tperVars, countVars, last>>

\* (Mutant: the object still counts as open.)
CloseOpenedAgain(s, in) ==
  /\ autoClose[s] /\ opened[s]
  /\ UNCHANGED opened
  /\ Send(s, "EndOfSession", in)
  /\ ends' = [ends EXCEPT ![s] = @ + 1]

\* close() as far as its sendCommand.  It does nothing unless the object is
\* open and closes automatically, also when the program calls it explicitly.
CloseOpened(s, in) ==
  /\ autoClose[s] /\ opened[s]
  /\ opened' = [opened EXCEPT ![s] = FALSE]
  /\ Send(s, "EndOfSession", in)
  /\ ends' = [ends EXCEPT ![s] = @ + 1]

Close(s) ==
  /\ Usable(s)
  /\ who' = s
  /\ CloseOpened(s, "inClose")
  /\ UNCHANGED <<life, hsn, tsn, autoClose, prog, setting, tperVars, starts, last, trouble>>

\* The program destroys an object; pc "dtor" is the destructor.
Destroy(s) ==
  /\ Usable(s)
  /\ who' = s
  /\ pc' = "dtor"
  /\ UNCHANGED <<objVars, prog, setting, rpcVars, tperVars, countVars, last, trouble>>

Bury ==
  /\ life' = [life EXCEPT ![who] = "dead"]
  /\ pc' = "idle"
  /\ prog' = "user"

\* (Mutant: the destructor closes nothing.)
DestructorOnly ==
  /\ pc = "dtor"
  /\ Bury
  /\ UNCHANGED <<opened, serial, ends, rpcVars>>
  /\ UNCHANGED <<hsn, tsn, autoClose, who, setting, tperVars, starts, last, trouble>>

\* (Mutant: the destructor waits for a session that is not open.)
DestructorWaits ==
  /\ pc = "dtor"
  /\ CloseOpened(who, "inDtor")
  /\ UNCHANGED <<life, prog>>
  /\ UNCHANGED <<hsn, tsn, autoClose, who, setting, tperVars, starts, last, trouble>>

Destructor ==
  /\ pc = "dtor"
  /\ \/ /\ CloseOpened(who, "inDtor")
        /\ UNCHANGED <<life, prog>>
     \/ /\ ~(autoClose[who] /\ opened[who])
        /\ Bury
        /\ UNCHANGED <<opened, serial, ends, rpcVars>>
  /\ UNCHANGED <<hsn, tsn, autoClose, who, setting, tperVars, starts, last, trouble>>

\* revertTPer() and getDefaultPassword() begin by starting a session with the
\* Admin SP on an object of their own.  The generic device has neither.
RunDeviceFunction(s, f) ==
  /\ Idle /\ Room
  /\ device # "Generic"
  /\ life[s] = "unborn"
  /\ f \in {"revert", "msid"}
  /\ life' = [life EXCEPT ![s] = "alive"]
  /\ who' = s
  /\ prog' = f
  /\ Send(s, "StartSession", "inStart")
  /\ IF Rpc!Quiet THEN UNCHANGED trouble ELSE Note(s, "unclean")
  /\ UNCHANGED <<opened, hsn, tsn, autoClose, setting, tperVars, starts, ends, last>>

\* ... and go on with one command.
SecondCommand ==
  /\ pc = "started"
  /\ Send(who, IF prog = "revert" THEN "Revert" ELSE "Get", "inSend")
  /\ UNCHANGED <<objVars, who, prog, setting, tperVars, starts, ends, last, trouble>>

-----------------------------------------------------------------------------
(* exec, and what the session functions do with its result *)

Deliver ==
  /\ device = "Opal"
  /\ "resend" \in faults \/ sent = 0
  /\ Rpc!Deliver
  /\ IF sent > 0 THEN Note(who, "resend") ELSE UNCHANGED trouble
  /\ UNCHANGED <<objVars, threadVars, setting, tperVars, countVars, last>>

Lose ==
  /\ "lose" \in faults
  /\ Rpc!Lose
  /\ Note(who, "lost")
  /\ UNCHANGED <<objVars, threadVars, setting, tperVars, countVars, last>>

\* The command was delivered, and the IF-RECVs were what they were reported as.
ReturnsInOrder ==
  /\ sent > 0
  /\ Rpc!ReturnAnswer \/ Rpc!ReturnNothing
  /\ UNCHANGED trouble

ReturnsGivingUp ==
  /\ "giveup" \in faults
  /\ Rpc!ReturnTimeout \/ Rpc!ReturnError
  /\ Note(who, IF sent > 0 THEN "gaveup" ELSE "unsent")

\* A driver reported the IF-SEND as done, and it never arrived; or the IF-RECV,
\* and it brought nothing.
ReturnsUnserved ==
  /\ "swallow" \in faults
  /\ device = "Opal"
  /\ \/ /\ sent = 0
        /\ Rpc!ReturnAnswer \/ Rpc!ReturnNothing \/ Rpc!ReturnTimeout
        /\ Note(who, "swallowed")
     \/ Rpc!ReturnUnheard /\ Note(who, "unheard")

\* isAnySSC() is false: nothing was sent.
ReturnsTurnedDown ==
  /\ device # "Opal"
  /\ Rpc!Return("NOT_SUPPORTED", Rpc!Nothing, TRUE)
  /\ UNCHANGED <<outbox, trouble>>

ExecReturns ==
  \/ ReturnsInOrder
  \/ ReturnsGivingUp
  \/ ReturnsUnserved
  \/ ReturnsTurnedDown

\* (Mutant: the status is not looked at.)
SendCodeNoStatus(r) ==
  IF r.code # "OK" THEN r.code
  ELSE IF r.ans = Rpc!Nothing THEN "ILLEGAL_RESPONSE"
  ELSE IF r.ans.body.class = "malformed" THEN "ILLEGAL_RESPONSE" ELSE "OK"

\* sendCommand after exec.  An EndOfSession token counts as success, whatever
\* was asked.
SendCode(r) ==
  IF r.code # "OK" THEN r.code
  ELSE IF r.ans = Rpc!Nothing THEN "ILLEGAL_RESPONSE"
  ELSE CASE r.ans.body.class = "malformed" -> "ILLEGAL_RESPONSE"
         [] r.ans.body.class = "refused" -> "TCG_ERROR_STATUS"
         [] OTHER -> "OK"

Report(fn, code) ==
  last' = [fn |-> fn, sess |-> who, code |-> code, id |-> busy.id, clean |-> clean]

\* (Mutants: the object counts as open whatever start found; the objects share
\* one session number.)
StartReturnsOpen ==
  /\ pc = "inStart"
  /\ ExecReturns
  /\ LET ok == SendCode(ret') = "OK"
         t4 == IF ok THEN ret'.ans.body.tok4 ELSE Missing
         t5 == IF ok THEN ret'.ans.body.tok5 ELSE Missing
         code == IF ~ok THEN SendCode(ret')
                 ELSE IF Missing \in {t4, t5} THEN "ILLEGAL_RESPONSE"
                 ELSE IF NotNumber \in {t4, t5} THEN "ILLEGAL_DATA"
                 ELSE "OK"
     IN /\ opened' = [opened EXCEPT ![who] = TRUE]
        /\ starts' = [starts EXCEPT ![who] = IF ok THEN @ + 1 ELSE @]
        /\ hsn' = [hsn EXCEPT ![who] = IF t4 >= 0 /\ t5 # Missing THEN t4 ELSE @]
        /\ tsn' = [tsn EXCEPT ![who] = IF t4 >= 0 /\ t5 >= 0 THEN t5 ELSE @]
        /\ Report("start", code)
        /\ pc' = IF prog = "user" THEN "idle" ELSE IF code = "OK" THEN "started" ELSE "dtor"
  /\ UNCHANGED <<life, autoClose, who, prog, setting, tperVars, serial, ends>>

StartReturnsShared ==
  /\ pc = "inStart"
  /\ ExecReturns
  /\ LET ok == SendCode(ret') = "OK"
         t4 == IF ok THEN ret'.ans.body.tok4 ELSE Missing
         t5 == IF ok THEN ret'.ans.body.tok5 ELSE Missing
         code == IF ~ok THEN SendCode(ret')
                 ELSE IF Missing \in {t4, t5} THEN "ILLEGAL_RESPONSE"
                 ELSE IF NotNumber \in {t4, t5} THEN "ILLEGAL_DATA"
                 ELSE "OK"
     IN /\ opened' = [opened EXCEPT ![who] = @ \/ ok]
        /\ starts' = [starts EXCEPT ![who] = IF ok THEN @ + 1 ELSE @]
        /\ hsn' = [hsn EXCEPT ![who] = IF t4 >= 0 /\ t5 # Missing THEN t4 ELSE @]
        /\ tsn' = [s \in Sess |-> IF t4 >= 0 /\ t5 >= 0 THEN t5 ELSE tsn[s]]
        /\ Report("start", code)
        /\ pc' = IF prog = "user" THEN "idle" ELSE IF code = "OK" THEN "started" ELSE "dtor"
  /\ UNCHANGED <<life, autoClose, who, prog, setting, tperVars, serial, ends>>

\* start after sendCommand: the object counts as open as soon as the status is
\* SUCCESS; the session numbers are read afterwards, one after the other.
StartReturns ==
  /\ pc = "inStart"
  /\ ExecReturns
  /\ LET ok == SendCode(ret') = "OK"
         t4 == IF ok THEN ret'.ans.body.tok4 ELSE Missing
         t5 == IF ok THEN ret'.ans.body.tok5 ELSE Missing
         code == IF ~ok THEN SendCode(ret')
                 ELSE IF Missing \in {t4, t5} THEN "ILLEGAL_RESPONSE"
                 ELSE IF NotNumber \in {t4, t5} THEN "ILLEGAL_DATA"
                 ELSE "OK"
     IN /\ opened' = [opened EXCEPT ![who] = @ \/ ok]
        /\ starts' = [starts EXCEPT ![who] = IF ok THEN @ + 1 ELSE @]
        /\ hsn' = [hsn EXCEPT ![who] = IF t4 >= 0 /\ t5 # Missing THEN t4 ELSE @]
        /\ tsn' = [tsn EXCEPT ![who] = IF t4 >= 0 /\ t5 >= 0 THEN t5 ELSE @]
        /\ Report("start", code)
        /\ pc' = IF prog = "user" THEN "idle" ELSE IF code = "OK" THEN "started" ELSE "dtor"
  /\ UNCHANGED <<life, autoClose, who, prog, setting, tperVars, serial, ends>>

\* sendCommand for the program, for revertTPer, which keeps the session from
\* being closed when the drive reverted, and for getDefaultPassword.
SendReturns ==
  /\ pc = "inSend"
  /\ ExecReturns
  /\ Report("sendCommand", SendCode(ret'))
  /\ autoClose' = [autoClose EXCEPT
       ![who] = @ /\ ~(prog = "revert" /\ SendCode(ret') = "OK")]
  /\ pc' = IF prog = "user" THEN "idle" ELSE "dtor"
  /\ UNCHANGED <<life, opened, hsn, tsn, who, prog, setting, tperVars, countVars>>

\* authenticate: a verdict of 0 is taken for success.
AuthReturns ==
  /\ pc = "inAuth"
  /\ ExecReturns
  /\ LET code == SendCode(ret')
         v == IF code = "OK" THEN ret'.ans.body.tok1 ELSE Missing
     IN Report("authenticate",
          IF code # "OK" THEN code
          ELSE CASE v = Missing -> "ILLEGAL_RESPONSE"
                 [] v = NotNumber -> "ILLEGAL_DATA"
                 [] v = 0 -> "OK"
                 [] OTHER -> "TCG_AUTH_FAILED")
  /\ pc' = "idle"
  /\ UNCHANGED <<objVars, who, prog, setting, tperVars, countVars>>

\* close ignores what became of its EndOfSession.
CloseReturns ==
  /\ ExecReturns
  /\ \/ /\ pc = "inClose"
        /\ pc' = "idle"
        /\ UNCHANGED <<life, prog>>
     \/ /\ pc = "inDtor"
        /\ Bury
  /\ UNCHANGED <<opened, hsn, tsn, autoClose, who, setting, tperVars, countVars, last>>

-----------------------------------------------------------------------------
(* The TPer (external) *)

Asked == Head(inbox)

InSession == Asked.hsn = HostSessionId /\ Asked.tsn \in tper

Answers(body) == Rpc!Process(<<body>>)

TPerRest == UNCHANGED <<objVars, threadVars, setting, countVars, last>>

NextTsn == Cardinality(DOMAIN owner) + 1

OpenSession ==
  /\ Cardinality(tper) < Slots
  /\ tper' = tper \cup {NextTsn}
  /\ owner' = [t \in DOMAIN owner \cup {NextTsn} |->
                 IF t = NextTsn THEN Asked.sess ELSE owner[t]]
  /\ UNCHANGED ran

TPerStart ==
  /\ inbox # <<>> /\ Asked.op = "StartSession"
  /\ OpenSession
  /\ Answers(SyncSession(NextTsn))
  /\ UNCHANGED trouble
  /\ TPerRest

TPerRefuse ==
  /\ inbox # <<>>
  /\ Asked.op # "EndOfSession"
  /\ Asked.op = "StartSession" \/ InSession
  /\ Answers(Refusal)
  /\ UNCHANGED <<tperVars, trouble>>
  /\ TPerRest

CarriedOut == ran' = ran \cup {[id |-> Asked.id, sess |-> Asked.sess, tsn |-> Asked.tsn]}

TPerMethod ==
  /\ inbox # <<>> /\ InSession
  /\ \/ Asked.op = "Get" /\ Answers(Row)
     \/ Asked.op = "Set" /\ Answers(EmptyList)
     \/ Asked.op = "Authenticate" /\ \E v \in {0, 1} : Answers(Verdict(v))
  /\ CarriedOut
  /\ UNCHANGED <<tper, owner, trouble>>
  /\ TPerRest

TPerEnd ==
  /\ inbox # <<>> /\ InSession
  /\ Asked.op = "EndOfSession"
  /\ tper' = tper \ {Asked.tsn}
  /\ Answers(EndToken)
  /\ CarriedOut
  /\ UNCHANGED <<owner, trouble>>
  /\ TPerRest

\* A reverted drive has no session left, not even those of other objects.
TPerRevert ==
  /\ inbox # <<>> /\ InSession
  /\ Asked.op = "Revert"
  /\ tper' = {}
  /\ Answers(EmptyList)
  /\ CarriedOut
  /\ trouble' = [s \in Sess |-> trouble[s] \cup
                   (IF \E t \in tper \ {Asked.tsn} : owner[t] = s THEN {"abort"} ELSE {})]
  /\ UNCHANGED owner
  /\ TPerRest

\* A command for a session that is not open is ignored.
TPerIgnore ==
  /\ inbox # <<>> /\ ~InSession
  /\ Asked.op = "StartSession" => Asked.tsn # 0
  /\ Rpc!Process(<<>>)
  /\ UNCHANGED <<tperVars, trouble>>
  /\ TPerRest

\* The TPer answers with something else than it should, or closes a session.
TPerOdd ==
  /\ "odd" \in faults
  /\ inbox # <<>>
  /\ \/ UNCHANGED tperVars
     \/ Asked.op = "StartSession" /\ OpenSession
  /\ \E b \in OddBodies : Answers(b)
  /\ Note(Asked.sess, "odd")
  /\ TPerRest

TPerAbort ==
  /\ "abort" \in faults
  /\ \E t \in tper : tper' = tper \ {t} /\ Note(owner[t], "abort")
  /\ UNCHANGED <<owner, ran, rpcVars>>
  /\ TPerRest

Program ==
  \E s \in Sess :
    \/ Create(s)
    \/ Start(s)
    \/ \E op \in Ops : Command(s, op)
    \/ DontAutoClose(s)
    \/ Close(s)
    \/ Destroy(s)
    \/ \E f \in {"revert", "msid"} : RunDeviceFunction(s, f)

Library ==
  \/ Destructor
  \/ SecondCommand
  \/ Deliver
  \/ StartReturns
  \/ SendReturns
  \/ AuthReturns
  \/ CloseReturns

TPer ==
  \/ TPerStart
  \/ TPerRefuse
  \/ TPerMethod
  \/ TPerEnd
  \/ TPerRevert
  \/ TPerIgnore

Next ==
  \/ Program
  \/ Library
  \/ Lose
  \/ TPer
  \/ TPerOdd
  \/ TPerAbort

Spec == Init /\ [][Next]_vars

-----------------------------------------------------------------------------

Troubles ==
  {"restart", "kept", "unclean", "resend", "lost", "gaveup", "unsent", "swallowed", "unheard",
   "odd", "abort"}

Claimed(t) ==
  \/ \E s \in Sess : life[s] = "alive" /\ opened[s] /\ tsn[s] = t
  \/ pc = "inStart" /\ owner[t] = who
  \/ pc \in {"inClose", "inDtor"} /\ busy.tsn = t
  \/ \E i \in DOMAIN inbox : inbox[i].op = "EndOfSession" /\ inbox[i].tsn = t

(***************************************************************************)
(* No TPer session is left behind: whatever the program does with its      *)
(* objects, also when revertTPer or getDefaultPassword return early, every *)
(* session open in the TPer belongs to an object that will still close it, *)
(* or its EndOfSession is on its way.                                      *)
(* The exceptions are the objects the code gives up on: one of whose own   *)
(* transfers failed, timed out, arrived twice or was reported as done by   *)
(* a driver that had not done it (also the EndOfSession of close, which    *)
(* looks at no result), which got a malformed answer or began with an      *)
(* answer pending, or which the program told not to close or started       *)
(* twice: start() then forgets the first session's number                  *)
(* (tcg_session_impl.cc:44-56, 135-155).                                   *)
(***************************************************************************)
NoSessionLeft == \A t \in tper : trouble[owner[t]] \subseteq {"abort"} => Claimed(t)

(***************************************************************************)
(* Between calls, an object that believes to be open is open in the TPer,  *)
(* in the session its own StartSession opened                              *)
(* (tcg_session_impl.cc:135-155): timeouts, failed transfers and transfers *)
(* wrongly reported as done do not make it believe anything wrong, unless  *)
(* it was started with an earlier answer still pending.                    *)
(***************************************************************************)
BeliefRight ==
  Idle => \A s \in Sess :
    /\ life[s] = "alive" /\ opened[s]
    /\ trouble[s] \cap {"unclean", "odd", "abort"} = {}
    => tsn[s] \in tper /\ owner[tsn[s]] = s

(***************************************************************************)
(* No object ever works in another object's session, unless it was started *)
(* with an earlier answer still pending: then it may take that answer for  *)
(* its own, because the host session number is always 105                  *)
(* (tcg_session_impl.cc:90) and cannot tell them apart.                    *)
(***************************************************************************)
OwnSession ==
  \A r \in ran : "unclean" \notin trouble[r.sess] => owner[r.tsn] = r.sess

(***************************************************************************)
(* A command reported as successful was carried out in the TPer, if        *)
(* nothing was pending when it was sent, although sendCommand looks at     *)
(* nothing but the status (tcg_session_impl.cc:216-261).  A TPer that      *)
(* answers with EndOfSession instead is believed (line 235).               *)
(***************************************************************************)
SuccessIsReal ==
  /\ last.fn \in {"sendCommand", "authenticate"}
  /\ last.code = "OK"
  /\ last.clean
  /\ "odd" \notin trouble[last.sess]
  => \E r \in ran : r.id = last.id

(***************************************************************************)
(* close, the destructor and the device functions together send            *)
(* EndOfSession at most once for each time start succeeded, whatever goes  *)
(* wrong (tcg_session_impl.cc:44-56).                                      *)
(***************************************************************************)
EndOnce == \A s \in Sess : ends[s] <= starts[s]

(***************************************************************************)
(* A drive whose Discovery 0 announces the Enterprise SSC                  *)
(* (tcg_types.h:195 calls it an SSC feature) gets a device whose           *)
(* operations are not turned down for want of an SSC.                      *)
(***************************************************************************)
EnterpriseServed == device = "Enterprise" => last.code # "NOT_SUPPORTED"

-----------------------------------------------------------------------------

FairSpec == Spec /\ WF_vars(Library) /\ WF_vars(TPer)

(***************************************************************************)
(* Once an object is gone, so is its TPer session, if nothing went wrong.  *)
(***************************************************************************)
Released ==
  \A s \in Sess :
    life[s] = "dead" /\ trouble[s] = {}
      ~> trouble[s] # {} \/ \A t \in tper : owner[t] # s

(***************************************************************************)
(* Every call into the library returns (the thread keeps running, exec     *)
(* returns as TcgExec shows).                                              *)
(***************************************************************************)
CallsReturn == pc # "idle" ~> pc = "idle"

=============================================================================
