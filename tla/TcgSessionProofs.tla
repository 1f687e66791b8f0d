-------------------------- MODULE TcgSessionProofs --------------------------
(***************************************************************************)
(* Proofs about TcgSession, for any number of session objects, commands    *)
(* and faults.                                                             *)
(***************************************************************************)
EXTENDS TcgSession, FiniteSetTheorems, SequenceTheorems, TLAPS

-----------------------------------------------------------------------------
(* Queues as sets of what is in them *)

Waiting == Range(inbox)
Pending == Range(outbox)

LEMMA RangeEmpty ==
  ASSUME NEW S, NEW q \in Seq(S)
  PROVE  /\ Range(<<>>) = {}
         /\ Len(q) \in Nat
         /\ q = <<>> <=> Len(q) = 0
         /\ q = <<>> <=> Range(q) = {}
<1>1. Range(<<>>) = {} /\ Len(<<>>) = 0
  BY DEF Range
<1>2. Len(q) \in Nat /\ (q # <<>> => Len(q) # 0) /\ DOMAIN q = 1..Len(q)
  BY EmptySeq, LenProperties
<1>3. q # <<>> => q[1] \in Range(q)
  BY <1>2 DEF Range
<1> QED BY <1>1, <1>2, <1>3

LEMMA RangeAppend ==
  ASSUME NEW S, NEW q \in Seq(S), NEW x \in S
  PROVE  /\ Append(q, x) \in Seq(S)
         /\ Len(Append(q, x)) = Len(q) + 1
         /\ Range(Append(q, x)) = Range(q) \cup {x}
<1>1. Append(q, x) = q \o <<x>> /\ <<x>> \in Seq(S)
  BY AppendIsConcat
<1>2. Range(<<x>>) = {x}
  BY DEF Range
<1>3. Range(q \o <<x>>) = Range(q) \cup {x}
  <2>1. Range(q \o <<x>>) = Range(q) \cup Range(<<x>>)
    BY <1>1, RangeConcatenation, Zenon
  <2> QED BY <1>2, <2>1
<1>4. Append(q, x) \in Seq(S) /\ Len(Append(q, x)) = Len(q) + 1
  OBVIOUS
<1> QED BY <1>1, <1>3, <1>4

LEMMA RangeTail ==
  ASSUME NEW S, NEW q \in Seq(S), q # <<>>
  PROVE  /\ Head(q) \in S /\ Head(q) = q[1] /\ Head(q) \in Range(q)
         /\ Tail(q) \in Seq(S)
         /\ Len(Tail(q)) = Len(q) - 1
         /\ Range(Tail(q)) \subseteq Range(q)
         /\ Range(q) \subseteq Range(Tail(q)) \cup {Head(q)}
<1>1. /\ Tail(q) \in Seq(S) /\ Len(Tail(q)) = Len(q) - 1
      /\ \A i \in 1..Len(Tail(q)) : Tail(q)[i] = q[i + 1]
      /\ Head(q) \in S
  BY HeadTailProperties
<1>2. Len(q) \in Nat \ {0} /\ DOMAIN q = 1..Len(q) /\ DOMAIN Tail(q) = 1..(Len(q) - 1)
  BY <1>1, EmptySeq, LenProperties
<1>3. Head(q) = q[1]
  OBVIOUS
<1>4. ASSUME NEW x \in Range(Tail(q)) PROVE x \in Range(q)
  <2>1. PICK i \in 1..(Len(q) - 1) : x = Tail(q)[i]
    BY <1>2 DEF Range
  <2>2. i + 1 \in 1..Len(q) /\ x = q[i + 1]
    BY <1>1, <1>2, <2>1
  <2> QED BY <1>2, <2>2 DEF Range
<1>5. ASSUME NEW x \in Range(q), x # q[1] PROVE x \in Range(Tail(q))
  <2>1. PICK i \in 1..Len(q) : x = q[i]
    BY <1>2 DEF Range
  <2>2. i - 1 \in 1..(Len(q) - 1) /\ x = Tail(q)[i - 1]
    BY <1>1, <1>2, <1>5, <2>1
  <2> QED BY <1>2, <2>2 DEF Range
<1>6. q[1] \in Range(q)
  BY <1>2 DEF Range
<1> QED BY <1>1, <1>3, <1>4, <1>5, <1>6

-----------------------------------------------------------------------------
(* Types *)

SessionCodes ==
  Rpc!Codes \cup {"ILLEGAL_RESPONSE", "TCG_ERROR_STATUS", "TCG_AUTH_FAILED"}

\* The variables have their types; owner is a sequence, as session numbers are
\* given out in turn.
TypeOK ==
  /\ life \in [Sess -> {"unborn", "alive", "dead"}]
  /\ opened \in [Sess -> BOOLEAN] /\ autoClose \in [Sess -> BOOLEAN]
  /\ hsn \in [Sess -> Nat] /\ tsn \in [Sess -> Nat]
  /\ device \in {"Opal", "Enterprise", "Generic"} /\ faults \in FaultSets
  /\ pc \in {"idle", "inStart", "inSend", "inAuth", "inClose", "inDtor", "started", "dtor"}
  /\ who \in Sess /\ prog \in {"user", "revert", "msid"}
  /\ Rpc!RpcTypeOK
  /\ owner \in Seq(Sess) /\ tper \subseteq 1..Len(owner)
  /\ ran \subseteq [id : Nat, sess : Sess, tsn : Nat]
  /\ serial \in Nat /\ starts \in [Sess -> Nat] /\ ends \in [Sess -> Nat]
  /\ last \in [fn : {"none", "start", "sendCommand", "authenticate"}, sess : Sess,
               code : SessionCodes, id : Nat, clean : BOOLEAN]
  /\ trouble \in [Sess -> SUBSET Troubles]

\* What exec and the TPer work on.
Queues ==
  /\ inbox \in Seq(Packet)
  /\ outbox \in Seq(Rpc!Answer)
  /\ busy \in Packet \cup {NoCmd}
  /\ sent \in Nat /\ clean \in BOOLEAN

LEMMA TypedQueues == ASSUME TypeOK PROVE Queues
BY SessionAssumption DEF TypeOK, Queues, Rpc!RpcTypeOK

-----------------------------------------------------------------------------
(* What the steps of exec and of the TPer do to the queues *)

LEMMA CallQueues ==
  ASSUME Queues, NEW c \in Packet, Rpc!Call(c)
  PROVE  /\ busy = NoCmd /\ busy' = c /\ sent' = 0
         /\ clean' = (inbox = <<>> /\ outbox = <<>>)
         /\ UNCHANGED <<inbox, outbox, ret>>
         /\ Queues'
BY DEF Rpc!Call, Rpc!Quiet, Queues

LEMMA DeliverQueues ==
  ASSUME Queues, Rpc!Deliver
  PROVE  /\ busy \in Packet /\ busy # NoCmd /\ sent < Attempts /\ sent' = sent + 1
         /\ UNCHANGED <<busy, clean, ret>>
         /\ Waiting' = Waiting \cup {busy} /\ Len(inbox') = Len(inbox) + 1
         /\ outbox' = outbox \/ (outbox' = <<>> /\ Pending' = {} /\ Len(outbox') = 0)
         /\ Queues'
<1>1. /\ busy \in Packet /\ busy # NoCmd /\ sent < Attempts /\ sent' = sent + 1
      /\ UNCHANGED <<busy, clean, ret>>
      /\ inbox' = Append(inbox, busy) /\ outbox' \in {outbox, <<>>}
  BY DEF Rpc!Deliver, Queues
<1>2. inbox' \in Seq(Packet) /\ Len(inbox') = Len(inbox) + 1 /\ Range(inbox') = Range(inbox) \cup {busy}
  BY <1>1, RangeAppend DEF Queues
<1>3. outbox' = <<>> => Range(outbox') = {} /\ Len(outbox') = 0
  BY RangeEmpty, EmptySeq DEF Queues
<1>4. outbox' \in Seq(Rpc!Answer)
  BY <1>1, EmptySeq DEF Queues
<1> QED BY <1>1, <1>2, <1>3, <1>4 DEF Queues, Waiting, Pending

\* The TPer takes the oldest command away.
LEMMA AskedQueues ==
  ASSUME Queues, inbox # <<>>
  PROVE  /\ Asked \in Packet /\ Asked \in Waiting
         /\ Tail(inbox) \in Seq(Packet) /\ Len(Tail(inbox)) = Len(inbox) - 1
         /\ Range(Tail(inbox)) \subseteq Waiting
         /\ Waiting \subseteq Range(Tail(inbox)) \cup {Asked}
         /\ Len(inbox) \in Nat \ {0}
BY RangeTail, EmptySeq DEF Queues, Asked, Waiting

LEMMA AnswerQueues ==
  ASSUME Queues, NEW b \in Body, Answers(b)
  PROVE  /\ inbox # <<>> /\ Asked \in Packet /\ Asked \in Waiting
         /\ Waiting' \subseteq Waiting /\ Waiting \subseteq Waiting' \cup {Asked}
         /\ outbox' = Append(outbox, [to |-> Asked, body |-> b])
         /\ Pending' = Pending \cup {[to |-> Asked, body |-> b]}
         /\ Len(inbox') = Len(inbox) - 1 /\ Len(outbox') = Len(outbox) + 1
         /\ UNCHANGED <<busy, sent, clean, ret>>
         /\ Queues'
<1> DEFINE a == [to |-> Asked, body |-> b]
           new == [i \in 1..Len(<<b>>) |-> [to |-> Head(inbox), body |-> <<b>>[i]]]
<1>1. /\ inbox # <<>> /\ inbox' = Tail(inbox) /\ outbox' = outbox \o new
      /\ UNCHANGED <<busy, sent, clean, ret>>
  BY DEF Answers, Rpc!Process
<1>2. Asked \in Packet /\ a \in Rpc!Answer
  BY <1>1, AskedQueues DEF Rpc!Answer
<1>3. new = <<a>>
  BY DEF Asked
<1>4. outbox' = Append(outbox, a)
  BY <1>1, <1>2, <1>3, AppendIsConcat DEF Queues
<1> HIDE DEF a, new
<1>5. /\ outbox' \in Seq(Rpc!Answer) /\ Len(outbox') = Len(outbox) + 1
      /\ Range(outbox') = Range(outbox) \cup {a}
  BY <1>2, <1>4, RangeAppend DEF Queues
<1> QED BY <1>1, <1>2, <1>4, <1>5, AskedQueues DEF Queues, Waiting, Pending, a

LEMMA IgnoreQueues ==
  ASSUME Queues, Rpc!Process(<<>>)
  PROVE  /\ inbox # <<>> /\ Asked \in Packet /\ Asked \in Waiting
         /\ Waiting' \subseteq Waiting /\ Waiting \subseteq Waiting' \cup {Asked}
         /\ outbox' = outbox
         /\ Len(inbox') = Len(inbox) - 1
         /\ UNCHANGED <<busy, sent, clean, ret>>
         /\ Queues'
<1>1. /\ inbox # <<>> /\ inbox' = Tail(inbox)
      /\ outbox' = outbox \o [i \in 1..Len(<<>>) |-> [to |-> Head(inbox), body |-> <<>>[i]]]
      /\ UNCHANGED <<busy, sent, clean, ret>>
  BY DEF Rpc!Process
<1>2. [i \in 1..Len(<<>>) |-> [to |-> Head(inbox), body |-> <<>>[i]]] = <<>>
  OBVIOUS
<1>3. outbox' = outbox
  BY <1>1, <1>2, ConcatEmptySeq DEF Queues
<1> QED BY <1>1, <1>3, AskedQueues DEF Queues, Waiting

LEMMA LoseQueues ==
  ASSUME Queues, Rpc!Lose
  PROVE  /\ busy # NoCmd /\ outbox # <<>> /\ outbox' = Tail(outbox)
         /\ Pending' \subseteq Pending /\ Len(outbox') = Len(outbox) - 1
         /\ UNCHANGED <<busy, sent, clean, inbox, ret>>
         /\ Queues'
<1>1. /\ busy # NoCmd /\ outbox # <<>> /\ outbox' = Tail(outbox)
      /\ UNCHANGED <<busy, sent, clean, inbox, ret>>
  BY DEF Rpc!Lose
<1> QED BY <1>1, RangeTail DEF Queues, Pending

(***************************************************************************)
(* The four ways in which exec returns: with the oldest answer, without an *)
(* answer, because it gave up or a driver had not done what it reported,   *)
(* and because the drive has no SSC.                                       *)
(***************************************************************************)
Noted(kind) == trouble' = [trouble EXCEPT ![who] = @ \cup {kind}]

Unserved == {"gaveup", "unsent", "swallowed", "unheard"}

Fetches ==
  /\ outbox # <<>> /\ outbox' = Tail(outbox)
  /\ (sent > 0 /\ trouble' = trouble) \/ Noted("swallowed")
  /\ \/ ret'.code = "ILLEGAL_DATA" /\ Head(outbox).body.class = "garbled"
     \/ ret'.code = "OK" /\ ret'.ans = Head(outbox) /\ Head(outbox).body.class # "garbled"

FindsNothing ==
  /\ sent > 0 /\ outbox' = outbox /\ trouble' = trouble
  /\ ret'.code = "OK" /\ ret'.ans = Rpc!Nothing
  /\ \/ inbox = <<>> /\ outbox = <<>>
     \/ outbox # <<>> /\ Head(outbox).body.class = "oversize"

GivesUp ==
  /\ outbox' = outbox
  /\ \E kind \in Unserved : Noted(kind)
  /\ ret'.code # "OK" \/ ret'.ans = Rpc!Nothing

TurnsDown ==
  /\ device # "Opal" /\ outbox' = outbox /\ trouble' = trouble
  /\ ret'.code # "OK"

LEMMA ReturnCases ==
  ASSUME Queues, ExecReturns
  PROVE  Fetches \/ FindsNothing \/ GivesUp \/ TurnsDown
<1>1. CASE Rpc!ReturnAnswer /\ ((sent > 0 /\ UNCHANGED trouble) \/ Note(who, "swallowed"))
  <2>1. Head(outbox) \in Rpc!Answer
    BY <1>1, RangeTail DEF Rpc!ReturnAnswer, Queues
  <2>2. Head(outbox).body \in Body
    BY <2>1 DEF Rpc!Answer
  <2> QED BY <1>1, <2>2 DEF Rpc!ReturnAnswer, Rpc!Return, Fetches, Noted, Note
<1>2. CASE sent > 0 /\ Rpc!ReturnNothing /\ UNCHANGED trouble
  BY <1>2 DEF Rpc!ReturnNothing, Rpc!Return, Rpc!Quiet, Rpc!Oversized, FindsNothing
<1>3. ASSUME NEW kind \in Unserved, Note(who, kind),
             Rpc!ReturnTimeout \/ Rpc!ReturnError \/ Rpc!ReturnNothing \/ Rpc!ReturnUnheard
      PROVE  GivesUp
  <2>1. Noted(kind)
    BY <1>3 DEF Note, Noted
  <2>2. outbox' = outbox /\ (ret'.code # "OK" \/ ret'.ans = Rpc!Nothing)
    BY <1>3 DEF Rpc!ReturnTimeout, Rpc!ReturnError, Rpc!ReturnNothing, Rpc!ReturnUnheard, Rpc!Return,
      Rpc!Errors
  <2> QED BY <2>1, <2>2 DEF GivesUp
<1>4. CASE ReturnsTurnedDown
  BY <1>4 DEF ReturnsTurnedDown, Rpc!Return, TurnsDown
<1>5. CASE ReturnsInOrder
  BY <1>1, <1>2, <1>5 DEF ReturnsInOrder
<1>6. CASE ReturnsGivingUp
  <2>1. (IF sent > 0 THEN "gaveup" ELSE "unsent") \in Unserved
    BY DEF Unserved
  <2> QED BY <1>3, <1>6, <2>1 DEF ReturnsGivingUp
<1>7. CASE ReturnsUnserved
  <2>1. "swallowed" \in Unserved /\ "unheard" \in Unserved
    BY DEF Unserved
  <2> QED BY <1>1, <1>3, <1>7, <2>1 DEF ReturnsUnserved
<1> QED BY <1>4, <1>5, <1>6, <1>7 DEF ExecReturns

\* A status of success comes from the oldest answer.
LEMMA OkIsFetched ==
  ASSUME Queues, ExecReturns, SendCode(ret') = "OK"
  PROVE  /\ Fetches /\ ret'.ans = Head(outbox)
         /\ Head(outbox).body.class \notin {"refused", "malformed", "garbled"}
<1>1. ret'.code = "OK" /\ ret'.ans # Rpc!Nothing
      /\ ret'.ans.body.class # "malformed" /\ ret'.ans.body.class # "refused"
  BY DEF SendCode
<1>2. Fetches
  BY <1>1, ReturnCases DEF FindsNothing, GivesUp, TurnsDown
<1> QED BY <1>1, <1>2 DEF Fetches

LEMMA ReturnQueues ==
  ASSUME Queues, ExecReturns
  PROVE  /\ busy \in Packet /\ busy # NoCmd /\ busy' = NoCmd /\ UNCHANGED <<sent, clean, inbox>>
         /\ Pending' \subseteq Pending /\ Waiting' = Waiting
         /\ Queues'
<1>1. busy # NoCmd /\ busy' = NoCmd /\ UNCHANGED <<sent, clean, inbox>>
  BY DEF ExecReturns, ReturnsInOrder, ReturnsGivingUp, ReturnsUnserved, ReturnsTurnedDown,
    Rpc!ReturnAnswer, Rpc!ReturnNothing, Rpc!ReturnUnheard, Rpc!ReturnTimeout, Rpc!ReturnError,
    Rpc!Return
<1>2. outbox' = outbox \/ (outbox # <<>> /\ outbox' = Tail(outbox))
  BY ReturnCases DEF Fetches, FindsNothing, GivesUp, TurnsDown
<1>3. outbox' \in Seq(Rpc!Answer) /\ Range(outbox') \subseteq Range(outbox)
  BY <1>2, RangeTail DEF Queues
<1> QED BY <1>1, <1>3 DEF Queues, Pending, Waiting

\* What a call leaves of the answers, when it took the oldest one.
LEMMA FetchQueues ==
  ASSUME Queues, Fetches
  PROVE  /\ Head(outbox) \in Pending /\ Head(outbox) \in Rpc!Answer /\ Head(outbox) = outbox[1]
         /\ Len(outbox) \in Nat \ {0} /\ Len(outbox') = Len(outbox) - 1
         /\ \A i \in 1..Len(outbox') : outbox'[i] = outbox[i + 1]
BY RangeTail, EmptySeq, HeadTailProperties DEF Queues, Fetches, Pending

-----------------------------------------------------------------------------
(* Types are kept *)

LEMMA OpenSessionTypes ==
  ASSUME TypeOK, inbox # <<>>, OpenSession
  PROVE  /\ Len(owner) \in Nat /\ NextTsn = Len(owner) + 1
         /\ owner' \in Seq(Sess) /\ Len(owner') = Len(owner) + 1
         /\ owner'[NextTsn] = Asked.sess
         /\ \A t \in 1..Len(owner) : owner'[t] = owner[t]
         /\ tper' = tper \cup {NextTsn} /\ ran' = ran
<1>1. Len(owner) \in Nat /\ DOMAIN owner = 1..Len(owner) /\ \A t \in 1..Len(owner) : owner[t] \in Sess
  BY LenProperties DEF TypeOK
<1>2. NextTsn = Len(owner) + 1
  <2>1. Len(owner) \in Int /\ 1 \in Int
    BY <1>1
  <2>2. Cardinality(1..Len(owner)) = IF 1 > Len(owner) THEN 0 ELSE Len(owner) - 1 + 1
    BY <2>1, FS_Interval, Zenon
  <2> QED BY <1>1, <2>2 DEF NextTsn
<1>3. Asked \in Packet
  BY TypedQueues, AskedQueues
<1> DEFINE new == [t \in DOMAIN owner \cup {NextTsn} |-> IF t = NextTsn THEN Asked.sess ELSE owner[t]]
<1>4. owner' = new /\ tper' = tper \cup {NextTsn} /\ ran' = ran
  BY DEF OpenSession
<1>5. DOMAIN owner \cup {NextTsn} = 1..(Len(owner) + 1)
  BY <1>1, <1>2
<1>6. new \in [1..(Len(owner) + 1) -> Sess]
  BY <1>1, <1>2, <1>3, <1>5 DEF Packet
<1> HIDE DEF new
<1>7. new \in Seq(Sess)
  BY <1>1, <1>6, SeqDef
<1> USE DEF new
<1>8. Len(new) = Len(owner) + 1
  BY <1>1, <1>6, <1>7, LenProperties
<1> QED BY <1>1, <1>2, <1>4, <1>5, <1>7, <1>8

LEMMA NoteTypes ==
  ASSUME trouble \in [Sess -> SUBSET Troubles], NEW s \in Sess, NEW K \in SUBSET Troubles
  PROVE  [trouble EXCEPT ![s] = @ \cup K] \in [Sess -> SUBSET Troubles]
OBVIOUS

\* A packet of sendCommand.
LEMMA SendTypes ==
  ASSUME TypeOK, NEW s \in Sess, NEW op \in Ops, NEW in, Send(s, op, in)
  PROVE  LET c == [id |-> serial + 1, op |-> op, hsn |-> hsn[s], tsn |-> tsn[s], sess |-> s]
         IN /\ c \in Packet /\ busy = NoCmd /\ busy' = c /\ sent' = 0
            /\ clean' = (inbox = <<>> /\ outbox = <<>>)
            /\ UNCHANGED <<inbox, outbox, ret>> /\ pc' = in /\ serial' \in Nat
            /\ Rpc!RpcTypeOK'
<1> DEFINE c == [id |-> serial + 1, op |-> op, hsn |-> hsn[s], tsn |-> tsn[s], sess |-> s]
<1>1. c \in Packet
  BY DEF TypeOK, Packet
<1>2. Rpc!Call(c) /\ pc' = in /\ serial' \in Nat
  BY DEF Send, TypeOK
<1> HIDE DEF c
<1>3. /\ busy = NoCmd /\ busy' = c /\ sent' = 0 /\ clean' = (inbox = <<>> /\ outbox = <<>>)
      /\ UNCHANGED <<inbox, outbox, ret>>
  BY <1>1, <1>2, TypedQueues, CallQueues
<1>4. Rpc!RpcTypeOK'
  BY <1>1, <1>3, SessionAssumption DEF TypeOK, Rpc!RpcTypeOK
<1> QED BY <1>1, <1>2, <1>3, <1>4 DEF c

LEMMA TypeOfReturn ==
  ASSUME TypeOK, ExecReturns
  PROVE  /\ Rpc!RpcTypeOK' /\ trouble' \in [Sess -> SUBSET Troubles]
         /\ SendCode(ret') \in SessionCodes
         /\ SendCode(ret') = "OK" => ret'.ans \in Rpc!Answer
<1>1. Queues /\ Queues'
  BY TypedQueues, ReturnQueues
<1>2. trouble' \in [Sess -> SUBSET Troubles]
  <2>1. Unserved \subseteq Troubles
    BY DEF Troubles, Unserved
  <2>2. ASSUME NEW kind \in Unserved
        PROVE  [trouble EXCEPT ![who] = @ \cup {kind}] \in [Sess -> SUBSET Troubles]
    <3>1. {kind} \in SUBSET Troubles
      BY <2>1
    <3>2. who \in Sess /\ trouble \in [Sess -> SUBSET Troubles]
      BY DEF TypeOK
    <3> QED BY <3>1, <3>2, NoteTypes
  <2>3. trouble' = trouble \/ \E kind \in Unserved : Noted(kind)
    BY <1>1, ReturnCases DEF Fetches, FindsNothing, GivesUp, TurnsDown, Unserved
  <2>4. CASE trouble' = trouble
    BY <2>4 DEF TypeOK
  <2>5. ASSUME NEW kind \in Unserved, Noted(kind) PROVE trouble' \in [Sess -> SUBSET Troubles]
    BY <2>2, <2>5, Zenon DEF Noted
  <2> QED BY <2>3, <2>4, <2>5
<1>3. outbox # <<>> => Head(outbox) \in Rpc!Answer
  BY <1>1, RangeTail DEF Queues
<1>4. /\ \E code \in Rpc!Codes, ans \in Rpc!Answer \cup {Rpc!Nothing} :
           \E heard \in BOOLEAN :
             ret' = [cmd |-> busy, code |-> code, ans |-> ans, sent |-> sent, clean |-> clean,
                     heard |-> heard]
      /\ busy' = NoCmd /\ UNCHANGED <<sent, clean, inbox>>
  BY <1>3 DEF ExecReturns, ReturnsInOrder, ReturnsGivingUp, ReturnsUnserved, ReturnsTurnedDown,
    Rpc!ReturnAnswer, Rpc!ReturnNothing, Rpc!ReturnUnheard, Rpc!ReturnTimeout, Rpc!ReturnError,
    Rpc!Return, Rpc!Errors, Rpc!Codes
<1>5. Rpc!RpcTypeOK'
  BY <1>1, <1>4 DEF TypeOK, Rpc!RpcTypeOK, Queues
<1>6. SendCode(ret') \in SessionCodes
  <2>1. ret'.code \in Rpc!Codes
    BY <1>4
  <2> QED BY <2>1 DEF SendCode, SessionCodes, Rpc!Codes, Rpc!Errors
<1>7. SendCode(ret') = "OK" => ret'.ans \in Rpc!Answer
  BY <1>1, <1>3, OkIsFetched DEF Fetches
<1> QED BY <1>2, <1>5, <1>6, <1>7

LEMMA BodyTypes ==
  /\ \A t \in Nat : SyncSession(t) \in Body
  /\ EmptyList \in Body /\ Row \in Body /\ Refusal \in Body /\ EndToken \in Body
  /\ \A v \in {0, 1} : Verdict(v) \in Body
  /\ OddBodies \subseteq Body
BY DEF SyncSession, EmptyList, Row, Refusal, EndToken, Verdict, OddBodies, Tokens, Body, NotNumber,
  Missing, HostSessionId

\* The queues after the TPer's answer have their types.
LEMMA TypeOfAnswer ==
  ASSUME TypeOK, NEW b \in Body, Answers(b)
  PROVE  Rpc!RpcTypeOK'
<1>1. Queues' /\ UNCHANGED <<busy, sent, clean, ret>>
  BY TypedQueues, AnswerQueues
<1> QED BY <1>1 DEF Queues, TypeOK, Rpc!RpcTypeOK

LEMMA TypeOfIgnore ==
  ASSUME TypeOK, Rpc!Process(<<>>)
  PROVE  Rpc!RpcTypeOK'
<1>1. Queues' /\ UNCHANGED <<busy, sent, clean, ret>>
  BY TypedQueues, IgnoreQueues
<1> QED BY <1>1 DEF Queues, TypeOK, Rpc!RpcTypeOK

LEMMA ProgramTypes ==
  ASSUME TypeOK, Program
  PROVE  TypeOK'
<1>0. PICK s \in Sess :
        \/ Create(s) \/ Start(s) \/ \E op \in Ops : Command(s, op)
        \/ DontAutoClose(s) \/ Close(s) \/ Destroy(s)
        \/ \E f \in {"revert", "msid"} : RunDeviceFunction(s, f)
  BY DEF Program
<1>1. CASE Create(s) \/ DontAutoClose(s) \/ Destroy(s)
  <2>1. UNCHANGED rpcVars /\ UNCHANGED <<hsn, tsn, setting, tperVars, countVars, last>>
    BY <1>1 DEF Create, DontAutoClose, Destroy, objVars
  <2>2. Rpc!RpcTypeOK'
    BY <2>1 DEF rpcVars, TypeOK, Rpc!RpcTypeOK
  <2>3. trouble' \in [Sess -> SUBSET Troubles]
    <3>1. {"kept"} \in SUBSET Troubles
      BY DEF Troubles
    <3>2. [trouble EXCEPT ![s] = @ \cup {"kept"}] \in [Sess -> SUBSET Troubles]
      BY <3>1, NoteTypes DEF TypeOK
    <3> QED BY <1>1, <3>2 DEF Create, DontAutoClose, Destroy, Note, TypeOK
  <2>4. /\ life' \in [Sess -> {"unborn", "alive", "dead"}] /\ autoClose' \in [Sess -> BOOLEAN]
        /\ who' \in Sess /\ pc' \in {pc, "dtor"} /\ UNCHANGED <<opened, prog>>
    BY <1>1 DEF Create, DontAutoClose, Destroy, TypeOK, objVars, threadVars
  <2> QED BY <2>1, <2>2, <2>3, <2>4 DEF TypeOK, setting, tperVars, countVars
<1>2. CASE Start(s)
  <2>1. Send(s, "StartSession", "inStart")
    BY <1>2 DEF Start
  <2>2. Rpc!RpcTypeOK' /\ pc' = "inStart" /\ serial' \in Nat
    BY <2>1, SendTypes DEF Ops
  <2>3. trouble' \in [Sess -> SUBSET Troubles]
    <3> DEFINE K == (IF opened[s] THEN {"restart"} ELSE {})
                      \cup (IF Rpc!Quiet THEN {} ELSE {"unclean"})
    <3>1. K \in SUBSET Troubles
      BY DEF Troubles
    <3>2. [trouble EXCEPT ![s] = @ \cup K] \in [Sess -> SUBSET Troubles]
      BY <3>1, NoteTypes DEF TypeOK
    <3>3. trouble' = [trouble EXCEPT ![s] = @ \cup K]
      BY <1>2 DEF Start
    <3> QED BY <3>2, <3>3
  <2> QED BY <1>2, <2>2, <2>3 DEF Start, TypeOK, objVars, setting, tperVars
<1>3. ASSUME NEW op \in Ops, Command(s, op) PROVE TypeOK'
  <2>1. PICK in \in {"inAuth", "inSend"} : Send(s, op, in)
    BY <1>3 DEF Command
  <2>2. Rpc!RpcTypeOK' /\ pc' = in /\ serial' \in Nat
    BY <2>1, SendTypes
  <2> QED BY <1>3, <2>2 DEF Command, TypeOK, objVars, setting, tperVars
<1>4. CASE Close(s)
  <2>1. Send(s, "EndOfSession", "inClose")
    BY <1>4 DEF Close, CloseOpened
  <2>2. Rpc!RpcTypeOK' /\ pc' = "inClose" /\ serial' \in Nat
    BY <2>1, SendTypes DEF Ops
  <2>3. opened' \in [Sess -> BOOLEAN] /\ ends' \in [Sess -> Nat]
    BY <1>4 DEF Close, CloseOpened, TypeOK
  <2> QED BY <1>4, <2>2, <2>3 DEF Close, TypeOK, setting, tperVars
<1>5. ASSUME NEW f \in {"revert", "msid"}, RunDeviceFunction(s, f) PROVE TypeOK'
  <2>1. Send(s, "StartSession", "inStart")
    BY <1>5 DEF RunDeviceFunction
  <2>2. Rpc!RpcTypeOK' /\ pc' = "inStart" /\ serial' \in Nat
    BY <2>1, SendTypes DEF Ops
  <2>3. trouble' \in [Sess -> SUBSET Troubles]
    <3>1. [trouble EXCEPT ![s] = @ \cup {"unclean"}] \in [Sess -> SUBSET Troubles]
      BY NoteTypes DEF TypeOK, Troubles
    <3> QED BY <1>5, <3>1 DEF RunDeviceFunction, Note, TypeOK
  <2> QED BY <1>5, <2>2, <2>3 DEF RunDeviceFunction, TypeOK, setting, tperVars
<1> QED BY <1>0, <1>1, <1>2, <1>3, <1>4, <1>5

LEMMA StartReturnsTypes ==
  ASSUME TypeOK, StartReturns
  PROVE  TypeOK'
<1>1. /\ Rpc!RpcTypeOK' /\ trouble' \in [Sess -> SUBSET Troubles]
      /\ SendCode(ret') \in SessionCodes
      /\ SendCode(ret') = "OK" => ret'.ans \in Rpc!Answer
  BY TypeOfReturn DEF StartReturns
<1>2. busy \in Packet
  BY TypedQueues, ReturnQueues DEF StartReturns
<1> DEFINE ok == SendCode(ret') = "OK"
           t4 == IF ok THEN ret'.ans.body.tok4 ELSE Missing
           t5 == IF ok THEN ret'.ans.body.tok5 ELSE Missing
           code == IF ~ok THEN SendCode(ret')
                   ELSE IF Missing \in {t4, t5} THEN "ILLEGAL_RESPONSE"
                   ELSE IF NotNumber \in {t4, t5} THEN "ILLEGAL_DATA"
                   ELSE "OK"
<1>3. t4 \in Int /\ t5 \in Int
  BY <1>1 DEF Rpc!Answer, Body, Missing
<1>4. code \in SessionCodes
  BY <1>1 DEF SessionCodes, Rpc!Codes
<1>5. /\ opened' = [opened EXCEPT ![who] = @ \/ ok]
      /\ starts' = [starts EXCEPT ![who] = IF ok THEN @ + 1 ELSE @]
      /\ hsn' = [hsn EXCEPT ![who] = IF t4 >= 0 /\ t5 # Missing THEN t4 ELSE @]
      /\ tsn' = [tsn EXCEPT ![who] = IF t4 >= 0 /\ t5 >= 0 THEN t5 ELSE @]
      /\ Report("start", code)
      /\ pc' \in {"idle", "started", "dtor"}
      /\ UNCHANGED <<life, autoClose, who, prog, setting, tperVars, serial, ends>>
  BY DEF StartReturns
<1> HIDE DEF ok, t4, t5, code
<1>6. last' = [fn |-> "start", sess |-> who, code |-> code, id |-> busy.id, clean |-> clean]
  BY <1>5 DEF Report
<1>7. last' \in [fn : {"none", "start", "sendCommand", "authenticate"}, sess : Sess,
                 code : SessionCodes, id : Nat, clean : BOOLEAN]
  BY <1>2, <1>4, <1>6, TypedQueues DEF TypeOK, Queues, Packet
<1>8. opened' \in [Sess -> BOOLEAN]
  <2>1. opened[who] \/ ok \in BOOLEAN
    BY DEF TypeOK, ok
  <2> QED BY <1>5, <2>1 DEF TypeOK
<1>9. starts' \in [Sess -> Nat] /\ hsn' \in [Sess -> Nat] /\ tsn' \in [Sess -> Nat]
  BY <1>3, <1>5 DEF TypeOK
<1> QED BY <1>1, <1>5, <1>7, <1>8, <1>9 DEF TypeOK, setting, tperVars

LEMMA LibraryTypes ==
  ASSUME TypeOK, Library
  PROVE  TypeOK'
<1>1. CASE Destructor
  <2>1. CASE CloseOpened(who, "inDtor") /\ UNCHANGED <<life, prog>>
    <3>1. Send(who, "EndOfSession", "inDtor")
      BY <2>1 DEF CloseOpened
    <3>2. Rpc!RpcTypeOK' /\ pc' = "inDtor" /\ serial' \in Nat
      BY <3>1, SendTypes DEF Ops, TypeOK
    <3> QED BY <1>1, <2>1, <3>2 DEF Destructor, CloseOpened, TypeOK, setting, tperVars
  <2>2. CASE Bury /\ UNCHANGED <<opened, serial, ends, rpcVars>>
    <3>1. Rpc!RpcTypeOK'
      BY <2>2 DEF rpcVars, TypeOK, Rpc!RpcTypeOK
    <3> QED BY <1>1, <2>2, <3>1 DEF Destructor, Bury, TypeOK, setting, tperVars
  <2> QED BY <1>1, <2>1, <2>2 DEF Destructor
<1>2. CASE SecondCommand
  <2>1. PICK op \in {"Revert", "Get"} : Send(who, op, "inSend")
    BY <1>2 DEF SecondCommand
  <2>2. op \in Ops /\ who \in Sess
    BY DEF Ops, TypeOK
  <2>3. Rpc!RpcTypeOK' /\ pc' = "inSend" /\ serial' \in Nat
    BY <2>1, <2>2, SendTypes
  <2> QED BY <1>2, <2>3 DEF SecondCommand, TypeOK, objVars, setting, tperVars
<1>3. CASE Deliver
  <2>1. Rpc!Deliver
    BY <1>3 DEF Deliver
  <2>2. Queues' /\ sent' = sent + 1 /\ sent < Attempts /\ UNCHANGED <<busy, clean, ret>>
    BY <2>1, TypedQueues, DeliverQueues
  <2>3. Rpc!RpcTypeOK'
    BY <2>2, SessionAssumption DEF Queues, TypeOK, Rpc!RpcTypeOK
  <2>4. trouble' \in [Sess -> SUBSET Troubles]
    <3>1. [trouble EXCEPT ![who] = @ \cup {"resend"}] \in [Sess -> SUBSET Troubles]
      BY NoteTypes DEF TypeOK, Troubles
    <3> QED BY <1>3, <3>1 DEF Deliver, Note, TypeOK
  <2> QED BY <1>3, <2>3, <2>4 DEF Deliver, TypeOK, objVars, threadVars, setting, tperVars, countVars
<1>4. CASE StartReturns
  BY <1>4, StartReturnsTypes
<1>5. CASE SendReturns \/ AuthReturns
  <2>1. Rpc!RpcTypeOK' /\ trouble' \in [Sess -> SUBSET Troubles] /\ SendCode(ret') \in SessionCodes
    BY <1>5, TypeOfReturn DEF SendReturns, AuthReturns
  <2>2. busy \in Packet
    BY <1>5, TypedQueues, ReturnQueues DEF SendReturns, AuthReturns
  <2>3. \E fn \in {"sendCommand", "authenticate"}, code \in SessionCodes : Report(fn, code)
    <3>1. CASE SendReturns
      BY <2>1, <3>1 DEF SendReturns
    <3>2. CASE AuthReturns
      <4> DEFINE v == IF SendCode(ret') = "OK" THEN ret'.ans.body.tok1 ELSE Missing
                 code == IF SendCode(ret') # "OK" THEN SendCode(ret')
                         ELSE CASE v = Missing -> "ILLEGAL_RESPONSE"
                                [] v = NotNumber -> "ILLEGAL_DATA"
                                [] v = 0 -> "OK"
                                [] OTHER -> "TCG_AUTH_FAILED"
      <4>1. Report("authenticate", code)
        BY <3>2 DEF AuthReturns
      <4>2. code \in SessionCodes
        BY <2>1 DEF SessionCodes, Rpc!Codes
      <4> QED BY <4>1, <4>2
    <3> QED BY <1>5, <3>1, <3>2
  <2>4. last' \in [fn : {"none", "start", "sendCommand", "authenticate"}, sess : Sess,
                   code : SessionCodes, id : Nat, clean : BOOLEAN]
    <3>1. busy.id \in Nat /\ clean \in BOOLEAN /\ who \in Sess
      BY <2>2, TypedQueues DEF TypeOK, Queues, Packet
    <3> QED BY <2>3, <3>1 DEF Report
  <2>5. /\ pc' \in {"idle", "dtor"} /\ autoClose' \in [Sess -> BOOLEAN]
        /\ UNCHANGED <<life, opened, hsn, tsn, who, prog, setting, tperVars, countVars>>
    BY <1>5 DEF SendReturns, AuthReturns, objVars, TypeOK
  <2> QED BY <2>1, <2>4, <2>5 DEF TypeOK, setting, tperVars, countVars
<1>6. CASE CloseReturns
  <2>1. Rpc!RpcTypeOK' /\ trouble' \in [Sess -> SUBSET Troubles]
    BY <1>6, TypeOfReturn DEF CloseReturns
  <2> QED BY <1>6, <2>1 DEF CloseReturns, Bury, TypeOK, setting, tperVars, countVars
<1> QED BY <1>1, <1>2, <1>3, <1>4, <1>5, <1>6 DEF Library

\* What a step of the TPer leaves alone.
LEMMA TPerFrame ==
  ASSUME TPer \/ TPerOdd \/ TPerAbort
  PROVE  /\ UNCHANGED <<life, opened, hsn, tsn, autoClose, pc, who, prog, device, faults,
                        serial, starts, ends, last>>
         /\ UNCHANGED <<busy, sent, clean, ret>>
<1>1. TPerRest
  BY DEF TPer, TPerStart, TPerRefuse, TPerMethod, TPerEnd, TPerRevert, TPerIgnore, TPerOdd, TPerAbort
<1>2. (\E b : Answers(b)) \/ Rpc!Process(<<>>) \/ UNCHANGED rpcVars
  BY DEF TPer, TPerStart, TPerRefuse, TPerMethod, TPerEnd, TPerRevert, TPerIgnore, TPerOdd, TPerAbort
<1> QED BY <1>1, <1>2 DEF TPerRest, objVars, threadVars, setting, countVars, Answers, Rpc!Process,
       rpcVars

\* What the TPer's answers are, and what comes with them.
LEMMA TPerCases ==
  ASSUME TypeOK, TPer \/ TPerOdd
  PROVE  \/ TPerStart /\ OpenSession /\ Answers(SyncSession(NextTsn)) /\ SyncSession(NextTsn) \in Body
         \/ TPerRefuse /\ Answers(Refusal) /\ Refusal \in Body
         \/ TPerMethod /\ CarriedOut /\ \E b \in Body : Answers(b) /\ b.tok5 \in {0, NotNumber}
                                                       /\ b.class = "success"
         \/ TPerEnd /\ CarriedOut /\ Answers(EndToken) /\ EndToken \in Body
         \/ TPerRevert /\ CarriedOut /\ Answers(EmptyList) /\ EmptyList \in Body
         \/ TPerIgnore /\ Rpc!Process(<<>>)
         \/ TPerOdd /\ \E b \in Body : Answers(b) /\ b.tok5 \in {Missing, NotNumber}
<1>1. CASE TPerStart
  <2>1. inbox # <<>> /\ OpenSession /\ Answers(SyncSession(NextTsn))
    BY <1>1 DEF TPerStart
  <2>2. NextTsn \in Nat
    BY <2>1, OpenSessionTypes
  <2> QED BY <1>1, <2>1, <2>2, BodyTypes
<1>2. CASE TPerMethod
  <2>1. /\ Row.tok5 \in {0, NotNumber} /\ EmptyList.tok5 \in {0, NotNumber}
        /\ Row.class = "success" /\ EmptyList.class = "success"
        /\ \A v : Verdict(v).tok5 \in {0, NotNumber} /\ Verdict(v).class = "success"
    BY DEF Row, EmptyList, Verdict, Tokens
  <2>2. CarriedOut /\ (Answers(Row) \/ Answers(EmptyList) \/ \E v \in {0, 1} : Answers(Verdict(v)))
    BY <1>2 DEF TPerMethod
  <2> QED BY <1>2, <2>1, <2>2, BodyTypes
<1>3. CASE TPerOdd
  <2>1. \A b \in OddBodies : b.tok5 \in {Missing, NotNumber}
    BY DEF OddBodies, EndToken, Tokens
  <2>2. \E b \in OddBodies : Answers(b)
    BY <1>3 DEF TPerOdd
  <2> QED BY <1>3, <2>1, <2>2, BodyTypes
<1>4. CASE TPerRefuse
  BY <1>4, BodyTypes DEF TPerRefuse
<1>5. CASE TPerEnd
  BY <1>5, BodyTypes DEF TPerEnd
<1>6. CASE TPerRevert
  BY <1>6, BodyTypes DEF TPerRevert
<1>7. CASE TPerIgnore
  BY <1>7 DEF TPerIgnore
<1> QED BY <1>1, <1>2, <1>3, <1>4, <1>5, <1>6, <1>7 DEF TPer

LEMMA TPerTypes ==
  ASSUME TypeOK, TPer \/ TPerOdd \/ TPerAbort
  PROVE  TypeOK'
<1>1. Rpc!RpcTypeOK'
  <2>1. CASE TPer \/ TPerOdd
    BY <2>1, TPerCases, TypeOfAnswer, TypeOfIgnore
  <2>2. CASE TPerAbort
    BY <2>2 DEF TPerAbort, rpcVars, TypeOK, Rpc!RpcTypeOK
  <2> QED BY <2>1, <2>2
<1>2. Len(owner) \in Nat /\ \A t \in 1..Len(owner) : owner[t] \in Sess
  BY LenProperties, ElementOfSeq DEF TypeOK
<1>3. inbox # <<>> => Asked \in Packet
  BY TypedQueues, AskedQueues
<1>4. trouble' \in [Sess -> SUBSET Troubles]
  <2>1. CASE trouble' = trouble
    BY <2>1 DEF TypeOK
  <2>2. CASE TPerRevert
    <3>1. \A s \in Sess : (IF \E t \in tper \ {Asked.tsn} : owner[t] = s THEN {"abort"} ELSE {})
                            \in SUBSET Troubles
      BY DEF Troubles
    <3> QED BY <2>2, <3>1 DEF TPerRevert, TypeOK
  <2>3. ASSUME NEW s \in Sess, NEW k \in {"odd", "abort"}, Note(s, k) PROVE trouble' \in [Sess -> SUBSET Troubles]
    <3>1. {k} \in SUBSET Troubles
      BY DEF Troubles
    <3> QED BY <2>3, <3>1, NoteTypes DEF Note, TypeOK
  <2>4. CASE TPerOdd
    <3>1. Note(Asked.sess, "odd") /\ Asked.sess \in Sess
      BY <1>3, <2>4 DEF TPerOdd, Packet
    <3> QED BY <2>3, <3>1
  <2>5. CASE TPerAbort
    <3>1. \E t \in tper : Note(owner[t], "abort")
      BY <2>5 DEF TPerAbort
    <3>2. \A t \in tper : owner[t] \in Sess
      BY <1>2 DEF TypeOK
    <3> QED BY <2>3, <3>1, <3>2
  <2> QED BY <2>1, <2>2, <2>4, <2>5 DEF TPer, TPerStart, TPerRefuse, TPerMethod, TPerEnd, TPerIgnore
<1>5. /\ owner' \in Seq(Sess) /\ tper' \subseteq 1..Len(owner')
      /\ ran' \subseteq [id : Nat, sess : Sess, tsn : Nat]
  <2>1. CASE OpenSession /\ inbox # <<>>
    <3>1. /\ Len(owner) \in Nat /\ NextTsn = Len(owner) + 1 /\ tper' = tper \cup {NextTsn}
          /\ Len(owner') = Len(owner) + 1 /\ owner' \in Seq(Sess) /\ ran' = ran
      BY <2>1, OpenSessionTypes
    <3>2. tper \subseteq 1..Len(owner) /\ ran \subseteq [id : Nat, sess : Sess, tsn : Nat]
      BY DEF TypeOK
    <3>3. \A t \in tper' : t \in 1..(Len(owner) + 1)
      BY <3>1, <3>2
    <3> QED BY <3>1, <3>2, <3>3
  <2>2. CASE owner' = owner /\ tper' \subseteq tper /\ ran' = ran
    BY <2>2 DEF TypeOK
  <2>3. CASE owner' = owner /\ tper' \subseteq tper /\ CarriedOut /\ inbox # <<>>
    <3>1. [id |-> Asked.id, sess |-> Asked.sess, tsn |-> Asked.tsn] \in [id : Nat, sess : Sess, tsn : Nat]
      BY <1>3, <2>3 DEF Packet
    <3> QED BY <2>3, <3>1 DEF TypeOK, CarriedOut
  <2> QED BY <2>1, <2>2, <2>3 DEF TPer, TPerStart, TPerRefuse, TPerMethod, TPerEnd, TPerRevert,
         TPerIgnore, TPerOdd, TPerAbort, tperVars
<1> QED BY <1>1, <1>4, <1>5, TPerFrame DEF TypeOK

LEMMA TypeStep ==
  ASSUME TypeOK, [Next]_vars
  PROVE  TypeOK'
<1>1. CASE Lose
  <2>1. Rpc!Lose
    BY <1>1 DEF Lose
  <2>2. Queues' /\ UNCHANGED <<busy, sent, clean, ret>>
    BY <2>1, TypedQueues, LoseQueues
  <2>3. Rpc!RpcTypeOK'
    BY <2>2 DEF Queues, TypeOK, Rpc!RpcTypeOK
  <2>4. trouble' \in [Sess -> SUBSET Troubles]
    <3>1. {"lost"} \in SUBSET Troubles
      BY DEF Troubles
    <3> QED BY <1>1, <3>1, NoteTypes DEF Lose, Note, TypeOK
  <2> QED BY <1>1, <2>3, <2>4 DEF Lose, TypeOK, objVars, threadVars, setting, tperVars, countVars
<1>2. CASE UNCHANGED vars
  <2>1. Rpc!RpcTypeOK'
    BY <1>2 DEF vars, rpcVars, TypeOK, Rpc!RpcTypeOK
  <2> QED BY <1>2, <2>1 DEF vars, objVars, threadVars, setting, tperVars, countVars, TypeOK
<1> QED BY <1>1, <1>2, ProgramTypes, LibraryTypes, TPerTypes DEF Next

LEMMA InitTypes == Init => TypeOK
<1> SUFFICES ASSUME Init PROVE TypeOK
  OBVIOUS
<1>1. <<>> \in Seq(Packet) /\ <<>> \in Seq(Rpc!Answer) /\ <<>> \in Seq(Sess) /\ Len(<<>>) = 0
  BY EmptySeq
<1>2. Rpc!RpcTypeOK
  BY <1>1, SessionAssumption DEF Init, Rpc!RpcInit, Rpc!RpcTypeOK, Rpc!Codes
<1>3. "OK" \in SessionCodes
  BY DEF SessionCodes, Rpc!Codes
<1> QED BY <1>1, <1>2, <1>3 DEF Init, TypeOK

(***************************************************************************)
(* The variables of the sessions, of exec and of the TPer keep their       *)
(* types; the session numbers the TPer has open are ones it gave out       *)
(* (tcg_session_impl.cc).                                                  *)
(***************************************************************************)
THEOREM TypeCorrect == Spec => []TypeOK
<1>1. TypeOK /\ [Next]_vars => TypeOK'
  BY TypeStep
<1> QED BY <1>1, InitTypes, PTL DEF Spec

-----------------------------------------------------------------------------
(* What the sessions need of exec *)

LEMMA RpcStep ==
  ASSUME TypeOK, [Next]_vars
  PROVE  [Rpc!RpcNext]_(Rpc!rpcVars)
<1>1. ASSUME NEW s \in Sess, NEW op \in Ops, NEW in, Send(s, op, in)
      PROVE  Rpc!RpcNext
  <2> DEFINE c == [id |-> serial + 1, op |-> op, hsn |-> hsn[s], tsn |-> tsn[s], sess |-> s]
  <2>1. c \in Packet
    BY <1>1, SendTypes
  <2>2. Rpc!Call(c)
    BY <1>1 DEF Send
  <2> QED BY <2>1, <2>2 DEF Rpc!RpcNext
<1>2. ASSUME ExecReturns PROVE Rpc!RpcNext
  <2>1. CASE ReturnsTurnedDown
    BY <2>1 DEF ReturnsTurnedDown, Rpc!RpcNext, Rpc!ReturnError, Rpc!Errors
  <2> QED BY <1>2, <2>1 DEF ExecReturns, ReturnsInOrder, ReturnsGivingUp, ReturnsUnserved, Rpc!RpcNext
<1>3. CASE Program
  <2>1. PICK s \in Sess :
          \/ Create(s) \/ Start(s) \/ \E op \in Ops : Command(s, op)
          \/ DontAutoClose(s) \/ Close(s) \/ Destroy(s)
          \/ \E f \in {"revert", "msid"} : RunDeviceFunction(s, f)
    BY <1>3 DEF Program
  <2>2. (\E op \in Ops : \E in : Send(s, op, in)) \/ UNCHANGED rpcVars
    BY <2>1 DEF Create, Start, Command, DontAutoClose, Close, CloseOpened, Destroy,
      RunDeviceFunction, Ops
  <2> QED BY <1>1, <2>2 DEF rpcVars, Rpc!rpcVars
<1>4. CASE Destructor \/ SecondCommand
  <2>1. (\E op \in Ops : \E in : Send(who, op, in)) \/ UNCHANGED rpcVars
    BY <1>4 DEF Destructor, CloseOpened, SecondCommand, Ops
  <2>2. who \in Sess
    BY DEF TypeOK
  <2> QED BY <1>1, <2>1, <2>2 DEF rpcVars, Rpc!rpcVars
<1>5. CASE Deliver \/ Lose
  BY <1>5 DEF Deliver, Lose, Rpc!RpcNext
<1>6. CASE StartReturns \/ SendReturns \/ AuthReturns \/ CloseReturns
  <2>1. ExecReturns
    BY <1>6 DEF StartReturns, SendReturns, AuthReturns, CloseReturns
  <2> QED BY <1>2, <2>1
<1>7. CASE TPer \/ TPerOdd
  <2>1. (\E b \in Body : Answers(b)) \/ Rpc!Process(<<>>)
    BY <1>7, TPerCases
  <2> QED BY <2>1 DEF Answers, Rpc!RpcNext
<1>8. CASE TPerAbort \/ UNCHANGED vars
  BY <1>8 DEF TPerAbort, vars, rpcVars, Rpc!rpcVars
<1> QED BY <1>3, <1>4, <1>5, <1>6, <1>7, <1>8 DEF Next, Library

(***************************************************************************)
(* The sessions ask of exec nothing but what TcgRpc promises, which exec   *)
(* implements: packets with session numbers, one at a time, and answers    *)
(* the TPer gives in turn (tcg_session_impl.cc:216-261).                   *)
(***************************************************************************)
THEOREM SessionsUseRpc == Spec => Rpc!RpcSpec
<1>1. Init => Rpc!RpcInit
  BY DEF Init
<1>2. TypeOK /\ [Next]_vars => [Rpc!RpcNext]_(Rpc!rpcVars)
  BY RpcStep
<1> QED BY <1>1, <1>2, TypeCorrect, PTL DEF Spec, Rpc!RpcSpec

-----------------------------------------------------------------------------
(* The thread and the command it waits for *)

\* What is recorded is never taken back: troubles, commands carried out, and
\* whose session a session is.
LEMMA HistoryGrows ==
  ASSUME TypeOK, [Next]_vars
  PROVE  /\ \A s \in Sess : trouble[s] \subseteq trouble'[s]
         /\ ran \subseteq ran'
         /\ Len(owner) \in Nat /\ Len(owner') \in Nat /\ Len(owner) <= Len(owner')
         /\ \A t \in 1..Len(owner) : owner'[t] = owner[t]
<1>1. Len(owner) \in Nat
  BY LenProperties DEF TypeOK
<1>2. CASE Program \/ Library \/ Lose \/ UNCHANGED vars
  <2>1. owner' = owner /\ ran' = ran
    BY <1>2 DEF Program, Library, Lose, Create, Start, Command, DontAutoClose, Close, Destroy,
      RunDeviceFunction, Destructor, SecondCommand, Deliver, StartReturns, SendReturns, AuthReturns,
      CloseReturns, tperVars, vars
  <2> DEFINE Added == trouble' = trouble \/ \E s \in Sess : \E K : trouble' = [trouble EXCEPT ![s] = @ \cup K]
  <2>2. Added
    <3>1. CASE Program
      BY <3>1 DEF Program, Create, Start, Command, DontAutoClose, Close, Destroy, RunDeviceFunction, Note
    <3>2. CASE StartReturns \/ SendReturns \/ AuthReturns \/ CloseReturns
      <4>1. ExecReturns
        BY <3>2 DEF StartReturns, SendReturns, AuthReturns, CloseReturns
      <4>2. trouble' = trouble \/ \E kind : Noted(kind)
        BY <4>1, TypedQueues, ReturnCases DEF Fetches, FindsNothing, GivesUp, TurnsDown
      <4>3. who \in Sess
        BY DEF TypeOK
      <4> QED BY <4>2, <4>3 DEF Noted
    <3>3. CASE Destructor \/ SecondCommand \/ Deliver \/ Lose \/ UNCHANGED vars
      BY <3>3 DEF Destructor, SecondCommand, Deliver, Lose, Note, vars, TypeOK
    <3> HIDE DEF Added
    <3> QED BY <1>2, <3>1, <3>2, <3>3 DEF Library
  <2>3. ASSUME NEW u \in Sess PROVE trouble[u] \subseteq trouble'[u]
    <3>1. ASSUME NEW s \in Sess, NEW K, trouble' = [trouble EXCEPT ![s] = @ \cup K]
          PROVE  trouble[u] \subseteq trouble'[u]
      BY <3>1 DEF TypeOK
    <3> QED BY <2>2, <3>1
  <2>4. Len(owner') = Len(owner) /\ \A t \in 1..Len(owner) : owner'[t] = owner[t]
    BY <2>1
  <2> HIDE DEF Added
  <2> QED BY <1>1, <2>1, <2>3, <2>4
<1>3. CASE TPer \/ TPerOdd \/ TPerAbort
  <2>1. \A s \in Sess : trouble[s] \subseteq trouble'[s]
    <3>1. CASE TPerRevert
      BY <3>1 DEF TPerRevert, TypeOK
    <3>2. ASSUME NEW s \in Sess, NEW u, NEW k, Note(u, k) PROVE trouble[s] \subseteq trouble'[s]
      BY <3>2 DEF Note, TypeOK
    <3>3. CASE TPerOdd
      BY <3>2, <3>3 DEF TPerOdd
    <3>4. CASE TPerAbort
      BY <3>2, <3>4 DEF TPerAbort
    <3>5. CASE trouble' = trouble
      BY <3>5
    <3> QED BY <1>3, <3>1, <3>3, <3>4, <3>5 DEF TPer, TPerStart, TPerRefuse, TPerMethod, TPerEnd,
           TPerIgnore
  <2>2. \/ OpenSession /\ inbox # <<>>
        \/ owner' = owner /\ (ran' = ran \/ CarriedOut)
    BY <1>3 DEF TPer, TPerStart, TPerRefuse, TPerMethod, TPerEnd, TPerRevert, TPerIgnore, TPerOdd,
      TPerAbort, tperVars
  <2> QED BY <1>1, <2>1, <2>2, OpenSessionTypes DEF CarriedOut
<1> QED BY <1>2, <1>3 DEF Next

InCall == pc \in {"inStart", "inSend", "inAuth", "inClose", "inDtor"}

\* Where the thread is tells what it asked of exec, and for whom.
BusyInv ==
  /\ ~InCall => busy = NoCmd
  /\ InCall =>
       /\ busy \in Packet /\ busy.sess = who /\ busy.tsn = tsn[who]
       /\ pc = "inStart" => busy.op = "StartSession"
       /\ pc = "inAuth" => busy.op = "Authenticate"
       /\ pc = "inSend" => busy.op \in (IF prog = "revert" THEN {"Revert"} ELSE {"Get", "Set"})
       /\ pc \in {"inClose", "inDtor"} => busy.op = "EndOfSession"

\* The object it works on lives, and objects are made closed.
ThreadInv ==
  /\ pc # "idle" => life[who] = "alive"
  /\ \A s \in Sess : life[s] = "unborn" => ~opened[s] /\ autoClose[s]
  /\ prog # "user" => pc \in {"inStart", "started", "inSend", "dtor", "inDtor"}
  /\ pc = "started" => prog # "user"
  /\ pc \in {"inClose", "inDtor"} => ~opened[who]

CallInv == BusyInv /\ ThreadInv

\* sendCommand makes the packet busy.
LEMMA SendBusy ==
  ASSUME TypeOK, NEW s \in Sess, NEW op \in Ops, NEW in, Send(s, op, in), who' = s, tsn' = tsn,
         \/ in = "inStart" /\ op = "StartSession"
         \/ in = "inAuth" /\ op = "Authenticate"
         \/ in = "inSend" /\ op \in (IF prog' = "revert" THEN {"Revert"} ELSE {"Get", "Set"})
         \/ in \in {"inClose", "inDtor"} /\ op = "EndOfSession"
  PROVE  BusyInv'
<1> DEFINE c == [id |-> serial + 1, op |-> op, hsn |-> hsn[s], tsn |-> tsn[s], sess |-> s]
<1>1. c \in Packet /\ busy' = c /\ pc' = in
  BY SendTypes
<1>2. c.sess = s /\ c.tsn = tsn[s] /\ c.op = op
  OBVIOUS
<1> HIDE DEF c
<1> QED BY <1>1, <1>2 DEF BusyInv, InCall

LEMMA CallStep ==
  ASSUME TypeOK, CallInv, [Next]_vars
  PROVE  CallInv'
<1>1. ASSUME NEW s \in Sess, Create(s) \/ DontAutoClose(s) \/ Destroy(s) PROVE CallInv'
  <2>1. UNCHANGED <<rpcVars, tsn, opened, prog>> /\ pc = "idle" /\ pc' \in {"idle", "dtor"}
    BY <1>1 DEF Create, DontAutoClose, Destroy, Idle, Usable, objVars, threadVars
  <2>2. BusyInv'
    BY <2>1 DEF CallInv, BusyInv, InCall, rpcVars
  <2>3. ThreadInv'
    BY <1>1, <2>1 DEF Create, DontAutoClose, Destroy, Idle, Usable, CallInv, ThreadInv, objVars,
      threadVars, TypeOK
  <2> QED BY <2>2, <2>3 DEF CallInv
<1>2. ASSUME NEW s \in Sess, Start(s) \/ \E op \in Ops : Command(s, op) PROVE CallInv'
  <2>1. prog = "user"
    BY <1>2 DEF Start, Command, Usable, Idle, CallInv, ThreadInv, TypeOK
  <2>2. BusyInv'
    <3>1. CASE Start(s)
      BY <3>1, SendBusy DEF Start, Ops, objVars
    <3>2. ASSUME NEW op \in Ops, Command(s, op) PROVE BusyInv'
      BY <2>1, <3>2, SendBusy DEF Command, objVars
    <3> QED BY <1>2, <3>1, <3>2
  <2>3. ThreadInv'
    BY <1>2, <2>1 DEF Start, Command, Usable, CallInv, ThreadInv, objVars, Send
  <2> QED BY <2>2, <2>3 DEF CallInv
<1>3. ASSUME NEW s \in Sess, Close(s) PROVE CallInv'
  <2>1. prog = "user" /\ life[s] = "alive"
    BY <1>3 DEF Close, Usable, Idle, CallInv, ThreadInv, TypeOK
  <2>2. BusyInv'
    BY <1>3, SendBusy DEF Close, CloseOpened, Ops
  <2>3. ThreadInv'
    BY <1>3, <2>1 DEF Close, CloseOpened, CallInv, ThreadInv, Send, TypeOK
  <2> QED BY <2>2, <2>3 DEF CallInv
<1>4. ASSUME NEW s \in Sess, NEW f \in {"revert", "msid"}, RunDeviceFunction(s, f) PROVE CallInv'
  <2>1. BusyInv'
    BY <1>4, SendBusy DEF RunDeviceFunction, Ops
  <2>2. ThreadInv'
    BY <1>4 DEF RunDeviceFunction, CallInv, ThreadInv, Send, TypeOK
  <2> QED BY <2>1, <2>2 DEF CallInv
<1>5. CASE Destructor
  <2>1. CASE CloseOpened(who, "inDtor") /\ UNCHANGED <<life, prog>>
    <3>1. BusyInv'
      BY <1>5, <2>1, SendBusy DEF Destructor, CloseOpened, Ops, TypeOK
    <3>2. ThreadInv'
      BY <1>5, <2>1 DEF Destructor, CloseOpened, CallInv, ThreadInv, Send, TypeOK
    <3> QED BY <3>1, <3>2 DEF CallInv
  <2>2. CASE Bury /\ UNCHANGED <<opened, serial, ends, rpcVars>>
    BY <1>5, <2>2 DEF Destructor, Bury, rpcVars, CallInv, BusyInv, ThreadInv, InCall, TypeOK
  <2> QED BY <1>5, <2>1, <2>2 DEF Destructor
<1>6. CASE SecondCommand
  <2>1. prog # "user"
    BY <1>6 DEF SecondCommand, CallInv, ThreadInv
  <2>2. BusyInv'
    <3> DEFINE op == IF prog = "revert" THEN "Revert" ELSE "Get"
    <3>1. Send(who, op, "inSend") /\ op \in Ops /\ who' = who /\ tsn' = tsn /\ prog' = prog /\ who \in Sess
      BY <1>6 DEF SecondCommand, Ops, objVars, TypeOK
    <3>2. op \in (IF prog' = "revert" THEN {"Revert"} ELSE {"Get", "Set"})
      BY <3>1
    <3> HIDE DEF op
    <3> QED BY <3>1, <3>2, SendBusy
  <2>3. ThreadInv'
    BY <1>6, <2>1 DEF SecondCommand, CallInv, ThreadInv, Send, objVars
  <2> QED BY <2>2, <2>3 DEF CallInv
<1>7. CASE Deliver \/ Lose \/ TPer \/ TPerOdd \/ TPerAbort \/ UNCHANGED vars
  <2>1. UNCHANGED <<objVars, threadVars, busy>>
    <3>1. CASE Deliver \/ Lose
      BY <3>1 DEF Deliver, Lose, Rpc!Deliver, Rpc!Lose
    <3>2. CASE TPer \/ TPerOdd \/ TPerAbort
      BY <3>2, TPerFrame DEF objVars, threadVars
    <3>3. CASE UNCHANGED vars
      BY <3>3 DEF vars, rpcVars
    <3> QED BY <1>7, <3>1, <3>2, <3>3
  <2> QED BY <2>1 DEF objVars, threadVars, CallInv, BusyInv, ThreadInv, InCall
<1>8. CASE StartReturns \/ SendReturns \/ AuthReturns \/ CloseReturns
  <2>1. ExecReturns /\ InCall /\ pc' \in {"idle", "started", "dtor"}
    BY <1>8 DEF StartReturns, SendReturns, AuthReturns, CloseReturns, Bury, InCall
  <2>2. busy' = NoCmd
    BY <2>1, TypedQueues, ReturnQueues
  <2>3. BusyInv'
    BY <2>1, <2>2 DEF BusyInv, InCall
  <2>4. CASE StartReturns
    <3>1. \E v \in BOOLEAN : opened' = [opened EXCEPT ![who] = v]
      BY <2>4 DEF StartReturns, TypeOK
    <3>2. /\ pc' \in (IF prog = "user" THEN {"idle"} ELSE {"started", "dtor"})
          /\ UNCHANGED <<life, autoClose, who, prog>>
          /\ pc = "inStart"
      BY <2>4 DEF StartReturns
    <3>3. ThreadInv'
      BY <2>1, <3>1, <3>2 DEF CallInv, ThreadInv, TypeOK
    <3> QED BY <2>3, <3>3 DEF CallInv
  <2>5. CASE SendReturns
    <3>1. ThreadInv'
      BY <2>5 DEF SendReturns, CallInv, ThreadInv, TypeOK
    <3> QED BY <2>3, <3>1 DEF CallInv
  <2>6. CASE AuthReturns
    <3>1. ThreadInv'
      BY <2>6 DEF AuthReturns, CallInv, ThreadInv, TypeOK, objVars
    <3> QED BY <2>3, <3>1 DEF CallInv
  <2>7. CASE CloseReturns
    <3>1. ThreadInv'
      BY <2>7 DEF CloseReturns, Bury, CallInv, ThreadInv, TypeOK
    <3> QED BY <2>3, <3>1 DEF CallInv
  <2> QED BY <1>8, <2>4, <2>5, <2>6, <2>7
<1> QED BY <1>1, <1>2, <1>3, <1>4, <1>5, <1>6, <1>7, <1>8 DEF Next, Program, Library

-----------------------------------------------------------------------------
(* Answers, and the calls that find nothing pending *)

(***************************************************************************)
(* What an answer in the queue says is so, unless the TPer answered its    *)
(* command oddly: a session it names was opened for its command, a         *)
(* success was carried out.                                                *)
(***************************************************************************)
AnswerOK(a) ==
  /\ a.body.tok5 > 0 =>
       /\ a.to.op = "StartSession" /\ a.body = SyncSession(a.body.tok5)
       /\ a.body.tok5 <= Len(owner) /\ owner[a.body.tok5] = a.to.sess
  /\ "odd" \notin trouble[a.to.sess] =>
       IF a.to.op = "StartSession"
       THEN a.body = Refusal \/ a.body.tok5 > 0
       ELSE a.body.class = "refused" \/ \E r \in ran : r.id = a.to.id

AnswerInv == \A a \in Pending : AnswerOK(a)

(***************************************************************************)
(* A call that found nothing pending sees its own command and the answers  *)
(* to it, one for each time it was sent; start notes when something was    *)
(* pending.                                                                *)
(***************************************************************************)
CleanInv ==
  /\ InCall /\ clean =>
       /\ \A p \in Waiting : p = busy
       /\ \A a \in Pending : a.to = busy
       /\ Len(inbox) + Len(outbox) <= sent
  /\ InCall => sent <= 1 \/ "resend" \in trouble[who]
  /\ pc = "inStart" /\ "unclean" \notin trouble[who] => clean

LEMMA QueuesTyped ==
  ASSUME TypeOK
  PROVE  /\ Waiting \subseteq Packet /\ Pending \subseteq Rpc!Answer
         /\ Len(inbox) \in Nat /\ Len(outbox) \in Nat
         /\ \A p \in Waiting : p.sess \in Sess /\ p.tsn \in Nat
         /\ \A a \in Pending : a.to \in Packet /\ a.body \in Body /\ a.to.sess \in Sess
                               /\ a.body.tok5 \in Int
<1>1. inbox \in Seq(Packet) /\ outbox \in Seq(Rpc!Answer)
  BY TypedQueues DEF Queues
<1>2. Waiting \subseteq Packet /\ Pending \subseteq Rpc!Answer /\ Len(inbox) \in Nat /\ Len(outbox) \in Nat
  BY <1>1, RangeOfSeq, LenProperties DEF Waiting, Pending
<1> QED BY <1>2 DEF Packet, Rpc!Answer, Body

LEMMA AnswerStable ==
  ASSUME TypeOK, [Next]_vars, NEW a \in Rpc!Answer, AnswerOK(a)
  PROVE  AnswerOK(a)'
<1>1. a.to.sess \in Sess /\ a.body.tok5 \in Int
  BY DEF Rpc!Answer, Packet, Body
<1>2. /\ trouble[a.to.sess] \subseteq trouble'[a.to.sess] /\ ran \subseteq ran'
      /\ Len(owner) \in Nat /\ Len(owner') \in Nat /\ Len(owner) <= Len(owner')
      /\ \A t \in 1..Len(owner) : owner'[t] = owner[t]
  BY <1>1, HistoryGrows
<1>3. a.body.tok5 > 0 =>
        /\ a.to.op = "StartSession" /\ a.body = SyncSession(a.body.tok5)
        /\ a.body.tok5 <= Len(owner') /\ owner'[a.body.tok5] = a.to.sess
  BY <1>1, <1>2 DEF AnswerOK
<1>4. "odd" \notin trouble'[a.to.sess] =>
        IF a.to.op = "StartSession"
        THEN a.body = Refusal \/ a.body.tok5 > 0
        ELSE a.body.class = "refused" \/ \E r \in ran' : r.id = a.to.id
  BY <1>2 DEF AnswerOK
<1> QED BY <1>3, <1>4 DEF AnswerOK

\* Steps that answer nothing.
LEMMA QueueSteps ==
  ASSUME TypeOK, [Next]_vars, ~TPer, ~TPerOdd
  PROVE  Pending' \subseteq Pending /\ (Waiting' = Waiting \/ (Deliver /\ Waiting' = Waiting \cup {busy}))
<1>0. Queues
  BY TypedQueues
<1>1. CASE Deliver
  BY <1>0, <1>1, DeliverQueues DEF Deliver, Pending
<1>2. CASE Lose
  BY <1>0, <1>2, LoseQueues DEF Lose, Waiting
<1>3. CASE StartReturns \/ SendReturns \/ AuthReturns \/ CloseReturns
  BY <1>0, <1>3, ReturnQueues DEF StartReturns, SendReturns, AuthReturns, CloseReturns
<1>4. CASE inbox' = inbox /\ outbox' = outbox
  BY <1>4 DEF Waiting, Pending
<1>5. CASE Program \/ Destructor \/ SecondCommand \/ TPerAbort \/ UNCHANGED vars
  <2>1. (\E s, op, in : Send(s, op, in)) \/ UNCHANGED rpcVars
    BY <1>5 DEF Program, Create, Start, Command, DontAutoClose, Close, CloseOpened, Destroy,
      RunDeviceFunction, Destructor, SecondCommand, TPerAbort, vars
  <2>2. inbox' = inbox /\ outbox' = outbox
    BY <2>1 DEF Send, Rpc!Call, rpcVars
  <2> QED BY <1>4, <2>2
<1> QED BY <1>1, <1>2, <1>3, <1>5 DEF Next, Library

LEMMA AnswerStep ==
  ASSUME TypeOK, AnswerInv, [Next]_vars
  PROVE  AnswerInv'
<1>1. \A a \in Pending : AnswerOK(a)'
  BY AnswerStable, QueuesTyped DEF AnswerInv
<1>2. SUFFICES ASSUME Pending' \notin SUBSET Pending PROVE AnswerInv'
  BY <1>1 DEF AnswerInv
<1>3. TPer \/ TPerOdd
  BY <1>2, QueueSteps
<1>4. PICK q : q = Asked
  OBVIOUS
<1>5. ASSUME NEW b \in Body, Answers(b), AnswerOK([to |-> q, body |-> b])' PROVE AnswerInv'
  <2>1. Pending' = Pending \cup {[to |-> q, body |-> b]}
    BY <1>4, <1>5, TypedQueues, AnswerQueues
  <2>2. ASSUME NEW a \in Pending' PROVE AnswerOK(a)'
    BY <1>1, <1>5, <2>1
  <2> QED BY <2>2 DEF AnswerInv
<1>6. CASE TPerStart /\ OpenSession /\ Answers(SyncSession(NextTsn)) /\ SyncSession(NextTsn) \in Body
  <2>1. PICK t \in Nat : t = NextTsn /\ t > 0
    BY <1>6, OpenSessionTypes DEF TPerStart
  <2>2. t <= Len(owner') /\ owner'[t] = q.sess /\ q.op = "StartSession"
    BY <1>4, <1>6, <2>1, OpenSessionTypes DEF TPerStart
  <2>3. PICK a : a = [to |-> q, body |-> SyncSession(t)]
    OBVIOUS
  <2>4. a.body = SyncSession(t) /\ a.body.tok5 = t /\ a.to = q
    BY <2>3 DEF SyncSession, Tokens
  <2>5. AnswerOK(a)'
    BY <2>1, <2>2, <2>4 DEF AnswerOK
  <2> QED BY <1>5, <1>6, <2>1, <2>3, <2>5
<1>7. CASE TPerRefuse /\ Answers(Refusal) /\ Refusal \in Body
  <2>1. PICK a : a = [to |-> q, body |-> Refusal]
    OBVIOUS
  <2>2. a.body = Refusal /\ a.body.tok5 = NotNumber /\ a.body.class = "refused"
    BY <2>1 DEF Refusal, Tokens
  <2>3. AnswerOK(a)'
    BY <2>2 DEF AnswerOK, NotNumber
  <2> QED BY <1>5, <1>7, <2>1, <2>3
<1>8. ASSUME CarriedOut, q.op # "StartSession", NEW b \in Body, Answers(b), ~(b.tok5 > 0)
      PROVE  AnswerInv'
  <2>1. PICK r \in ran' : r.id = q.id
    <3> DEFINE done == [id |-> Asked.id, sess |-> Asked.sess, tsn |-> Asked.tsn]
    <3>1. done \in ran'
      BY <1>8 DEF CarriedOut
    <3>2. done.id = q.id
      BY <1>4
    <3> QED BY <3>1, <3>2
  <2>2. PICK a : a = [to |-> q, body |-> b]
    OBVIOUS
  <2>3. a.body = b /\ a.to = q
    BY <2>2
  <2>4. AnswerOK(a)'
    BY <1>8, <2>1, <2>3 DEF AnswerOK
  <2> QED BY <1>5, <1>8, <2>2, <2>4
<1>9. CASE TPerMethod /\ CarriedOut /\ \E b \in Body : Answers(b) /\ b.tok5 \in {0, NotNumber}
                                                      /\ b.class = "success"
  BY <1>4, <1>8, <1>9 DEF TPerMethod, NotNumber
<1>10. CASE TPerEnd /\ CarriedOut /\ Answers(EndToken) /\ EndToken \in Body
  BY <1>4, <1>8, <1>10 DEF TPerEnd, EndToken, Tokens, Missing
<1>11. CASE TPerRevert /\ CarriedOut /\ Answers(EmptyList) /\ EmptyList \in Body
  BY <1>4, <1>8, <1>11 DEF TPerRevert, EmptyList, Tokens
<1>12. CASE TPerIgnore /\ Rpc!Process(<<>>)
  BY <1>2, <1>12, TypedQueues, IgnoreQueues DEF Pending
<1>13. CASE TPerOdd /\ \E b \in Body : Answers(b) /\ b.tok5 \in {Missing, NotNumber}
  <2>1. PICK b \in Body : Answers(b) /\ b.tok5 \in {Missing, NotNumber}
    BY <1>13
  <2>2. q \in Packet
    BY <1>4, <2>1, TypedQueues, AnswerQueues
  <2>3. "odd" \in trouble'[q.sess]
    <3>1. Note(q.sess, "odd") /\ q.sess \in Sess
      BY <1>4, <1>13, <2>2 DEF TPerOdd, Packet
    <3> QED BY <3>1 DEF Note, TypeOK
  <2>4. PICK a : a = [to |-> q, body |-> b]
    OBVIOUS
  <2>5. a.body = b /\ a.to = q
    BY <2>4
  <2>6. AnswerOK(a)'
    BY <2>1, <2>3, <2>5 DEF AnswerOK, Missing, NotNumber
  <2> QED BY <1>5, <2>1, <2>4, <2>6
<1> QED BY <1>3, <1>6, <1>7, <1>9, <1>10, <1>11, <1>12, <1>13, TPerCases

LEMMA CleanStep ==
  ASSUME TypeOK, TypeOK', CallInv, CleanInv, [Next]_vars
  PROVE  CleanInv'
<1>0. Queues /\ Len(inbox) \in Nat /\ Len(outbox) \in Nat /\ sent \in Nat
  BY TypedQueues, QueuesTyped DEF Queues
<1>1. ASSUME NEW s \in Sess, NEW op \in Ops, NEW in, Send(s, op, in),
             in = "inStart" /\ "unclean" \notin trouble'[who'] => inbox = <<>> /\ outbox = <<>>
      PROVE  CleanInv'
  <2>1. /\ sent' = 0 /\ clean' = (inbox = <<>> /\ outbox = <<>>)
        /\ inbox' = inbox /\ outbox' = outbox /\ pc' = in
    BY <1>1, SendTypes
  <2>2. clean' => Waiting' = {} /\ Pending' = {} /\ Len(inbox') = 0 /\ Len(outbox') = 0
    <3>1. Range(<<>>) = {} /\ Len(<<>>) = 0
      BY <1>0, RangeEmpty DEF Queues
    <3> QED BY <2>1, <3>1 DEF Waiting, Pending
  <2>3. pc' = "inStart" /\ "unclean" \notin trouble'[who'] => clean'
    BY <1>1, <2>1
  <2>4. clean' => \A p \in Waiting' : p = busy'
    BY <2>2
  <2>5. clean' => \A a \in Pending' : a.to = busy'
    BY <2>2
  <2>6. sent' <= 1 /\ (clean' => Len(inbox') + Len(outbox') <= sent')
    BY <2>1, <2>2
  <2> QED BY <2>3, <2>4, <2>5, <2>6 DEF CleanInv
<1>2. CASE ~InCall'
  BY <1>2 DEF CleanInv, InCall
<1>3. CASE Program
  <2>1. PICK s \in Sess :
          \/ Create(s) \/ Start(s) \/ \E op \in Ops : Command(s, op)
          \/ DontAutoClose(s) \/ Close(s) \/ Destroy(s)
          \/ \E f \in {"revert", "msid"} : RunDeviceFunction(s, f)
    BY <1>3 DEF Program
  <2>2. CASE Create(s) \/ DontAutoClose(s) \/ Destroy(s)
    BY <1>2, <2>2 DEF Create, DontAutoClose, Destroy, Usable, Idle, InCall, threadVars
  <2>3. CASE Start(s)
    <3>1. "unclean" \notin trouble'[who'] => inbox = <<>> /\ outbox = <<>>
      BY <2>3 DEF Start, Rpc!Quiet, TypeOK
    <3> QED BY <1>1, <2>3, <3>1 DEF Start, Ops
  <2>4. ASSUME NEW op \in Ops, Command(s, op) PROVE CleanInv'
    BY <1>1, <2>4 DEF Command
  <2>5. CASE Close(s)
    BY <1>1, <2>5 DEF Close, CloseOpened, Ops
  <2>6. ASSUME NEW f \in {"revert", "msid"}, RunDeviceFunction(s, f) PROVE CleanInv'
    <3>1. "unclean" \notin trouble'[who'] => inbox = <<>> /\ outbox = <<>>
      BY <2>6 DEF RunDeviceFunction, Note, Rpc!Quiet, TypeOK
    <3> QED BY <1>1, <2>6, <3>1 DEF RunDeviceFunction, Ops
  <2> QED BY <2>1, <2>2, <2>3, <2>4, <2>5, <2>6
<1>4. CASE Destructor \/ SecondCommand
  <2>1. CASE Bury
    BY <1>2, <2>1 DEF Bury, InCall
  <2>2. ASSUME NEW op \in Ops, NEW in, in # "inStart", Send(who, op, in) PROVE CleanInv'
    BY <1>1, <2>2 DEF TypeOK
  <2>3. CASE Destructor /\ ~Bury
    BY <2>2, <2>3 DEF Destructor, CloseOpened, Ops
  <2>4. CASE SecondCommand
    BY <2>2, <2>4 DEF SecondCommand, Ops
  <2> QED BY <1>4, <2>1, <2>3, <2>4
<1>5. CASE StartReturns \/ SendReturns \/ AuthReturns \/ CloseReturns
  BY <1>2, <1>5 DEF StartReturns, SendReturns, AuthReturns, CloseReturns, Bury, InCall
<1>6. ASSUME who' = who, pc' = pc, busy' = busy, clean' = clean, trouble[who] \subseteq trouble'[who],
             sent' = sent \/ (sent' = sent + 1 /\ (sent > 0 => "resend" \in trouble'[who])),
             InCall /\ clean =>
               /\ \A p \in Waiting' : p = busy
               /\ \A a \in Pending' : a.to = busy
               /\ Len(inbox') + Len(outbox') <= sent'
      PROVE  CleanInv'
  BY <1>0, <1>6 DEF CleanInv, InCall
<1>7. trouble[who] \subseteq trouble'[who]
  BY HistoryGrows DEF TypeOK
<1>8. CASE Deliver
  <2>1. Rpc!Deliver /\ who' = who /\ pc' = pc /\ (sent > 0 => "resend" \in trouble'[who])
    BY <1>8 DEF Deliver, Note, threadVars, TypeOK
  <2>2. /\ sent' = sent + 1 /\ UNCHANGED <<busy, clean>>
        /\ Waiting' = Waiting \cup {busy} /\ Len(inbox') = Len(inbox) + 1
        /\ outbox' = outbox \/ (Pending' = {} /\ Len(outbox') = 0)
    BY <1>0, <2>1, DeliverQueues
  <2>3. Pending' \subseteq Pending /\ Len(outbox') <= Len(outbox)
    BY <1>0, <2>2 DEF Pending
  <2>4. Len(outbox') \in Nat
    BY QueuesTyped, <1>0, <2>2
  <2> QED BY <1>0, <1>6, <1>7, <2>1, <2>2, <2>3, <2>4 DEF CleanInv
<1>9. CASE Lose
  <2>1. Rpc!Lose /\ who' = who /\ pc' = pc
    BY <1>9 DEF Lose, threadVars
  <2>2. /\ Pending' \subseteq Pending /\ Len(outbox') = Len(outbox) - 1
        /\ UNCHANGED <<busy, sent, clean, inbox>>
    BY <1>0, <2>1, LoseQueues
  <2> QED BY <1>0, <1>6, <1>7, <2>1, <2>2 DEF CleanInv, Waiting
<1>10. CASE TPer \/ TPerOdd
  <2>1. who' = who /\ pc' = pc /\ UNCHANGED <<busy, sent, clean>>
    BY <1>10, TPerFrame
  <2>2. ASSUME NEW b \in Body, Answers(b) PROVE CleanInv'
    <3>1. /\ Asked \in Waiting /\ Waiting' \subseteq Waiting
          /\ Pending' = Pending \cup {[to |-> Asked, body |-> b]}
          /\ Len(inbox') = Len(inbox) - 1 /\ Len(outbox') = Len(outbox) + 1
      BY <1>0, <2>2, AnswerQueues
    <3> QED BY <1>0, <1>6, <1>7, <2>1, <3>1 DEF CleanInv
  <2>3. CASE Rpc!Process(<<>>)
    <3>1. /\ Waiting' \subseteq Waiting /\ outbox' = outbox /\ Len(inbox') = Len(inbox) - 1
      BY <1>0, <2>3, IgnoreQueues
    <3> QED BY <1>0, <1>6, <1>7, <2>1, <3>1 DEF CleanInv, Pending
  <2> QED BY <1>10, <2>2, <2>3, TPerCases
<1>11. CASE TPerAbort \/ UNCHANGED vars
  <2>1. UNCHANGED <<who, pc, busy, sent, clean, inbox, outbox>>
    BY <1>11 DEF TPerAbort, TPerRest, vars, threadVars, rpcVars
  <2> QED BY <1>0, <1>6, <1>7, <2>1 DEF CleanInv, Waiting, Pending
<1> QED BY <1>3, <1>4, <1>5, <1>8, <1>9, <1>10, <1>11 DEF Next, Library

LEMMA InitCalls ==
  ASSUME Init
  PROVE  CallInv /\ CleanInv /\ AnswerInv /\ Pending = {} /\ Waiting = {}
<1>1. Range(<<>>) = {}
  BY InitTypes, TypedQueues, RangeEmpty DEF Queues
<1>2. /\ pc = "idle" /\ prog = "user" /\ busy = NoCmd /\ inbox = <<>> /\ outbox = <<>>
      /\ \A s \in Sess : ~opened[s] /\ autoClose[s]
  BY DEF Init, Rpc!RpcInit
<1>3. Pending = {} /\ Waiting = {}
  BY <1>1, <1>2 DEF Pending, Waiting
<1>4. ~InCall
  BY <1>2 DEF InCall
<1>5. CallInv
  BY <1>2, <1>4 DEF CallInv, BusyInv, ThreadInv
<1>6. CleanInv
  BY <1>2, <1>4 DEF CleanInv
<1> QED BY <1>3, <1>5, <1>6 DEF AnswerInv

\* The first of the inductive invariants, on which the others build.
CallsInv == TypeOK /\ CallInv /\ CleanInv /\ AnswerInv

(***************************************************************************)
(* Where the thread is tells what exec was asked, a call that found        *)
(* nothing pending sees only its own command, and what a pending answer    *)
(* says is so (tcg_session_impl.cc:216-261).                               *)
(***************************************************************************)
THEOREM CallsCorrect == Spec => []CallsInv
<1>1. Init => CallsInv
  BY InitTypes, InitCalls DEF CallsInv
<1>2. CallsInv /\ [Next]_vars => CallsInv'
  BY TypeStep, CallStep, CleanStep, AnswerStep DEF CallsInv
<1> QED BY <1>1, <1>2, PTL DEF Spec

-----------------------------------------------------------------------------
(* Success *)

LEMMA FetchedIsReal ==
  ASSUME CallsInv, ExecReturns, pc \in {"inSend", "inAuth"}, clean, SendCode(ret') = "OK",
         "odd" \notin trouble[who]
  PROVE  \E r \in ran : r.id = busy.id
<1> DEFINE a == Head(outbox)
<1>1. Queues /\ InCall
  BY TypedQueues DEF CallsInv, InCall
<1>2. a \in Pending /\ a.body.class # "refused"
  BY <1>1, OkIsFetched, FetchQueues
<1>3. a.to = busy /\ AnswerOK(a)
  BY <1>1, <1>2 DEF CallsInv, CleanInv, AnswerInv
<1> HIDE DEF a
<1>4. busy.sess = who /\ busy.op # "StartSession"
  BY <1>1 DEF CallsInv, CallInv, BusyInv
<1> QED BY <1>2, <1>3, <1>4 DEF AnswerOK

LEMMA SuccessStep ==
  ASSUME CallsInv, SuccessIsReal, [Next]_vars
  PROVE  SuccessIsReal'
<1>1. /\ \A s \in Sess : trouble[s] \subseteq trouble'[s]
      /\ ran \subseteq ran'
      /\ last.sess \in Sess /\ who \in Sess
  BY HistoryGrows DEF CallsInv, TypeOK
<1>2. CASE UNCHANGED last
  BY <1>1, <1>2 DEF SuccessIsReal
<1>3. CASE last'.fn = "start"
  BY <1>3 DEF SuccessIsReal
<1>4. ASSUME ExecReturns, pc \in {"inSend", "inAuth"},
             NEW fn, NEW code, Report(fn, code), code = "OK" => SendCode(ret') = "OK"
      PROVE  SuccessIsReal'
  <2>1. last'.code = code /\ last'.clean = clean /\ last'.sess = who /\ last'.id = busy.id
    BY <1>4 DEF Report
  <2> QED BY <1>1, <1>4, <2>1, FetchedIsReal DEF SuccessIsReal
<1>5. CASE SendReturns
  BY <1>4, <1>5 DEF SendReturns
<1>6. CASE AuthReturns
  <2> DEFINE v == IF SendCode(ret') = "OK" THEN ret'.ans.body.tok1 ELSE Missing
             code == IF SendCode(ret') # "OK" THEN SendCode(ret')
                     ELSE CASE v = Missing -> "ILLEGAL_RESPONSE"
                            [] v = NotNumber -> "ILLEGAL_DATA"
                            [] v = 0 -> "OK"
                            [] OTHER -> "TCG_AUTH_FAILED"
  <2>1. ExecReturns /\ pc = "inAuth" /\ Report("authenticate", code)
    BY <1>6 DEF AuthReturns
  <2>2. code = "OK" => SendCode(ret') = "OK"
    OBVIOUS
  <2> HIDE DEF code
  <2> QED BY <1>4, <2>1, <2>2
<1>7. CASE StartReturns
  BY <1>3, <1>7 DEF StartReturns, Report
<1>8. CASE Program \/ Destructor \/ SecondCommand \/ Deliver \/ CloseReturns \/ Lose \/ UNCHANGED vars
  BY <1>2, <1>8 DEF Program, Create, Start, Command, DontAutoClose, Close, Destroy,
    RunDeviceFunction, Destructor, SecondCommand, Deliver, CloseReturns, Lose, vars
<1>9. CASE TPer \/ TPerOdd \/ TPerAbort
  BY <1>2, <1>9, TPerFrame
<1> QED BY <1>5, <1>6, <1>7, <1>8, <1>9 DEF Next, Library

(***************************************************************************)
(* A command reported as successful was carried out, unless something was  *)
(* pending when it was sent or the TPer answered oddly                     *)
(* (tcg_session_impl.cc:216-261).                                          *)
(***************************************************************************)
THEOREM SuccessReal == Spec => []SuccessIsReal
<1>1. Init => SuccessIsReal
  BY DEF Init, SuccessIsReal
<1>2. CallsInv /\ SuccessIsReal /\ [Next]_vars => SuccessIsReal'
  BY SuccessStep
<1> QED BY <1>1, <1>2, CallsCorrect, PTL DEF Spec

-----------------------------------------------------------------------------
(* Whose session it is *)

(***************************************************************************)
(* Objects and packets name sessions the TPer gave out, and, unless the    *)
(* object was started with an answer pending, only their own.              *)
(***************************************************************************)
OwnInv ==
  /\ \A s \in Sess : tsn[s] > 0 =>
       /\ tsn[s] <= Len(owner)
       /\ "unclean" \notin trouble[s] => owner[tsn[s]] = s
  /\ \A p \in Waiting : p.tsn > 0 =>
       /\ p.tsn <= Len(owner)
       /\ "unclean" \notin trouble[p.sess] => owner[p.tsn] = p.sess
  /\ \A r \in ran : /\ r.tsn \in 1..Len(owner)
                    /\ "unclean" \notin trouble[r.sess] => owner[r.tsn] = r.sess

\* What start makes of the session numbers it was answered.
LEMMA StartTakes ==
  ASSUME CallsInv, StartReturns
  PROVE  /\ ExecReturns /\ InCall /\ who \in Sess /\ pc = "inStart"
         /\ UNCHANGED <<life, autoClose, who, prog, tper, owner, ran>>
         /\ \/ /\ SendCode(ret') # "OK" /\ UNCHANGED <<opened, hsn, tsn>>
            \/ \E a \in Pending :
                 /\ SendCode(ret') = "OK" /\ Fetches /\ a = Head(outbox) /\ AnswerOK(a)
                 /\ a.body.class # "refused"
                 /\ opened' = [opened EXCEPT ![who] = TRUE]
                 /\ hsn' = [hsn EXCEPT ![who] = IF a.body.tok4 >= 0 /\ a.body.tok5 # Missing
                                                THEN a.body.tok4 ELSE @]
                 /\ tsn' = [tsn EXCEPT ![who] = IF a.body.tok4 >= 0 /\ a.body.tok5 >= 0
                                                THEN a.body.tok5 ELSE @]
<1> DEFINE ok == SendCode(ret') = "OK"
           t4 == IF ok THEN ret'.ans.body.tok4 ELSE Missing
           t5 == IF ok THEN ret'.ans.body.tok5 ELSE Missing
<1>1. /\ ExecReturns /\ pc = "inStart"
      /\ opened' = [opened EXCEPT ![who] = @ \/ ok]
      /\ hsn' = [hsn EXCEPT ![who] = IF t4 >= 0 /\ t5 # Missing THEN t4 ELSE @]
      /\ tsn' = [tsn EXCEPT ![who] = IF t4 >= 0 /\ t5 >= 0 THEN t5 ELSE @]
      /\ UNCHANGED <<life, autoClose, who, prog, tper, owner, ran>>
  BY DEF StartReturns, tperVars
<1>2. Queues /\ who \in Sess /\ InCall
  BY <1>1, TypedQueues DEF CallsInv, TypeOK, InCall
<1>3. CASE ~ok
  <2>1. t4 = Missing /\ t5 = Missing /\ ~(t4 >= 0)
    BY <1>3 DEF Missing
  <2> HIDE DEF ok, t4, t5
  <2>2. UNCHANGED <<opened, hsn, tsn>>
    BY <1>1, <1>2, <1>3, <2>1 DEF CallsInv, TypeOK
  <2> QED BY <1>1, <1>2, <1>3, <2>2 DEF ok
<1>4. CASE ok
  <2>1. /\ Fetches /\ ret'.ans = Head(outbox) /\ Head(outbox).body.class # "refused"
        /\ Head(outbox) \in Pending
    BY <1>1, <1>2, <1>4, OkIsFetched, FetchQueues
  <2>2. PICK a \in Pending : a = Head(outbox) /\ AnswerOK(a)
    BY <2>1 DEF CallsInv, AnswerInv
  <2>3. t4 = a.body.tok4 /\ t5 = a.body.tok5
    BY <1>4, <2>1, <2>2
  <2>4. [opened EXCEPT ![who] = @ \/ ok] = [opened EXCEPT ![who] = TRUE]
    BY <1>4, <1>2 DEF CallsInv, TypeOK
  <2> HIDE DEF t4, t5
  <2> QED BY <1>1, <1>2, <1>4, <2>1, <2>2, <2>3, <2>4
<1> QED BY <1>3, <1>4

\* Steps that change no session number and carry nothing out.
LEMMA NumbersKept ==
  ASSUME TypeOK, [Next]_vars, ~StartReturns
  PROVE  tsn' = tsn /\ hsn' = hsn
<1>1. CASE TPer \/ TPerOdd \/ TPerAbort
  BY <1>1, TPerFrame
<1>2. CASE Program
  BY <1>2 DEF Program, Create, Start, Command, DontAutoClose, Close, Destroy, RunDeviceFunction, objVars
<1>3. CASE Library \/ Lose \/ UNCHANGED vars
  BY <1>3 DEF Library, Destructor, SecondCommand, Deliver, SendReturns, AuthReturns, CloseReturns,
    Lose, vars, objVars
<1> QED BY <1>1, <1>2, <1>3 DEF Next

LEMMA WaitingFrom ==
  ASSUME TypeOK, [Next]_vars
  PROVE  Waiting' \subseteq Waiting \/ (Deliver /\ Waiting' = Waiting \cup {busy})
<1>1. CASE TPer \/ TPerOdd
  BY <1>1, TypedQueues, TPerCases, AnswerQueues, IgnoreQueues
<1>2. CASE ~TPer /\ ~TPerOdd
  BY <1>2, QueueSteps
<1> QED BY <1>1, <1>2

LEMMA RanFrom ==
  ASSUME TypeOK, [Next]_vars
  PROVE  \/ ran' = ran
         \/ /\ inbox # <<>> /\ InSession /\ CarriedOut /\ owner' = owner
<1>1. CASE TPer \/ TPerOdd \/ TPerAbort
  BY <1>1 DEF TPer, TPerStart, TPerRefuse, TPerMethod, TPerEnd, TPerRevert, TPerIgnore, TPerOdd,
    TPerAbort, OpenSession, tperVars
<1>2. CASE Program \/ Library \/ Lose \/ UNCHANGED vars
  BY <1>2 DEF Program, Library, Lose, Create, Start, Command, DontAutoClose, Close, Destroy,
      RunDeviceFunction, Destructor, SecondCommand, Deliver, StartReturns, SendReturns, AuthReturns,
      CloseReturns, tperVars, vars
<1> QED BY <1>1, <1>2 DEF Next

LEMMA DeliverBusy ==
  ASSUME CallsInv, Deliver
  PROVE  /\ InCall /\ busy \in Packet /\ busy.sess = who /\ who \in Sess /\ busy.tsn = tsn[who]
         /\ UNCHANGED <<objVars, threadVars, busy, owner, tper, ran>>
<1>1. Rpc!Deliver /\ UNCHANGED <<objVars, threadVars, tperVars>>
  BY DEF Deliver
<1>2. busy \in Packet /\ busy # NoCmd /\ busy' = busy
  BY <1>1, TypedQueues, DeliverQueues DEF CallsInv
<1>3. InCall
  BY <1>2 DEF CallsInv, CallInv, BusyInv
<1> QED BY <1>1, <1>2, <1>3 DEF CallsInv, CallInv, BusyInv, tperVars, TypeOK

LEMMA OwnStep ==
  ASSUME CallsInv, OwnInv, [Next]_vars
  PROVE  OwnInv'
<1>0. TypeOK
  BY DEF CallsInv
<1>1. /\ \A s \in Sess : trouble[s] \subseteq trouble'[s]
      /\ Len(owner) \in Nat /\ Len(owner') \in Nat /\ Len(owner) <= Len(owner')
      /\ \A t \in 1..Len(owner) : owner'[t] = owner[t]
  BY <1>0, HistoryGrows
<1> DEFINE Own(s, t) == t > 0 => /\ t <= Len(owner)
                                 /\ "unclean" \notin trouble[s] => owner[t] = s
           Own1(s, t) == t > 0 => /\ t <= Len(owner')
                                  /\ "unclean" \notin trouble'[s] => owner'[t] = s
<1>2. \A s \in Sess, t \in Nat : Own(s, t) => Own1(s, t)
  BY <1>1
<1>3. \A s \in Sess : tsn[s] \in Nat /\ Own(s, tsn[s])
  BY <1>0 DEF OwnInv, TypeOK
<1>4. \A s \in Sess : Own1(s, tsn'[s])
  <2>1. CASE tsn' = tsn
    BY <1>2, <1>3, <2>1
  <2>2. CASE StartReturns
    <3>1. /\ who \in Sess /\ InCall /\ pc = "inStart" /\ owner' = owner
          /\ \/ tsn' = tsn
             \/ \E a \in Pending :
                  /\ AnswerOK(a)
                  /\ tsn' = [tsn EXCEPT ![who] = IF a.body.tok4 >= 0 /\ a.body.tok5 >= 0
                                                 THEN a.body.tok5 ELSE @]
      BY <2>2, StartTakes
    <3>2. ASSUME NEW a \in Pending, AnswerOK(a) PROVE a.body.tok5 \in Nat => Own1(who, a.body.tok5)
      <4>1. "unclean" \notin trouble[who] => a.to.sess = who
        BY <3>1 DEF CallsInv, CleanInv, CallInv, BusyInv
      <4>2. a.body.tok5 > 0 => a.body.tok5 <= Len(owner) /\ owner[a.body.tok5] = a.to.sess
        BY <3>2 DEF AnswerOK
      <4>3. a.body.tok5 \in Nat => Own(who, a.body.tok5)
        BY <4>1, <4>2
      <4> QED BY <1>2, <3>1, <4>3
    <3>3. ASSUME NEW a \in Pending, AnswerOK(a),
                 tsn' = [tsn EXCEPT ![who] = IF a.body.tok4 >= 0 /\ a.body.tok5 >= 0
                                             THEN a.body.tok5 ELSE @],
                 NEW s \in Sess
          PROVE  Own1(s, tsn'[s])
      <4>1. a.body.tok5 \in Int
        BY <1>0, QueuesTyped
      <4>2. tsn'[s] = tsn[s] \/ (s = who /\ tsn'[s] = a.body.tok5 /\ a.body.tok5 \in Nat)
        BY <1>0, <3>3, <4>1 DEF TypeOK
      <4> HIDE DEF Own1
      <4> QED BY <1>2, <1>3, <3>2, <3>3, <4>2
    <3> HIDE DEF Own1
    <3> QED BY <2>1, <3>1, <3>3
  <2> QED BY <1>0, <2>1, <2>2, NumbersKept
<1>5. \A p \in Waiting' : Own1(p.sess, p.tsn)
  <2>1. \A p \in Waiting : p.sess \in Sess /\ p.tsn \in Nat /\ Own(p.sess, p.tsn)
    BY <1>0, QueuesTyped DEF OwnInv
  <2>2. Deliver => busy.sess \in Sess /\ busy.tsn = tsn[busy.sess]
    BY DeliverBusy
  <2> HIDE DEF Own, Own1
  <2> QED BY <1>0, <1>2, <1>3, <2>1, <2>2, WaitingFrom
<1>6. ASSUME NEW r \in ran'
      PROVE  /\ r.tsn \in 1..Len(owner')
             /\ "unclean" \notin trouble'[r.sess] => owner'[r.tsn] = r.sess
  <2>1. CASE r \in ran
    <3>1. r.tsn \in 1..Len(owner) /\ ("unclean" \notin trouble[r.sess] => owner[r.tsn] = r.sess)
      BY <2>1 DEF OwnInv
    <3>2. r.sess \in Sess
      BY <1>0, <2>1 DEF TypeOK
    <3> QED BY <1>1, <3>1, <3>2
  <2>2. CASE r \notin ran
    <3>1. inbox # <<>> /\ InSession /\ CarriedOut /\ owner' = owner
      BY <1>0, <2>2, RanFrom
    <3>2. r.sess = Asked.sess /\ r.tsn = Asked.tsn
      BY <2>2, <3>1 DEF CarriedOut
    <3>3. Asked \in Waiting /\ Asked \in Packet
      BY <1>0, <3>1, TypedQueues, AskedQueues
    <3>4. Asked.tsn \in 1..Len(owner) /\ Asked.sess \in Sess
      BY <1>0, <3>1, <3>3 DEF InSession, TypeOK, Packet
    <3>5. "unclean" \notin trouble[r.sess] => owner[r.tsn] = r.sess
      BY <3>2, <3>3, <3>4 DEF OwnInv
    <3> QED BY <1>1, <3>1, <3>2, <3>4, <3>5
  <2> QED BY <2>1, <2>2
<1> QED BY <1>4, <1>5, <1>6 DEF OwnInv

(***************************************************************************)
(* Objects, the packets they sent and the commands carried out name        *)
(* sessions the TPer gave out, and unless the object was started with an   *)
(* answer pending, its own (tcg_session_impl.cc:135-155, 222-224).         *)
(***************************************************************************)
THEOREM OwnCorrect == Spec => []OwnInv
<1>1. Init => OwnInv
  BY InitCalls DEF Init, OwnInv
<1>2. CallsInv /\ OwnInv /\ [Next]_vars => OwnInv'
  BY OwnStep
<1> QED BY <1>1, <1>2, CallsCorrect, PTL DEF Spec

(***************************************************************************)
(* Nothing is ever carried out in another object's session, unless the     *)
(* object was started with an answer still pending                         *)
(* (tcg_session_impl.cc:90, 135-155).                                      *)
(***************************************************************************)
THEOREM OwnSessions == Spec => []OwnSession
<1>1. OwnInv => OwnSession
  BY DEF OwnInv, OwnSession
<1> QED BY <1>1, OwnCorrect, PTL

-----------------------------------------------------------------------------
(* No session is named twice *)

\* The answers of q name different sessions.
Once(q) ==
  \A i, j \in 1..Len(q) : q[i].body.tok5 > 0 /\ q[i].body.tok5 = q[j].body.tok5 => i = j

LEMMA OnceTail ==
  ASSUME NEW q \in Seq(Rpc!Answer), q # <<>>, Once(q)
  PROVE  /\ Once(Tail(q))
         /\ \A a \in Range(Tail(q)) : a.body.tok5 > 0 => a.body.tok5 # Head(q).body.tok5
<1>1. /\ Tail(q) \in Seq(Rpc!Answer) /\ Len(Tail(q)) = Len(q) - 1
      /\ \A i \in 1..Len(Tail(q)) : Tail(q)[i] = q[i + 1]
      /\ Len(q) \in Nat \ {0} /\ Head(q) = q[1]
  BY RangeTail, HeadTailProperties, EmptySeq
<1>2. Once(Tail(q))
  BY <1>1 DEF Once
<1>3. ASSUME NEW a \in Range(Tail(q)), a.body.tok5 > 0 PROVE a.body.tok5 # Head(q).body.tok5
  <2>1. PICK i \in 1..(Len(q) - 1) : a = Tail(q)[i]
    BY <1>1, <1>3, LenProperties DEF Range
  <2>2. a = q[i + 1] /\ i + 1 \in 1..Len(q) /\ 1 \in 1..Len(q) /\ i + 1 # 1
    BY <1>1, <2>1
  <2> QED BY <1>1, <1>3, <2>2 DEF Once
<1> QED BY <1>2, <1>3

LEMMA OnceAppend ==
  ASSUME NEW q \in Seq(Rpc!Answer), NEW a \in Rpc!Answer, Once(q),
         a.body.tok5 > 0 => \A x \in Range(q) : x.body.tok5 # a.body.tok5
  PROVE  Once(Append(q, a))
<1>1. /\ Len(Append(q, a)) = Len(q) + 1 /\ Len(q) \in Nat
      /\ \A i \in 1..Len(q) : Append(q, a)[i] = q[i] /\ q[i] \in Range(q)
      /\ Append(q, a)[Len(q) + 1] = a
  BY AppendProperties, LenProperties DEF Range
<1>2. ASSUME NEW i \in 1..(Len(q) + 1), NEW j \in 1..(Len(q) + 1),
             Append(q, a)[i].body.tok5 > 0, Append(q, a)[i].body.tok5 = Append(q, a)[j].body.tok5
      PROVE  i = j
  <2>1. CASE i \in 1..Len(q) /\ j \in 1..Len(q)
    BY <1>1, <1>2, <2>1 DEF Once
  <2>2. CASE i = Len(q) + 1 /\ j \in 1..Len(q)
    BY <1>1, <1>2, <2>2
  <2>3. CASE i \in 1..Len(q) /\ j = Len(q) + 1
    BY <1>1, <1>2, <2>3
  <2> QED BY <1>1, <2>1, <2>2, <2>3
<1> QED BY <1>1, <1>2 DEF Once

\* Where the answers of a step come from.
LEMMA OutboxFrom ==
  ASSUME TypeOK, [Next]_vars
  PROVE  \/ outbox' \in {outbox, <<>>}
         \/ outbox # <<>> /\ outbox' = Tail(outbox)
         \/ \E b \in Body :
              /\ Answers(b)
              /\ \/ ~(b.tok5 > 0)
                 \/ TPerStart /\ inbox # <<>> /\ OpenSession /\ b = SyncSession(NextTsn)
              /\ \/ b.tok4 < 0 \/ b.tok4 = HostSessionId \/ b.tok5 = 0
<1>0. Queues
  BY TypedQueues
<1>1. CASE TPer \/ TPerOdd
  <2>1. CASE TPerIgnore
    BY <1>0, <2>1, IgnoreQueues DEF TPerIgnore
  <2>2. CASE TPerStart
    <3>1. PICK b : b = SyncSession(NextTsn)
      OBVIOUS
    <3>2. b.tok4 = HostSessionId
      BY <3>1 DEF SyncSession, Tokens
    <3>3. b \in Body /\ Answers(b) /\ inbox # <<>> /\ OpenSession
      BY <2>2, <3>1, OpenSessionTypes, BodyTypes DEF TPerStart
    <3> QED BY <2>2, <3>1, <3>2, <3>3
  <2>3. CASE TPerRefuse \/ TPerMethod \/ TPerEnd \/ TPerRevert
    <3>1. ASSUME NEW b \in {Refusal, Row, EmptyList, EndToken} \cup {Verdict(v) : v \in {0, 1}}
          PROVE  b \in Body /\ ~(b.tok5 > 0) /\ (b.tok4 < 0 \/ b.tok5 = 0)
      BY <3>1, BodyTypes DEF Refusal, Row, EmptyList, EndToken, Verdict, Tokens, NotNumber, Missing
    <3>2. \E b \in {Refusal, Row, EmptyList, EndToken} \cup {Verdict(v) : v \in {0, 1}} : Answers(b)
      BY <2>3 DEF TPerRefuse, TPerMethod, TPerEnd, TPerRevert
    <3> QED BY <3>1, <3>2
  <2>4. CASE TPerOdd
    <3>1. ASSUME NEW b \in OddBodies
          PROVE  b \in Body /\ ~(b.tok5 > 0) /\ (b.tok4 < 0 \/ b.tok4 = HostSessionId)
      BY <3>1, BodyTypes DEF OddBodies, EndToken, Tokens, NotNumber, Missing
    <3>2. \E b \in OddBodies : Answers(b)
      BY <2>4 DEF TPerOdd
    <3> QED BY <3>1, <3>2
  <2> QED BY <1>1, <2>1, <2>2, <2>3, <2>4 DEF TPer
<1>2. CASE Deliver
  BY <1>0, <1>2, DeliverQueues DEF Deliver
<1>3. CASE Lose
  BY <1>0, <1>3, LoseQueues DEF Lose
<1>4. CASE StartReturns \/ SendReturns \/ AuthReturns \/ CloseReturns
  BY <1>0, <1>4, ReturnCases DEF StartReturns, SendReturns, AuthReturns, CloseReturns, Fetches,
    FindsNothing, GivesUp, TurnsDown
<1>5. CASE Program \/ Destructor \/ SecondCommand \/ TPerAbort \/ UNCHANGED vars
  <2>1. (\E s, op, in : Send(s, op, in)) \/ UNCHANGED rpcVars
    BY <1>5 DEF Program, Create, Start, Command, DontAutoClose, Close, CloseOpened, Destroy,
      RunDeviceFunction, Destructor, SecondCommand, TPerAbort, vars
  <2> QED BY <2>1 DEF Send, Rpc!Call, rpcVars
<1> QED BY <1>1, <1>2, <1>3, <1>4, <1>5 DEF Next, Library

(***************************************************************************)
(* A session the TPer gave out is named by one pending answer or by one    *)
(* object and its packets.                                                 *)
(***************************************************************************)
HeldInv ==
  /\ Once(outbox)
  /\ \A a \in Pending : a.body.tok5 > 0 =>
       /\ \A s \in Sess : tsn[s] # a.body.tok5
       /\ \A p \in Waiting : p.tsn # a.body.tok5
  /\ \A s, u \in Sess : tsn[s] > 0 /\ tsn[s] = tsn[u] => s = u
  /\ \A p \in Waiting, s \in Sess : p.tsn > 0 /\ tsn[s] = p.tsn => s = p.sess

\* Steps after which all numbers in use were in use before.
LEMMA HeldQueues ==
  ASSUME CallsInv, HeldInv, [Next]_vars, tsn' = tsn,
         Once(outbox'), \A a \in Pending' : a.body.tok5 > 0 => a \in Pending
  PROVE  HeldInv'
<1>1. Waiting' \subseteq Waiting \/ (Deliver /\ Waiting' = Waiting \cup {busy})
  BY WaitingFrom DEF CallsInv
<1>2. Deliver => busy.sess = who /\ who \in Sess /\ busy.tsn = tsn[who]
  BY DeliverBusy
<1>3. \A p \in Waiting' : p \in Waiting \/ (p.sess \in Sess /\ p.tsn = tsn[p.sess])
  BY <1>1, <1>2
<1>4. ASSUME NEW a \in Pending', a.body.tok5 > 0
      PROVE  /\ \A s \in Sess : tsn[s] # a.body.tok5
             /\ \A p \in Waiting' : p.tsn # a.body.tok5
  BY <1>3, <1>4 DEF HeldInv
<1>5. ASSUME NEW p \in Waiting', NEW s \in Sess, p.tsn > 0, tsn[s] = p.tsn PROVE s = p.sess
  BY <1>3, <1>5 DEF HeldInv
<1> QED BY <1>4, <1>5 DEF HeldInv

LEMMA HeldStep ==
  ASSUME CallsInv, OwnInv, HeldInv, [Next]_vars
  PROVE  HeldInv'
<1>0. TypeOK /\ Queues
  BY TypedQueues DEF CallsInv
<1>1. CASE StartReturns
  <2>1. /\ ExecReturns /\ who \in Sess
        /\ \/ tsn' = tsn
           \/ \E a \in Pending :
                /\ Fetches /\ a = Head(outbox)
                /\ tsn' = [tsn EXCEPT ![who] = IF a.body.tok4 >= 0 /\ a.body.tok5 >= 0
                                               THEN a.body.tok5 ELSE @]
    BY <1>1, StartTakes
  <2>2. Pending' \subseteq Pending /\ Waiting' = Waiting
    BY <1>0, <2>1, ReturnQueues
  <2>3. outbox' = outbox \/ (outbox # <<>> /\ outbox' = Tail(outbox))
    BY <1>0, <2>1, ReturnCases DEF Fetches, FindsNothing, GivesUp, TurnsDown
  <2>4. Once(outbox')
    BY <1>0, <2>3, OnceTail DEF Queues, HeldInv
  <2>5. CASE tsn' = tsn
    BY <2>2, <2>4, <2>5, HeldQueues
  <2>6. ASSUME NEW a \in Pending, Fetches, a = Head(outbox),
               tsn' = [tsn EXCEPT ![who] = IF a.body.tok4 >= 0 /\ a.body.tok5 >= 0
                                           THEN a.body.tok5 ELSE @]
        PROVE  HeldInv'
    <3>1. a.body.tok5 \in Int
      BY <1>0, QueuesTyped
    <3>2. \A x \in Pending' : x.body.tok5 > 0 => x.body.tok5 # a.body.tok5
      BY <1>0, <2>6, OnceTail DEF Queues, HeldInv, Fetches, Pending
    <3> DEFINE t == a.body.tok5
    <3>3. \A s \in Sess : tsn'[s] = tsn[s] \/ (s = who /\ tsn'[s] = t)
      BY <1>0, <2>6 DEF TypeOK
    <3> HIDE DEF t
    <3>4. t > 0 => (\A s \in Sess : tsn[s] # t) /\ (\A p \in Waiting : p.tsn # t)
      BY DEF t, HeldInv
    <3>5. ASSUME NEW x \in Pending', x.body.tok5 > 0
          PROVE  (\A s \in Sess : tsn'[s] # x.body.tok5) /\ (\A p \in Waiting' : p.tsn # x.body.tok5)
      <4>1. x.body.tok5 # t
        BY <3>2, <3>5 DEF t
      <4> QED BY <2>2, <3>3, <3>5, <4>1 DEF HeldInv
    <3>6. ASSUME NEW s \in Sess, NEW u \in Sess, tsn'[s] > 0, tsn'[s] = tsn'[u] PROVE s = u
      BY <3>3, <3>4, <3>6 DEF HeldInv
    <3>7. ASSUME NEW p \in Waiting', NEW s \in Sess, p.tsn > 0, tsn'[s] = p.tsn PROVE s = p.sess
      BY <2>2, <3>3, <3>4, <3>7 DEF HeldInv
    <3> QED BY <2>4, <3>5, <3>6, <3>7 DEF HeldInv
  <2> QED BY <2>1, <2>5, <2>6
<1>2. CASE ~StartReturns /\ outbox' \in {outbox, <<>>}
  <2>1. Once(outbox') /\ Pending' \subseteq Pending
    <3>1. Range(<<>>) = {} /\ Len(<<>>) = 0
      BY <1>0, RangeEmpty DEF Queues
    <3> QED BY <1>2, <3>1 DEF HeldInv, Pending, Once
  <2> QED BY <1>0, <1>2, <2>1, HeldQueues, NumbersKept
<1>3. CASE ~StartReturns /\ outbox # <<>> /\ outbox' = Tail(outbox)
  <2>1. Once(outbox') /\ Pending' \subseteq Pending
    BY <1>0, <1>3, OnceTail, RangeTail DEF HeldInv, Queues, Pending
  <2> QED BY <1>0, <1>3, <2>1, HeldQueues, NumbersKept
<1>4. ASSUME ~StartReturns, NEW b \in Body, Answers(b),
             \/ ~(b.tok5 > 0)
             \/ TPerStart /\ inbox # <<>> /\ OpenSession /\ b = SyncSession(NextTsn)
      PROVE  HeldInv'
  <2> DEFINE a == [to |-> Asked, body |-> b]
  <2>1. /\ outbox' = Append(outbox, a) /\ Pending' = Pending \cup {a} /\ Waiting' \subseteq Waiting
        /\ Asked \in Packet
    BY <1>0, <1>4, AnswerQueues
  <2>2. a \in Rpc!Answer /\ a.body = b
    BY <2>1 DEF Rpc!Answer
  <2>3. tsn' = tsn
    BY <1>0, <1>4, NumbersKept
  <2> HIDE DEF a
  <2>4. CASE ~(b.tok5 > 0)
    <3>1. Once(outbox')
      BY <1>0, <2>1, <2>2, <2>4, OnceAppend DEF Queues, HeldInv
    <3>2. \A x \in Pending' : x.body.tok5 > 0 => x \in Pending
      BY <2>1, <2>2, <2>4
    <3> QED BY <2>3, <3>1, <3>2, HeldQueues
  <2>5. CASE TPerStart /\ inbox # <<>> /\ OpenSession /\ b = SyncSession(NextTsn)
    <3>1. b.tok5 = Len(owner) + 1 /\ Len(owner) \in Nat
      BY <1>0, <2>5, OpenSessionTypes DEF SyncSession, Tokens
    <3>2. \A x \in Pending : x.body.tok5 > 0 => x.body.tok5 <= Len(owner)
      BY DEF CallsInv, AnswerInv, AnswerOK
    <3>3. \A s \in Sess : tsn[s] \in Nat /\ tsn[s] <= Len(owner)
      BY <1>0, <3>1 DEF OwnInv, TypeOK
    <3>4. \A p \in Waiting : p.tsn \in Nat /\ p.tsn <= Len(owner)
      BY <1>0, <3>1, QueuesTyped DEF OwnInv
    <3>5. \A x \in Pending : x.body.tok5 # b.tok5
      BY <1>0, <3>1, <3>2, QueuesTyped
    <3>6. Once(outbox')
      BY <1>0, <2>1, <2>2, <3>5, OnceAppend DEF Queues, HeldInv, Pending
    <3>7. ASSUME NEW x \in Pending', x.body.tok5 > 0
          PROVE  (\A s \in Sess : tsn[s] # x.body.tok5) /\ (\A p \in Waiting' : p.tsn # x.body.tok5)
      <4>1. CASE x \in Pending
        BY <2>1, <3>7, <4>1 DEF HeldInv
      <4>2. CASE x = a
        BY <2>1, <2>2, <3>1, <3>3, <3>4, <4>2
      <4> QED BY <2>1, <4>1, <4>2
    <3>8. \A p \in Waiting', s \in Sess : p.tsn > 0 /\ tsn[s] = p.tsn => s = p.sess
      BY <2>1 DEF HeldInv
    <3> QED BY <2>3, <3>6, <3>7, <3>8 DEF HeldInv
  <2> QED BY <1>4, <2>4, <2>5
<1> QED BY <1>0, <1>1, <1>2, <1>3, <1>4, OutboxFrom

(***************************************************************************)
(* A packet or object that names a session names it with the host's        *)
(* number, so that the TPer takes it for that session.                     *)
(***************************************************************************)
NumbersInv ==
  /\ \A s \in Sess : tsn[s] > 0 => hsn[s] = HostSessionId
  /\ \A p \in Waiting : p.tsn > 0 => p.hsn = HostSessionId
  /\ InCall /\ busy.tsn > 0 => busy.hsn = HostSessionId
  /\ \A a \in Pending : a.body.tok4 < 0 \/ a.body.tok4 = HostSessionId \/ a.body.tok5 = 0

LEMMA NumbersStep ==
  ASSUME CallsInv, NumbersInv, [Next]_vars
  PROVE  NumbersInv'
<1>0. TypeOK /\ Queues
  BY TypedQueues DEF CallsInv
<1>1. \A s \in Sess : tsn'[s] > 0 => hsn'[s] = HostSessionId
  <2>1. CASE tsn' = tsn /\ hsn' = hsn
    BY <2>1 DEF NumbersInv
  <2>2. CASE StartReturns
    <3>1. ASSUME NEW a \in Pending, NEW s \in Sess, who \in Sess,
                 hsn' = [hsn EXCEPT ![who] = IF a.body.tok4 >= 0 /\ a.body.tok5 # Missing
                                             THEN a.body.tok4 ELSE @],
                 tsn' = [tsn EXCEPT ![who] = IF a.body.tok4 >= 0 /\ a.body.tok5 >= 0
                                             THEN a.body.tok5 ELSE @],
                 tsn'[s] > 0
          PROVE  hsn'[s] = HostSessionId
      <4>1. a.body.tok4 \in Int /\ a.body.tok5 \in Int
        BY <1>0, QueuesTyped DEF Body
      <4>2. a.body.tok4 < 0 \/ a.body.tok4 = HostSessionId \/ a.body.tok5 = 0
        BY DEF NumbersInv
      <4>3. tsn[s] > 0 => hsn[s] = HostSessionId
        BY DEF NumbersInv
      <4>4. CASE s # who
        BY <1>0, <3>1, <4>3, <4>4 DEF TypeOK
      <4>5. CASE s = who
        <5>1. /\ hsn'[s] = IF a.body.tok4 >= 0 /\ a.body.tok5 # Missing THEN a.body.tok4 ELSE hsn[s]
              /\ tsn'[s] = IF a.body.tok4 >= 0 /\ a.body.tok5 >= 0 THEN a.body.tok5 ELSE tsn[s]
          BY <1>0, <3>1, <4>5 DEF TypeOK
        <5> QED BY <3>1, <4>1, <4>2, <4>3, <5>1 DEF Missing, HostSessionId
      <4> QED BY <4>4, <4>5
    <3>2. /\ who \in Sess
          /\ \/ tsn' = tsn /\ hsn' = hsn
             \/ \E a \in Pending :
                  /\ hsn' = [hsn EXCEPT ![who] = IF a.body.tok4 >= 0 /\ a.body.tok5 # Missing
                                                 THEN a.body.tok4 ELSE @]
                  /\ tsn' = [tsn EXCEPT ![who] = IF a.body.tok4 >= 0 /\ a.body.tok5 >= 0
                                                 THEN a.body.tok5 ELSE @]
      BY <2>2, StartTakes
    <3> QED BY <2>1, <3>1, <3>2
  <2> QED BY <1>0, <2>1, <2>2, NumbersKept
<1>2. \A p \in Waiting' : p.tsn > 0 => p.hsn = HostSessionId
  <2>1. Deliver => InCall
    BY DeliverBusy
  <2> QED BY <1>0, <2>1, WaitingFrom DEF NumbersInv
<1>3. InCall' /\ busy'.tsn > 0 => busy'.hsn = HostSessionId
  <2>1. ASSUME NEW s \in Sess, NEW op \in Ops, NEW in, Send(s, op, in)
        PROVE  busy'.tsn > 0 => busy'.hsn = HostSessionId
    <3>1. busy' = [id |-> serial + 1, op |-> op, hsn |-> hsn[s], tsn |-> tsn[s], sess |-> s]
      BY <1>0, <2>1, SendTypes
    <3> QED BY <3>1 DEF NumbersInv
  <2>2. CASE Program
    <3>1. (\E s \in Sess, op \in Ops : \E in : Send(s, op, in)) \/ (pc' \in {pc, "dtor"} /\ pc = "idle")
      BY <2>2 DEF Program, Create, Start, Command, DontAutoClose, Close, CloseOpened, Destroy,
        RunDeviceFunction, Ops, Usable, Idle, threadVars
    <3> QED BY <2>1, <3>1 DEF InCall
  <2>3. CASE Destructor \/ SecondCommand
    <3>1. (\E op \in Ops : \E in : Send(who, op, in)) \/ pc' = "idle"
      BY <2>3 DEF Destructor, SecondCommand, CloseOpened, Bury, Ops
    <3>2. who \in Sess
      BY <1>0 DEF TypeOK
    <3> QED BY <2>1, <3>1, <3>2 DEF InCall
  <2>4. CASE StartReturns \/ SendReturns \/ AuthReturns \/ CloseReturns
    BY <2>4 DEF StartReturns, SendReturns, AuthReturns, CloseReturns, Bury, InCall
  <2>5. CASE pc' = pc /\ busy' = busy
    BY <2>5 DEF NumbersInv, InCall
  <2>6. CASE Deliver \/ Lose \/ UNCHANGED vars
    BY <2>5, <2>6 DEF Deliver, Lose, Rpc!Deliver, Rpc!Lose, vars, threadVars, rpcVars
  <2>7. CASE TPer \/ TPerOdd \/ TPerAbort
    BY <2>5, <2>7, TPerFrame
  <2> QED BY <2>2, <2>3, <2>4, <2>6, <2>7 DEF Next, Library
<1>4. ASSUME NEW a \in Pending'
      PROVE  a.body.tok4 < 0 \/ a.body.tok4 = HostSessionId \/ a.body.tok5 = 0
  <2>1. CASE a \in Pending
    BY <2>1 DEF NumbersInv
  <2>2. CASE a \notin Pending
    <3>1. Range(<<>>) = {} /\ (outbox # <<>> => Range(Tail(outbox)) \subseteq Range(outbox))
      BY <1>0, RangeEmpty, RangeTail DEF Queues
    <3>2. PICK b \in Body : Answers(b) /\ (b.tok4 < 0 \/ b.tok4 = HostSessionId \/ b.tok5 = 0)
      BY <1>0, <2>2, <3>1, OutboxFrom DEF Pending
    <3>3. a = [to |-> Asked, body |-> b]
      BY <1>0, <2>2, <3>2, AnswerQueues
    <3> QED BY <3>2, <3>3
  <2> QED BY <2>1, <2>2
<1> QED BY <1>1, <1>2, <1>3, <1>4 DEF NumbersInv

\* What the last two invariants build on.
HoldInv == CallsInv /\ OwnInv /\ HeldInv /\ NumbersInv

(***************************************************************************)
(* A session the TPer gave out is known to one holder only, the answer     *)
(* that announces it or the object that took it, always together with the  *)
(* host's number 105 (tcg_session_impl.cc:90, 135-155).                    *)
(***************************************************************************)
THEOREM HoldCorrect == Spec => []HoldInv
<1>1. Init => HeldInv /\ NumbersInv
  <2> SUFFICES ASSUME Init PROVE HeldInv /\ NumbersInv
    OBVIOUS
  <2>1. Len(<<>>) = 0 /\ outbox = <<>>
    BY DEF Init, Rpc!RpcInit
  <2>2. Once(outbox)
    BY <2>1 DEF Once
  <2>3. \A s \in Sess : ~(tsn[s] > 0)
    BY DEF Init
  <2>4. ~InCall
    BY DEF Init, InCall
  <2> QED BY <2>2, <2>3, <2>4, InitCalls DEF HeldInv, NumbersInv
<1>2. CallsInv /\ OwnInv /\ HeldInv /\ NumbersInv /\ [Next]_vars => HeldInv' /\ NumbersInv'
  BY HeldStep, NumbersStep
<1> QED BY <1>1, <1>2, CallsCorrect, OwnCorrect, PTL DEF Spec, HoldInv

-----------------------------------------------------------------------------
(* What an object believes *)

Sound(s) == trouble[s] \cap {"unclean", "odd", "abort"} = {}

\* revertTPer, once the drive may have reverted.
Reverting(s) == s = who /\ prog = "revert" /\ pc \in {"inSend", "dtor"}

\* Between Revert and the destruction of the object.
RevertSent(s) == s = who /\ prog = "revert" /\ pc \in {"inSend", "dtor", "inDtor"}

(***************************************************************************)
(* An open object's session is open, also while calls are under way and    *)
(* commands of calls that gave up are still on their way: no command       *)
(* waiting in the TPer will close the session of an object that has been   *)
(* opened again since.                                                     *)
(***************************************************************************)
BeliefInv ==
  /\ \A s \in Sess : life[s] = "alive" /\ opened[s] /\ Sound(s) /\ ~Reverting(s) =>
       tsn[s] \in tper /\ owner[tsn[s]] = s
  /\ \A a \in Pending : a.body.tok5 > 0 /\ "abort" \notin trouble[a.to.sess] => a.body.tok5 \in tper
  /\ \A p \in Waiting : p.op = "Revert" => life[p.sess] = "dead" \/ RevertSent(p.sess)
  /\ \A p \in Waiting : p.op = "EndOfSession" /\ p.tsn > 0 /\ opened[p.sess] /\ Sound(p.sess) =>
       tsn[p.sess] # p.tsn

\* Steps of the thread that open nothing.
LEMMA BeliefThread ==
  ASSUME HoldInv, BeliefInv, [Next]_vars, UNCHANGED <<tsn, tper, owner>>,
         Pending' \subseteq Pending, Waiting' = Waiting,
         \A s \in Sess : opened'[s] => opened[s],
         \A s \in Sess : life'[s] = "alive" /\ opened'[s] /\ (Reverting(s) => Reverting(s)')
                          => life[s] = "alive",
         \A s \in Sess : Reverting(s) => Reverting(s)' \/ ~(life'[s] = "alive" /\ opened'[s]),
         \A s \in Sess : life[s] = "dead" \/ RevertSent(s) => life'[s] = "dead" \/ RevertSent(s)'
  PROVE  BeliefInv'
<1>0. TypeOK
  BY DEF HoldInv, CallsInv
<1>1. \A s \in Sess : trouble[s] \subseteq trouble'[s] /\ (Sound(s)' => Sound(s))
  BY <1>0, HistoryGrows DEF Sound
<1>2. ASSUME NEW s \in Sess, life'[s] = "alive", opened'[s], Sound(s)', ~Reverting(s)'
      PROVE  tsn'[s] \in tper' /\ owner'[tsn'[s]] = s
  BY <1>1, <1>2 DEF BeliefInv
<1>3. ASSUME NEW a \in Pending', a.body.tok5 > 0, "abort" \notin trouble'[a.to.sess]
      PROVE  a.body.tok5 \in tper'
  BY <1>0, <1>1, <1>3, QueuesTyped DEF BeliefInv
<1>4. ASSUME NEW p \in Waiting', p.op = "Revert"
      PROVE  life'[p.sess] = "dead" \/ RevertSent(p.sess)'
  BY <1>0, <1>4, QueuesTyped DEF BeliefInv
<1>5. ASSUME NEW p \in Waiting', p.op = "EndOfSession", p.tsn > 0, opened'[p.sess], Sound(p.sess)'
      PROVE  tsn'[p.sess] # p.tsn
  BY <1>0, <1>1, <1>5, QueuesTyped DEF BeliefInv
<1> HIDE DEF Reverting, RevertSent, Sound
<1> QED BY <1>2, <1>3, <1>4, <1>5 DEF BeliefInv

\* Steps that leave the queues and the TPer alone.
LEMMA ThreadQueues ==
  ASSUME TypeOK, Program \/ Destructor \/ SecondCommand
  PROVE  UNCHANGED <<inbox, outbox, tper, owner, ran, tsn, hsn>>
<1>1. (\E s, op, in : Send(s, op, in)) \/ UNCHANGED rpcVars
  BY DEF Program, Create, Start, Command, DontAutoClose, Close, CloseOpened, Destroy,
    RunDeviceFunction, Destructor, SecondCommand
<1>2. UNCHANGED <<tper, owner, ran, tsn, hsn>>
  BY DEF Program, Create, Start, Command, DontAutoClose, Close, Destroy, RunDeviceFunction,
    Destructor, SecondCommand, tperVars, objVars
<1> QED BY <1>1, <1>2 DEF Send, Rpc!Call, rpcVars

LEMMA ReturnFrame ==
  ASSUME TypeOK, SendReturns \/ AuthReturns \/ CloseReturns
  PROVE  /\ ExecReturns /\ InCall /\ pc # "inStart"
         /\ UNCHANGED <<opened, hsn, tsn, who, tper, owner, ran>>
         /\ Pending' \subseteq Pending /\ Waiting' = Waiting
         /\ \/ /\ life' = life /\ prog' = prog /\ pc' \in {"idle", "dtor"}
               /\ pc' = "idle" => prog = "user" \/ pc \in {"inAuth", "inClose"}
            \/ pc = "inDtor" /\ Bury
<1>1. ExecReturns /\ InCall
  BY DEF SendReturns, AuthReturns, CloseReturns, InCall
<1>2. Pending' \subseteq Pending /\ Waiting' = Waiting
  BY <1>1, TypedQueues, ReturnQueues
<1>3. CASE SendReturns
  BY <1>1, <1>2, <1>3 DEF SendReturns, tperVars
<1>4. CASE AuthReturns
  BY <1>1, <1>2, <1>4 DEF AuthReturns, tperVars, objVars
<1>5. CASE CloseReturns
  BY <1>1, <1>2, <1>5 DEF CloseReturns, tperVars
<1> QED BY <1>3, <1>4, <1>5

LEMMA BeliefProgram ==
  ASSUME HoldInv, BeliefInv, Program
  PROVE  BeliefInv'
<1>0. TypeOK /\ CallInv
  BY DEF HoldInv, CallsInv
<1>1. /\ UNCHANGED <<tsn, tper, owner>> /\ Pending' \subseteq Pending /\ Waiting' = Waiting
      /\ [Next]_vars
  BY <1>0, ThreadQueues DEF Pending, Waiting, Next
<1>2. PICK s \in Sess :
        \/ Create(s) \/ Start(s) \/ \E op \in Ops : Command(s, op)
        \/ DontAutoClose(s) \/ Close(s) \/ Destroy(s)
        \/ \E f \in {"revert", "msid"} : RunDeviceFunction(s, f)
  BY DEF Program
<1>3. pc = "idle" /\ prog = "user"
  BY <1>0, <1>2 DEF Create, Start, Command, DontAutoClose, Close, Destroy, RunDeviceFunction, Usable,
    Idle, CallInv, ThreadInv, TypeOK
<1>4. \A u \in Sess : opened'[u] => opened[u]
  BY <1>0, <1>2 DEF Create, Start, Command, DontAutoClose, Close, CloseOpened, Destroy,
    RunDeviceFunction, objVars, TypeOK
<1>5. life' = life \/ (life[s] = "unborn" /\ life' = [life EXCEPT ![s] = "alive"] /\ ~opened'[s])
  BY <1>0, <1>2 DEF Create, Start, Command, DontAutoClose, Close, Destroy, RunDeviceFunction, objVars,
    CallInv, ThreadInv
<1>6. \A u \in Sess : ~Reverting(u) /\ ~RevertSent(u)
  BY <1>3 DEF Reverting, RevertSent
<1>7. \A u \in Sess : life'[u] = "alive" /\ opened'[u] => life[u] = "alive"
  BY <1>0, <1>5 DEF TypeOK
<1>8. \A u \in Sess : life[u] = "dead" => life'[u] = "dead"
  BY <1>0, <1>5 DEF TypeOK
<1> QED BY <1>1, <1>4, <1>6, <1>7, <1>8, BeliefThread

LEMMA BeliefCalls ==
  ASSUME HoldInv, BeliefInv,
         Destructor \/ SecondCommand \/ SendReturns \/ AuthReturns \/ CloseReturns
  PROVE  BeliefInv'
<1>0. TypeOK /\ CallInv /\ who \in Sess
  BY DEF HoldInv, CallsInv, TypeOK
<1>1. /\ UNCHANGED <<tsn, tper, owner>> /\ Pending' \subseteq Pending /\ Waiting' = Waiting
      /\ [Next]_vars
  BY <1>0, ThreadQueues, ReturnFrame DEF Pending, Waiting, Next, Library
<1> DEFINE Opens == \A s \in Sess : opened'[s] => opened[s]
           Lives == \A s \in Sess : life'[s] = "alive" => life[s] = "alive"
           Dies == \A s \in Sess : life[s] = "dead" => life'[s] = "dead"
           Reverts == Reverting(who) => Reverting(who)' \/ ~(life'[who] = "alive" /\ opened'[who])
           Sent == RevertSent(who) => life'[who] = "dead" \/ RevertSent(who)'
<1>2. SUFFICES Opens /\ Lives /\ Dies /\ Reverts /\ Sent /\ who' = who
  <2>1. \A s \in Sess : s # who => ~Reverting(s) /\ ~RevertSent(s)
    BY DEF Reverting, RevertSent
  <2>2. \A s \in Sess : Reverting(s) => Reverting(s)' \/ ~(life'[s] = "alive" /\ opened'[s])
    BY <1>2, <2>1
  <2>3. \A s \in Sess : life[s] = "dead" \/ RevertSent(s) => life'[s] = "dead" \/ RevertSent(s)'
    BY <1>2, <2>1
  <2>4. \A s \in Sess : life'[s] = "alive" /\ opened'[s] /\ (Reverting(s) => Reverting(s)')
                          => life[s] = "alive"
    BY <1>2
  <2> QED BY <1>1, <1>2, <2>2, <2>3, <2>4, BeliefThread
<1>3. CASE Destructor
  <2>1. CASE CloseOpened(who, "inDtor") /\ UNCHANGED <<life, prog>>
    <3>1. /\ opened' = [opened EXCEPT ![who] = FALSE] /\ pc' = "inDtor" /\ who' = who
          /\ life' = life /\ prog' = prog
      BY <1>3, <2>1 DEF Destructor, CloseOpened, Send
    <3> QED BY <1>0, <3>1 DEF TypeOK, Reverting, RevertSent
  <2>2. CASE Bury /\ UNCHANGED <<opened, serial, ends, rpcVars>>
    <3>1. opened' = opened /\ life' = [life EXCEPT ![who] = "dead"] /\ who' = who
      BY <1>3, <2>2 DEF Destructor, Bury
    <3> QED BY <1>0, <3>1 DEF TypeOK
  <2> QED BY <1>3, <2>1, <2>2 DEF Destructor
<1>4. CASE SecondCommand
  <2>1. UNCHANGED <<life, opened, who, prog>> /\ pc = "started"
    BY <1>4 DEF SecondCommand, objVars
  <2> QED BY <1>0, <2>1 DEF Reverting, RevertSent
<1>5. CASE SendReturns \/ AuthReturns \/ CloseReturns
  <2>1. opened' = opened /\ who' = who
    BY <1>0, <1>5, ReturnFrame
  <2>2. CASE life' = life /\ prog' = prog /\ pc' \in {"idle", "dtor"}
             /\ (pc' = "idle" => prog = "user" \/ pc \in {"inAuth", "inClose"})
    <3>1. pc' = "idle" => prog = "user"
      BY <1>0, <2>2 DEF CallInv, ThreadInv
    <3>2. Opens /\ Lives /\ Dies /\ Reverts /\ Sent
      BY <2>1, <2>2, <3>1 DEF Reverting, RevertSent
    <3> QED BY <2>1, <3>2
  <2>3. CASE pc = "inDtor" /\ Bury
    <3>1. life' = [life EXCEPT ![who] = "dead"]
      BY <2>3 DEF Bury
    <3>2. Opens /\ Lives /\ Dies /\ Reverts /\ Sent
      BY <1>0, <2>1, <3>1 DEF TypeOK
    <3> QED BY <2>1, <3>2
  <2> QED BY <1>0, <1>5, <2>2, <2>3, ReturnFrame
<1> QED BY <1>3, <1>4, <1>5

LEMMA BeliefDelivery ==
  ASSUME HoldInv, BeliefInv, Deliver \/ Lose \/ UNCHANGED vars
  PROVE  BeliefInv'
<1>0. TypeOK /\ CallInv /\ CallsInv /\ Queues /\ [Next]_vars
  BY TypedQueues DEF HoldInv, CallsInv, Next, Library
<1>1. UNCHANGED <<objVars, threadVars, tper, owner>> /\ Pending' \subseteq Pending
  <2>1. CASE Deliver
    BY <1>0, <2>1, DeliverQueues DEF Deliver, Pending, tperVars
  <2>2. CASE Lose
    BY <1>0, <2>2, LoseQueues DEF Lose, tperVars
  <2>3. CASE UNCHANGED vars
    BY <2>3 DEF vars, tperVars, rpcVars, Pending
  <2> QED BY <2>1, <2>2, <2>3
<1>2. CASE Waiting' = Waiting
  <2>1. \A s \in Sess : (Reverting(s)' <=> Reverting(s)) /\ (RevertSent(s)' <=> RevertSent(s))
    BY <1>1 DEF Reverting, RevertSent, threadVars
  <2> HIDE DEF Reverting, RevertSent
  <2> QED BY <1>0, <1>1, <1>2, <2>1, BeliefThread DEF objVars
<1>3. CASE Deliver /\ Waiting' = Waiting \cup {busy}
  <2>1. InCall /\ busy \in Packet /\ busy.sess = who /\ who \in Sess
    BY <1>0, <1>3, DeliverBusy
  <2>2. \A s \in Sess : trouble[s] \subseteq trouble'[s] /\ (Sound(s)' => Sound(s))
    BY <1>0, HistoryGrows DEF Sound
  <2>3. UNCHANGED <<life, opened, tsn, who, prog, pc, tper, owner>>
    BY <1>1 DEF objVars, threadVars
  <2>4. \A s \in Sess : (Reverting(s)' <=> Reverting(s)) /\ (RevertSent(s)' <=> RevertSent(s))
    BY <2>3 DEF Reverting, RevertSent
  <2>5. busy.op = "Revert" => RevertSent(busy.sess)
    BY <1>0, <2>1 DEF CallInv, BusyInv, InCall, RevertSent
  <2>6. busy.op = "EndOfSession" => ~opened[busy.sess]
    BY <1>0, <2>1 DEF CallInv, BusyInv, ThreadInv, InCall
  <2> HIDE DEF Reverting, RevertSent, Sound
  <2>7. \A s \in Sess : life'[s] = "alive" /\ opened'[s] /\ Sound(s)' /\ ~Reverting(s)' =>
          tsn'[s] \in tper' /\ owner'[tsn'[s]] = s
    BY <2>2, <2>3, <2>4 DEF BeliefInv
  <2>8. ASSUME NEW a \in Pending', a.body.tok5 > 0, "abort" \notin trouble'[a.to.sess]
        PROVE  a.body.tok5 \in tper'
    BY <1>0, <1>1, <2>2, <2>3, <2>8, QueuesTyped DEF BeliefInv
  <2>9. ASSUME NEW p \in Waiting', p.op = "Revert"
        PROVE  life'[p.sess] = "dead" \/ RevertSent(p.sess)'
    <3>1. p.sess \in Sess
      BY <1>0, <1>3, <2>1, QueuesTyped
    <3> QED BY <1>3, <2>3, <2>4, <2>5, <2>9, <3>1 DEF BeliefInv
  <2>10. ASSUME NEW p \in Waiting', p.op = "EndOfSession", p.tsn > 0, opened'[p.sess], Sound(p.sess)'
         PROVE  tsn'[p.sess] # p.tsn
    <3>1. p.sess \in Sess
      BY <1>0, <1>3, <2>1, QueuesTyped
    <3> QED BY <1>3, <2>2, <2>3, <2>6, <2>10, <3>1 DEF BeliefInv
  <2> QED BY <2>7, <2>8, <2>9, <2>10 DEF BeliefInv
<1>4. Waiting' = Waiting \/ (Deliver /\ Waiting' = Waiting \cup {busy})
  <2>1. CASE Deliver
    BY <1>0, <2>1, DeliverQueues DEF Deliver
  <2>2. CASE Lose
    BY <1>0, <2>2, LoseQueues DEF Lose, Waiting
  <2>3. CASE UNCHANGED vars
    BY <2>3 DEF vars, rpcVars, Waiting
  <2> QED BY <2>1, <2>2, <2>3
<1> QED BY <1>2, <1>3, <1>4

\* start: what it takes for its session is its session, and still open.
LEMMA BeliefStart ==
  ASSUME HoldInv, BeliefInv, StartReturns
  PROVE  BeliefInv'
<1>0. TypeOK /\ CallsInv /\ CallInv /\ CleanInv /\ HeldInv /\ Queues /\ [Next]_vars
  BY TypedQueues DEF HoldInv, CallsInv, Next, Library
<1>1. /\ ExecReturns /\ InCall /\ who \in Sess /\ pc = "inStart"
      /\ UNCHANGED <<life, autoClose, who, prog, tper, owner, ran>>
  BY <1>0, StartTakes
<1>2. Pending' \subseteq Pending /\ Waiting' = Waiting
  BY <1>0, <1>1, ReturnQueues
<1>3. \A s \in Sess : ~Reverting(s) /\ ~RevertSent(s)
  BY <1>1 DEF Reverting, RevertSent
<1>4. CASE UNCHANGED <<opened, tsn>>
  BY <1>0, <1>1, <1>2, <1>3, <1>4, BeliefThread
<1>5. ASSUME NEW a \in Pending, AnswerOK(a), a.body.class # "refused",
             opened' = [opened EXCEPT ![who] = TRUE],
             tsn' = [tsn EXCEPT ![who] = IF a.body.tok4 >= 0 /\ a.body.tok5 >= 0
                                         THEN a.body.tok5 ELSE @]
      PROVE  BeliefInv'
  <2>1. \A s \in Sess : trouble[s] \subseteq trouble'[s] /\ (Sound(s)' => Sound(s))
    BY <1>0, HistoryGrows DEF Sound
  <2>2. \A s \in Sess : s # who => opened'[s] = opened[s] /\ tsn'[s] = tsn[s]
    BY <1>0, <1>5 DEF TypeOK
  <2>3. Sound(who) => /\ tsn'[who] = a.body.tok5 /\ a.body.tok5 > 0
                      /\ a.body.tok5 \in tper /\ owner[a.body.tok5] = who
    <3> SUFFICES ASSUME Sound(who)
                 PROVE  /\ tsn'[who] = a.body.tok5 /\ a.body.tok5 > 0
                        /\ a.body.tok5 \in tper /\ owner[a.body.tok5] = who
      OBVIOUS
    <3>1. trouble[who] \cap {"unclean", "odd", "abort"} = {}
      BY DEF Sound
    <3>2. "unclean" \notin trouble[who] /\ "odd" \notin trouble[who] /\ "abort" \notin trouble[who]
      BY <3>1
    <3>3. a.to.sess = who /\ a.to.op = "StartSession"
      BY <1>0, <1>1, <3>2 DEF CleanInv, CallInv, BusyInv
    <3>4. a.body # Refusal
      BY <1>5 DEF Refusal, Tokens
    <3>5. a.body.tok5 > 0 /\ a.body = SyncSession(a.body.tok5) /\ owner[a.body.tok5] = who
      BY <1>5, <3>2, <3>3, <3>4 DEF AnswerOK
    <3>6. a.body.tok4 >= 0 /\ a.body.tok5 >= 0
      BY <1>0, <3>5, QueuesTyped DEF SyncSession, Tokens, HostSessionId
    <3>7. tsn'[who] = a.body.tok5
      <4>1. tsn \in [Sess -> Nat]
        BY <1>0 DEF TypeOK
      <4> QED BY <1>1, <1>5, <3>6, <4>1
    <3>8. a.body.tok5 \in tper
      BY <3>2, <3>3, <3>5 DEF BeliefInv
    <3> QED BY <3>5, <3>7, <3>8
  <2> HIDE DEF Reverting, RevertSent, Sound
  <2>4. ASSUME NEW s \in Sess, life'[s] = "alive", opened'[s], Sound(s)', ~Reverting(s)'
        PROVE  tsn'[s] \in tper' /\ owner'[tsn'[s]] = s
    <3>1. CASE s = who
      BY <1>1, <2>1, <2>3, <2>4, <3>1
    <3>2. CASE s # who
      BY <1>1, <1>3, <2>1, <2>2, <2>4, <3>2 DEF BeliefInv
    <3> QED BY <3>1, <3>2
  <2>5. ASSUME NEW x \in Pending', x.body.tok5 > 0, "abort" \notin trouble'[x.to.sess]
        PROVE  x.body.tok5 \in tper'
    BY <1>0, <1>1, <1>2, <2>1, <2>5, QueuesTyped DEF BeliefInv
  <2>6. ASSUME NEW p \in Waiting', p.op = "Revert"
        PROVE  life'[p.sess] = "dead" \/ RevertSent(p.sess)'
    BY <1>0, <1>1, <1>2, <1>3, <2>6, QueuesTyped DEF BeliefInv
  <2>7. ASSUME NEW p \in Waiting', p.op = "EndOfSession", p.tsn > 0, opened'[p.sess], Sound(p.sess)'
        PROVE  tsn'[p.sess] # p.tsn
    <3>1. p \in Waiting /\ p.sess \in Sess
      BY <1>0, <1>2, <2>7, QueuesTyped
    <3>2. CASE p.sess = who
      <4>1. p.tsn # a.body.tok5
        BY <1>0, <2>1, <2>3, <2>7, <3>1, <3>2 DEF HeldInv
      <4> QED BY <2>1, <2>3, <2>7, <3>1, <3>2, <4>1
    <3>3. CASE p.sess # who
      BY <2>1, <2>2, <2>7, <3>1, <3>3 DEF BeliefInv
    <3> QED BY <3>2, <3>3
  <2> QED BY <2>4, <2>5, <2>6, <2>7 DEF BeliefInv
<1> QED BY <1>0, <1>1, <1>4, <1>5, StartTakes

\* A session is closed by a command for it, or its owner knows of it.
LEMMA TPerCloses ==
  ASSUME TypeOK, TPer \/ TPerOdd \/ TPerAbort, NEW t \in tper, t \notin tper'
  PROVE  \/ "abort" \in trouble'[owner[t]]
         \/ /\ inbox # <<>> /\ InSession /\ Asked.tsn = t
            /\ Asked.op \in {"EndOfSession", "Revert"}
<1>1. Len(owner) \in Nat /\ t \in 1..Len(owner) /\ owner[t] \in Sess
  BY LenProperties, ElementOfSeq DEF TypeOK
<1>2. CASE TPerEnd
  BY <1>2 DEF TPerEnd
<1>3. CASE TPerRevert
  BY <1>1, <1>3 DEF TPerRevert
<1>4. CASE TPerAbort
  <2>1. PICK u \in tper : tper' = tper \ {u} /\ Note(owner[u], "abort")
    BY <1>4 DEF TPerAbort
  <2>2. u = t
    BY <2>1
  <2> QED BY <1>1, <2>1, <2>2 DEF Note, TypeOK
<1>5. CASE tper \subseteq tper'
  BY <1>5
<1>6. CASE TPerStart \/ TPerRefuse \/ TPerMethod \/ TPerIgnore \/ TPerOdd
  BY <1>5, <1>6 DEF TPerStart, TPerRefuse, TPerMethod, TPerIgnore, TPerOdd, OpenSession, tperVars
<1> QED BY <1>2, <1>3, <1>4, <1>6 DEF TPer

LEMMA BeliefTPer ==
  ASSUME HoldInv, BeliefInv, TPer \/ TPerOdd \/ TPerAbort
  PROVE  BeliefInv'
<1>0. TypeOK /\ CallsInv /\ CallInv /\ HeldInv /\ Queues /\ [Next]_vars
  BY TypedQueues DEF HoldInv, CallsInv, Next
<1>1. UNCHANGED <<life, opened, tsn, who, prog, pc>>
  BY TPerFrame
<1>2. Waiting' \subseteq Waiting
  BY <1>0, <1>1, WaitingFrom, QueueSteps, TPerCases, AnswerQueues, IgnoreQueues
     DEF TPerAbort, rpcVars, Waiting
<1>3. /\ \A s \in Sess : trouble[s] \subseteq trouble'[s] /\ (Sound(s)' => Sound(s))
      /\ \A t \in 1..Len(owner) : owner'[t] = owner[t]
  BY <1>0, HistoryGrows DEF Sound
<1>4. \A s \in Sess : (Reverting(s)' <=> Reverting(s)) /\ (RevertSent(s)' <=> RevertSent(s))
  BY <1>1 DEF Reverting, RevertSent
<1>5. \A s \in Sess : "abort" \in trouble'[s] => ~Sound(s)'
  BY DEF Sound
<1>6. \A s \in Sess : opened[s] => ~RevertSent(s) \/ Reverting(s)
  BY <1>0 DEF RevertSent, Reverting, CallInv, ThreadInv
<1> HIDE DEF Reverting, RevertSent, Sound
<1>7. ASSUME NEW s \in Sess, life'[s] = "alive", opened'[s], Sound(s)', ~Reverting(s)'
      PROVE  tsn'[s] \in tper' /\ owner'[tsn'[s]] = s
  <2>1. tsn[s] \in tper /\ owner[tsn[s]] = s
    BY <1>1, <1>3, <1>4, <1>7 DEF BeliefInv
  <2>2. ASSUME tsn[s] \notin tper' PROVE FALSE
    <3>1. inbox # <<>> /\ Asked.tsn = tsn[s] /\ Asked.op \in {"EndOfSession", "Revert"}
      BY <1>0, <1>5, <1>7, <2>1, <2>2, TPerCloses
    <3>2. Asked \in Waiting /\ tsn[s] > 0
      BY <1>0, <2>1, <3>1, AskedQueues DEF TypeOK
    <3>3. s = Asked.sess
      BY <1>0, <3>1, <3>2 DEF HeldInv
    <3>4. CASE Asked.op = "EndOfSession"
      BY <1>1, <1>3, <1>7, <3>1, <3>2, <3>3, <3>4 DEF BeliefInv
    <3>5. CASE Asked.op = "Revert"
      BY <1>1, <1>4, <1>6, <1>7, <3>2, <3>3, <3>5 DEF BeliefInv
    <3> QED BY <3>1, <3>4, <3>5
  <2>3. owner'[tsn[s]] = s
    BY <1>0, <1>3, <2>1 DEF TypeOK
  <2> QED BY <1>1, <2>2, <2>3
<1>8. ASSUME NEW a \in Pending', a.body.tok5 > 0, "abort" \notin trouble'[a.to.sess]
      PROVE  a.body.tok5 \in tper'
  <2>1. CASE a \in Pending
    <3>1. a.to.sess \in Sess /\ a.body.tok5 \in tper
      BY <1>0, <1>3, <1>8, <2>1, QueuesTyped DEF BeliefInv
    <3>2. owner[a.body.tok5] = a.to.sess
      BY <1>0, <1>8, <2>1 DEF CallsInv, AnswerInv, AnswerOK
    <3>3. ASSUME a.body.tok5 \notin tper' PROVE FALSE
      <4>1. inbox # <<>> /\ Asked.tsn = a.body.tok5
        BY <1>0, <1>8, <3>1, <3>2, <3>3, TPerCloses
      <4> QED BY <1>0, <1>8, <2>1, <4>1, AskedQueues DEF HeldInv
    <3> QED BY <3>3
  <2>2. CASE a \notin Pending
    <3>1. Range(<<>>) = {} /\ (outbox # <<>> => Range(Tail(outbox)) \subseteq Range(outbox))
      BY <1>0, RangeEmpty, RangeTail DEF Queues
    <3>2. PICK b \in Body : /\ Answers(b)
                            /\ \/ ~(b.tok5 > 0)
                               \/ TPerStart /\ inbox # <<>> /\ OpenSession /\ b = SyncSession(NextTsn)
      BY <1>0, <2>2, <3>1, OutboxFrom DEF Pending
    <3>3. a = [to |-> Asked, body |-> b]
      BY <1>0, <2>2, <3>2, AnswerQueues
    <3>4. OpenSession /\ b = SyncSession(NextTsn)
      BY <1>8, <3>2, <3>3
    <3> QED BY <3>3, <3>4 DEF OpenSession, SyncSession, Tokens
  <2> QED BY <2>1, <2>2
<1>9. ASSUME NEW p \in Waiting', p.op = "Revert"
      PROVE  life'[p.sess] = "dead" \/ RevertSent(p.sess)'
  BY <1>0, <1>1, <1>2, <1>4, <1>9, QueuesTyped DEF BeliefInv
<1>10. ASSUME NEW p \in Waiting', p.op = "EndOfSession", p.tsn > 0, opened'[p.sess], Sound(p.sess)'
      PROVE  tsn'[p.sess] # p.tsn
  BY <1>0, <1>1, <1>2, <1>3, <1>10, QueuesTyped DEF BeliefInv
<1> QED BY <1>7, <1>8, <1>9, <1>10 DEF BeliefInv

(***************************************************************************)
(* An open object's session is open in the TPer at every step of every     *)
(* call, and no command still waiting in the TPer will close it            *)
(* (tcg_session_impl.cc:44-56, 135-155).                                   *)
(***************************************************************************)
THEOREM BeliefCorrect == Spec => []BeliefInv
<1>1. Init => BeliefInv
  BY InitCalls DEF Init, BeliefInv
<1>2. HoldInv /\ BeliefInv /\ [Next]_vars => BeliefInv'
  BY BeliefProgram, BeliefCalls, BeliefDelivery, BeliefStart, BeliefTPer DEF Next, Library
<1> QED BY <1>1, <1>2, HoldCorrect, PTL DEF Spec

(***************************************************************************)
(* Between calls, an object that believes to be open has its own session   *)
(* open in the TPer (tcg_session_impl.cc:135-155), although commands and   *)
(* answers of calls that gave up may still be on their way.                *)
(***************************************************************************)
THEOREM BeliefsRight == Spec => []BeliefRight
<1>1. HoldInv /\ BeliefInv => BeliefRight
  <2> SUFFICES ASSUME HoldInv, BeliefInv, Idle, NEW s \in Sess, life[s] = "alive", opened[s],
                      trouble[s] \cap {"unclean", "odd", "abort"} = {}
               PROVE  tsn[s] \in tper /\ owner[tsn[s]] = s
    BY DEF BeliefRight
  <2>1. ~Reverting(s) /\ Sound(s)
    BY DEF Reverting, Sound, Idle
  <2> HIDE DEF Reverting, Sound
  <2> QED BY <2>1 DEF BeliefInv
<1> QED BY <1>1, HoldCorrect, BeliefCorrect, PTL

-----------------------------------------------------------------------------
(* No session is left behind *)

\* Nothing went wrong with object s, short of its session being closed by
\* somebody else.
Fine(s) == trouble[s] \subseteq {"abort"}

\* What will close session t, or has just been told its number: object o, the
\* answer start is waiting for, close, or the EndOfSession it sent.
ClaimedBy(o, t) ==
  \/ life[o] = "alive" /\ opened[o] /\ tsn[o] = t
  \/ pc = "inStart" /\ who = o /\ \E a \in Pending : a.body.tok5 = t
  \/ pc \in {"inClose", "inDtor"} /\ who = o /\ busy.tsn = t /\ sent = 0
  \/ \E p \in Waiting : p.op = "EndOfSession" /\ p.sess = o /\ p.tsn = t

\* start is the only call that opens a session, and leaves nothing behind.
StartInv ==
  /\ \A a \in Pending : a.body.tok5 > 0 /\ Fine(a.to.sess) => pc = "inStart" /\ who = a.to.sess
  /\ \A p \in Waiting : p.op = "StartSession" /\ Fine(p.sess) => pc = "inStart" /\ who = p.sess
  /\ pc = "inStart" /\ Fine(who) => ~opened[who]
  /\ pc = "started" /\ Fine(who) => inbox = <<>> /\ outbox = <<>>

\* revertTPer gives its session up only after a drive that reverted closed it.
RevertInv ==
  /\ pc = "inSend" /\ prog = "revert" /\ Fine(who) =>
       clean /\ \A a \in Pending : a.body.class = "refused" \/ tper = {}
  /\ \A s \in Sess : Fine(s) /\ life[s] = "alive" /\ ~autoClose[s] =>
       prog = "revert" /\ who = s /\ pc = "dtor" /\ inbox = <<>> /\ tper = {}

(***************************************************************************)
(* Every session of an object that is fine is claimed, at each step of the *)
(* call that opens, closes or reverts it.                                  *)
(***************************************************************************)
ClaimInv ==
  /\ \A t \in tper : Fine(owner[t]) => ClaimedBy(owner[t], t)
  /\ StartInv
  /\ RevertInv

\* A drive without an SSC is never asked anything.
DeviceInv ==
  device # "Opal" =>
    inbox = <<>> /\ outbox = <<>> /\ tper = {} /\ (InCall => sent = 0)

LEMMA DeviceStep ==
  ASSUME TypeOK, DeviceInv, [Next]_vars
  PROVE  DeviceInv'
<1>1. SUFFICES ASSUME device' # "Opal"
               PROVE  inbox' = <<>> /\ outbox' = <<>> /\ tper' = {} /\ (InCall' => sent' = 0)
  BY DEF DeviceInv
<1>2. device' = device
  <2>1. CASE Program
    BY <2>1 DEF Program, Create, Start, Command, DontAutoClose, Close, Destroy, RunDeviceFunction, setting
  <2>2. CASE Library \/ Lose \/ UNCHANGED vars
    BY <2>2 DEF Library, Destructor, SecondCommand, Deliver, StartReturns, SendReturns, AuthReturns,
      CloseReturns, Lose, vars, setting
  <2>3. CASE TPer \/ TPerOdd \/ TPerAbort
    BY <2>3, TPerFrame
  <2> QED BY <2>1, <2>2, <2>3 DEF Next
<1>3. inbox = <<>> /\ outbox = <<>> /\ tper = {} /\ (InCall => sent = 0)
  BY <1>1, <1>2 DEF DeviceInv
<1>4. CASE Program \/ Destructor \/ SecondCommand
  <2>1. UNCHANGED <<inbox, outbox, tper>>
    BY <1>4, ThreadQueues
  <2>2. (\E s, op, in : Send(s, op, in)) \/ ~InCall'
    BY <1>4 DEF Program, Create, Start, Command, DontAutoClose, Close, CloseOpened, Destroy,
      RunDeviceFunction, Destructor, SecondCommand, Bury, Usable, Idle, threadVars, InCall
  <2> QED BY <1>3, <2>1, <2>2 DEF Send, Rpc!Call
<1>5. CASE Deliver
  BY <1>1, <1>2, <1>5 DEF Deliver
<1>6. CASE StartReturns \/ SendReturns \/ AuthReturns \/ CloseReturns
  <2>1. ExecReturns /\ ~InCall' /\ tper' = tper
    BY <1>6 DEF StartReturns, SendReturns, AuthReturns, CloseReturns, Bury, InCall, tperVars
  <2> QED BY <1>3, <2>1, TypedQueues, ReturnQueues, ReturnCases DEF Fetches, FindsNothing, GivesUp,
         TurnsDown
<1>7. CASE Lose
  BY <1>3, <1>7 DEF Lose, Rpc!Lose
<1>8. CASE TPer \/ TPerOdd
  BY <1>3, <1>8, TypedQueues, TPerCases, AnswerQueues, IgnoreQueues
<1>9. CASE TPerAbort
  BY <1>3, <1>9 DEF TPerAbort
<1>10. CASE UNCHANGED vars
  BY <1>3, <1>10 DEF vars, rpcVars, threadVars, tperVars, InCall
<1> QED BY <1>4, <1>5, <1>6, <1>7, <1>8, <1>9, <1>10 DEF Next, Library

\* A call that went well, found nothing pending and met no answer it could not
\* hold leaves nothing pending.
LEMMA LeavesNothing ==
  ASSUME HoldInv, DeviceInv, [Next]_vars, ExecReturns, InCall, clean, trouble'[who] \subseteq {"abort"},
         outbox # <<>> => Fetches \/ Head(outbox).body.class # "oversize"
  PROVE  /\ inbox = <<>> /\ inbox' = <<>> /\ outbox' = <<>>
         /\ Fetches \/ outbox = <<>>
<1>0. TypeOK /\ CallsInv /\ CleanInv /\ Queues /\ who \in Sess
  BY TypedQueues DEF HoldInv, CallsInv, TypeOK
<1>1. inbox' = inbox
  BY <1>0, ReturnQueues
<1>2. trouble[who] \subseteq trouble'[who]
  BY <1>0, HistoryGrows
<1>3. "resend" \notin trouble[who] /\ Unserved \cap trouble'[who] = {}
  BY <1>2 DEF Unserved
<1>4. /\ Len(inbox) + Len(outbox) <= 1
      /\ Len(inbox) \in Nat /\ Len(outbox) \in Nat
      /\ (inbox = <<>> <=> Len(inbox) = 0) /\ (outbox = <<>> <=> Len(outbox) = 0)
  <2>1. /\ Len(inbox) \in Nat /\ Len(outbox) \in Nat /\ sent \in Nat
        /\ (inbox = <<>> <=> Len(inbox) = 0) /\ (outbox = <<>> <=> Len(outbox) = 0)
    BY <1>0, EmptySeq DEF Queues
  <2>2. sent <= 1 /\ Len(inbox) + Len(outbox) <= sent
    BY <1>0, <1>3 DEF CleanInv
  <2> QED BY <2>1, <2>2
<1>5. CASE Fetches
  <2>1. outbox # <<>> /\ Len(outbox') = Len(outbox) - 1
    BY <1>0, <1>5, FetchQueues DEF Fetches
  <2>2. Len(outbox) = 1 /\ Len(inbox) = 0
    BY <1>4, <2>1
  <2>3. outbox' = <<>>
    BY <1>0, <2>1, <2>2, ReturnQueues, RangeTail, EmptySeq DEF Queues, Fetches
  <2> QED BY <1>1, <1>4, <1>5, <2>2, <2>3
<1>6. CASE FindsNothing /\ ~Fetches
  BY <1>1, <1>6 DEF FindsNothing
<1>7. CASE GivesUp
  <2>1. \E kind \in Unserved : kind \in trouble'[who]
    BY <1>0, <1>7 DEF GivesUp, Noted, TypeOK
  <2> QED BY <1>3, <2>1
<1>8. CASE TurnsDown
  BY <1>1, <1>8 DEF TurnsDown, DeviceInv
<1> QED BY <1>0, <1>5, <1>6, <1>7, <1>8, ReturnCases

LEMMA ClaimProgram ==
  ASSUME HoldInv, ClaimInv, Program
  PROVE  ClaimInv'
<1>0. TypeOK /\ CallInv /\ [Next]_vars
  BY DEF HoldInv, CallsInv, Next
<1>1. UNCHANGED <<tsn, tper, owner, inbox, outbox>> /\ Pending' = Pending /\ Waiting' = Waiting
  BY <1>0, ThreadQueues DEF Pending, Waiting
<1>2. PICK s \in Sess :
        \/ Create(s) \/ Start(s) \/ \E op \in Ops : Command(s, op)
        \/ DontAutoClose(s) \/ Close(s) \/ Destroy(s)
        \/ \E f \in {"revert", "msid"} : RunDeviceFunction(s, f)
  BY DEF Program
<1>3. pc = "idle" /\ prog = "user"
  BY <1>0, <1>2 DEF Create, Start, Command, DontAutoClose, Close, Destroy, RunDeviceFunction, Usable,
    Idle, CallInv, ThreadInv, TypeOK
<1>4. \A u \in Sess : Fine(u)' => Fine(u)
  BY <1>0, HistoryGrows DEF Fine
<1>5. /\ pc' \in {"idle", "dtor", "inStart", "inSend", "inAuth", "inClose"}
      /\ pc' = "inSend" => prog' = "user"
  BY <1>2, <1>3 DEF Create, Start, Command, DontAutoClose, Close, CloseOpened, Destroy,
    RunDeviceFunction, Send, threadVars
<1>6. ASSUME NEW u \in Sess, life[u] = "alive", opened[u]
      PROVE  /\ life'[u] = "alive"
             /\ opened'[u] \/ (pc' = "inClose" /\ who' = u /\ busy'.tsn = tsn[u] /\ sent' = 0)
  <2>1. life'[u] = "alive"
    BY <1>0, <1>2, <1>6 DEF Create, Start, Command, DontAutoClose, Close, Destroy, RunDeviceFunction,
      objVars, TypeOK
  <2>2. CASE ~Close(s)
    BY <1>2, <1>6, <2>1, <2>2 DEF Create, Start, Command, DontAutoClose, Destroy, RunDeviceFunction,
      objVars
  <2>3. CASE Close(s)
    <3>1. /\ Send(s, "EndOfSession", "inClose") /\ opened' = [opened EXCEPT ![s] = FALSE]
          /\ who' = s
      BY <2>3 DEF Close, CloseOpened
    <3>2. /\ busy' = [id |-> serial + 1, op |-> "EndOfSession", hsn |-> hsn[s], tsn |-> tsn[s], sess |-> s]
          /\ sent' = 0 /\ pc' = "inClose"
      BY <1>0, <3>1, SendTypes DEF Ops
    <3>3. busy'.tsn = tsn[s]
      BY <3>2
    <3>4. u # s => opened'[u]
      BY <1>0, <1>6, <3>1 DEF TypeOK
    <3> QED BY <2>1, <3>1, <3>2, <3>3, <3>4
  <2> QED BY <2>2, <2>3
<1>7. ASSUME NEW u \in Sess, life'[u] = "alive", ~autoClose'[u], Fine(u)' PROVE FALSE
  <2>1. ~(life[u] = "alive" /\ ~autoClose[u])
    BY <1>3, <1>4, <1>7 DEF ClaimInv, RevertInv
  <2>2. CASE DontAutoClose(s)
    <3>1. "kept" \in trouble'[s] /\ life' = life /\ (u # s => autoClose'[u] = autoClose[u])
      BY <1>0, <2>2 DEF DontAutoClose, Note, TypeOK
    <3> QED BY <1>7, <2>1, <3>1 DEF Fine
  <2>3. CASE ~DontAutoClose(s)
    <3>1. autoClose' = autoClose
      BY <1>2, <2>3 DEF Create, Start, Command, Close, CloseOpened, Destroy, RunDeviceFunction, objVars
    <3>2. life' = life \/ (life[s] = "unborn" /\ life' = [life EXCEPT ![s] = "alive"])
      BY <1>2, <2>3 DEF Create, Start, Command, Close, Destroy, RunDeviceFunction, objVars
    <3>3. life[s] = "unborn" => autoClose[s]
      BY <1>0 DEF CallInv, ThreadInv
    <3> QED BY <1>0, <1>7, <2>1, <3>1, <3>2, <3>3 DEF TypeOK
  <2> QED BY <2>2, <2>3
<1>8. pc' = "inStart" /\ trouble'[who'] \subseteq {"abort"} => ~opened'[who']
  <2>1. CASE Start(s)
    <3>1. /\ who' = s /\ opened' = opened
          /\ opened[s] => "restart" \in trouble'[s]
      BY <1>0, <2>1 DEF Start, objVars, TypeOK
    <3> QED BY <3>1
  <2>2. ASSUME NEW f \in {"revert", "msid"}, RunDeviceFunction(s, f) PROVE ~opened'[who']
    <3>1. who' = s /\ opened' = opened /\ life[s] = "unborn"
      BY <2>2 DEF RunDeviceFunction
    <3> QED BY <1>0, <3>1 DEF CallInv, ThreadInv
  <2>3. CASE pc' # "inStart"
    BY <2>3
  <2>4. pc' # "inStart" \/ Start(s) \/ \E f \in {"revert", "msid"} : RunDeviceFunction(s, f)
    BY <1>2, <1>3 DEF Create, Command, DontAutoClose, Close, CloseOpened, Destroy, Send, threadVars
  <2> QED BY <2>1, <2>2, <2>3, <2>4
<1>9. (\A t \in tper : Fine(owner[t]) => ClaimedBy(owner[t], t))'
  <2> SUFFICES ASSUME NEW t \in tper, NEW o, o = owner[t], trouble'[o] \subseteq {"abort"}
               PROVE  \/ life'[o] = "alive" /\ opened'[o] /\ tsn'[o] = t
                      \/ pc' \in {"inClose", "inDtor"} /\ who' = o /\ busy'.tsn = t /\ sent' = 0
                      \/ \E p \in Waiting' : p.op = "EndOfSession" /\ p.sess = o /\ p.tsn = t
    BY <1>1 DEF ClaimedBy, Fine
  <2>1. o \in Sess
    BY <1>0, ElementOfSeq DEF TypeOK
  <2>2. ClaimedBy(o, t)
    BY <1>4, <2>1 DEF ClaimInv, Fine
  <2>3. \/ life[o] = "alive" /\ opened[o] /\ tsn[o] = t
        \/ \E p \in Waiting : p.op = "EndOfSession" /\ p.sess = o /\ p.tsn = t
    BY <1>3, <2>2 DEF ClaimedBy
  <2> QED BY <1>1, <1>6, <2>1, <2>3
<1>10. StartInv'
  <2>1. \A a \in Pending : ~(a.body.tok5 > 0 /\ trouble'[a.to.sess] \subseteq {"abort"})
    BY <1>0, <1>3, <1>4, QueuesTyped DEF ClaimInv, StartInv, Fine
  <2>2. \A p \in Waiting : ~(p.op = "StartSession" /\ trouble'[p.sess] \subseteq {"abort"})
    BY <1>0, <1>3, <1>4, QueuesTyped DEF ClaimInv, StartInv, Fine
  <2>3. (pc = "inStart" /\ Fine(who) => ~opened[who])'
    BY <1>8 DEF Fine
  <2>4. pc' # "started"
    BY <1>5
  <2>5. (\A a \in Pending : ~(a.body.tok5 > 0 /\ Fine(a.to.sess)))'
    BY <1>1, <2>1 DEF Fine
  <2>6. (\A p \in Waiting : ~(p.op = "StartSession" /\ Fine(p.sess)))'
    BY <1>1, <2>2 DEF Fine
  <2> QED BY <2>3, <2>4, <2>5, <2>6 DEF StartInv
<1>11. RevertInv'
  BY <1>5, <1>7 DEF RevertInv
<1> QED BY <1>9, <1>10, <1>11 DEF ClaimInv

LEMMA ClaimCalls ==
  ASSUME HoldInv, ClaimInv, DeviceInv, Destructor \/ SecondCommand
  PROVE  ClaimInv'
<1>0. TypeOK /\ CallInv /\ [Next]_vars /\ who \in Sess
  BY DEF HoldInv, CallsInv, Next, Library, TypeOK
<1>1. UNCHANGED <<tsn, tper, owner, inbox, outbox>> /\ Pending' = Pending /\ Waiting' = Waiting
  BY <1>0, ThreadQueues DEF Pending, Waiting
<1>2. \A u \in Sess : Fine(u)' => Fine(u)
  BY <1>0, HistoryGrows DEF Fine
<1>3. pc \in {"dtor", "started"} /\ pc' \in {"idle", "inDtor", "inSend"} /\ trouble' = trouble /\ who' = who
  BY DEF Destructor, SecondCommand, CloseOpened, Bury, Send
<1>4. StartInv'
  <2>1. (\A a \in Pending : ~(a.body.tok5 > 0 /\ Fine(a.to.sess)))'
    BY <1>1, <1>3 DEF ClaimInv, StartInv, Fine
  <2>2. (\A p \in Waiting : ~(p.op = "StartSession" /\ Fine(p.sess)))'
    BY <1>1, <1>3 DEF ClaimInv, StartInv, Fine
  <2> QED BY <1>3, <2>1, <2>2 DEF StartInv
<1> DEFINE Claims == \A t \in tper, o \in Sess : ClaimedBy(o, t) =>
             \/ life'[o] = "alive" /\ opened'[o] /\ tsn[o] = t
             \/ pc' \in {"inClose", "inDtor"} /\ who' = o /\ busy'.tsn = t /\ sent' = 0
             \/ \E p \in Waiting' : p.op = "EndOfSession" /\ p.sess = o /\ p.tsn = t
             \/ ~Fine(o)
<1>5. ASSUME Claims PROVE (\A t \in tper : Fine(owner[t]) => ClaimedBy(owner[t], t))'
  <2> SUFFICES ASSUME NEW t \in tper, NEW o, o = owner[t], trouble[o] \subseteq {"abort"}
               PROVE  \/ life'[o] = "alive" /\ opened'[o] /\ tsn'[o] = t
                      \/ pc' \in {"inClose", "inDtor"} /\ who' = o /\ busy'.tsn = t /\ sent' = 0
                      \/ \E p \in Waiting' : p.op = "EndOfSession" /\ p.sess = o /\ p.tsn = t
    BY <1>1, <1>3 DEF ClaimedBy, Fine
  <2>1. o \in Sess /\ Fine(o)
    BY <1>0, ElementOfSeq DEF TypeOK, Fine
  <2>2. ClaimedBy(o, t)
    BY <2>1 DEF ClaimInv
  <2> QED BY <1>1, <1>5, <2>1, <2>2
<1>6. CASE SecondCommand
  <2>1. /\ UNCHANGED <<life, opened, autoClose, prog>> /\ pc = "started" /\ pc' = "inSend"
        /\ clean' = (inbox = <<>> /\ outbox = <<>>)
    <3>1. PICK op \in Ops : Send(who, op, "inSend")
      BY <1>6 DEF SecondCommand, Ops
    <3> QED BY <1>0, <1>6, <3>1, SendTypes DEF SecondCommand, objVars
  <2>2. Claims
    BY <1>1, <2>1 DEF ClaimedBy
  <2>3. pc = "started" /\ Fine(who) => clean' /\ Pending' = {}
    <3>1. Range(<<>>) = {}
      BY <1>0, TypedQueues, RangeEmpty DEF Queues
    <3> QED BY <1>1, <2>1, <3>1 DEF ClaimInv, StartInv, Pending
  <2>4. RevertInv'
    <3>1. (\A s \in Sess : ~(Fine(s) /\ life[s] = "alive" /\ ~autoClose[s]))'
      BY <1>3, <2>1 DEF ClaimInv, RevertInv, Fine
    <3> QED BY <1>3, <2>1, <2>3, <3>1 DEF RevertInv, Fine
  <2> QED BY <1>4, <1>5, <2>2, <2>4 DEF ClaimInv
<1>7. CASE Destructor
  <2>1. pc = "dtor" /\ autoClose' = autoClose /\ pc' # "inSend"
    BY <1>7 DEF Destructor, CloseOpened, Bury, Send
  <2>2. CASE CloseOpened(who, "inDtor") /\ UNCHANGED <<life, prog>>
    <3>1. /\ Send(who, "EndOfSession", "inDtor") /\ autoClose[who]
          /\ opened' = [opened EXCEPT ![who] = FALSE] /\ life' = life
      BY <2>2 DEF CloseOpened
    <3>2. /\ busy' = [id |-> serial + 1, op |-> "EndOfSession", hsn |-> hsn[who], tsn |-> tsn[who],
                      sess |-> who]
          /\ sent' = 0 /\ pc' = "inDtor"
      BY <1>0, <3>1, SendTypes DEF Ops
    <3>3. busy'.tsn = tsn[who]
      BY <3>2
    <3>4. \A o \in Sess : o # who => opened'[o] = opened[o]
      BY <1>0, <3>1 DEF TypeOK
    <3>5. Claims
      BY <1>1, <1>3, <2>1, <3>1, <3>2, <3>3, <3>4 DEF ClaimedBy
    <3>6. (\A s \in Sess : ~(Fine(s) /\ life[s] = "alive" /\ ~autoClose[s]))'
      BY <1>3, <2>1, <3>1 DEF ClaimInv, RevertInv, Fine
    <3>7. RevertInv'
      BY <2>1, <3>6 DEF RevertInv
    <3> QED BY <1>4, <1>5, <3>5, <3>7 DEF ClaimInv
  <2>3. CASE ~(autoClose[who] /\ opened[who]) /\ Bury /\ opened' = opened
    <3>1. life' = [life EXCEPT ![who] = "dead"] /\ life[who] = "alive"
      BY <1>0, <2>1, <2>3 DEF Bury, CallInv, ThreadInv
    <3>2. \A o \in Sess : (o # who => life'[o] = life[o]) /\ (o = who => life'[o] = "dead")
      BY <1>0, <3>1 DEF TypeOK
    <3>3. \A t \in tper : opened[who] => ~Fine(who)
      BY <1>0, <2>3, <3>1 DEF ClaimInv, RevertInv
    <3>4. Claims
      BY <1>1, <2>1, <2>3, <3>2, <3>3 DEF ClaimedBy
    <3>5. (\A s \in Sess : ~(Fine(s) /\ life[s] = "alive" /\ ~autoClose[s]))'
      BY <1>3, <2>1, <3>2 DEF ClaimInv, RevertInv, Fine
    <3>6. RevertInv'
      BY <2>1, <3>5 DEF RevertInv
    <3> QED BY <1>4, <1>5, <3>4, <3>6 DEF ClaimInv
  <2> QED BY <1>7, <2>2, <2>3 DEF Destructor
<1> QED BY <1>6, <1>7

LEMMA ClaimDelivery ==
  ASSUME HoldInv, ClaimInv, Deliver \/ Lose \/ UNCHANGED vars
  PROVE  ClaimInv'
<1>0. TypeOK /\ CallsInv /\ CallInv /\ CleanInv /\ Queues /\ [Next]_vars /\ who \in Sess
  BY TypedQueues DEF HoldInv, CallsInv, Next, Library, TypeOK
<1>1. /\ UNCHANGED <<life, opened, hsn, tsn, autoClose, pc, who, prog, tper, owner, busy, clean>>
      /\ Pending' \subseteq Pending /\ Waiting \subseteq Waiting'
  <2>1. CASE Deliver
    BY <1>0, <2>1, DeliverQueues DEF Deliver, Pending, tperVars, objVars, threadVars
  <2>2. CASE Lose
    BY <1>0, <2>2, LoseQueues DEF Lose, tperVars, objVars, threadVars, Waiting
  <2>3. CASE UNCHANGED vars
    BY <2>3 DEF vars, tperVars, rpcVars, objVars, threadVars, Pending, Waiting
  <2> QED BY <2>1, <2>2, <2>3
<1>2. \A u \in Sess : Fine(u)' => Fine(u)
  BY <1>0, HistoryGrows DEF Fine
<1>3. Deliver \/ Lose => InCall
  <2>1. Deliver \/ Lose => busy # NoCmd
    BY DEF Deliver, Lose, Rpc!Deliver, Rpc!Lose
  <2> QED BY <1>0, <2>1 DEF CallInv, BusyInv
<1>4. CASE UNCHANGED vars
  <2>1. UNCHANGED <<life, opened, tsn, autoClose, pc, who, prog, tper, owner, busy, clean, sent, inbox,
                    outbox, trouble>>
    BY <1>4 DEF vars, tperVars, rpcVars, objVars, threadVars
  <2> QED BY <2>1 DEF ClaimInv, StartInv, RevertInv, ClaimedBy, Fine, Pending, Waiting
<1>5. CASE Lose
  <2>1. sent' = sent /\ Waiting' = Waiting
    BY <1>0, <1>5, LoseQueues DEF Lose, Waiting
  <2>2. ~Fine(who)'
    BY <1>0, <1>1, <1>5 DEF Lose, Note, Fine, TypeOK
  <2>3. ASSUME NEW t \in tper, NEW o \in Sess, ClaimedBy(o, t), trouble'[o] \subseteq {"abort"}
        PROVE  ClaimedBy(o, t)'
    BY <1>1, <2>1, <2>2, <2>3 DEF ClaimedBy, Fine
  <2>4. (\A t \in tper : Fine(owner[t]) => ClaimedBy(owner[t], t))'
    <3> SUFFICES ASSUME NEW t \in tper, NEW o, o = owner[t], trouble'[o] \subseteq {"abort"}
                 PROVE  ClaimedBy(o, t)'
      BY <1>1 DEF Fine, ClaimedBy
    <3>1. o \in Sess
      BY <1>0, ElementOfSeq DEF TypeOK
    <3>2. ClaimedBy(o, t)
      BY <1>2, <3>1 DEF ClaimInv, Fine
    <3> QED BY <2>3, <3>1, <3>2
  <2>5. StartInv'
    <3>1. (\A a \in Pending : a.body.tok5 > 0 /\ Fine(a.to.sess) => pc = "inStart" /\ who = a.to.sess)'
      BY <1>0, <1>1, <1>2, QueuesTyped DEF ClaimInv, StartInv
    <3>2. (\A p \in Waiting : p.op = "StartSession" /\ Fine(p.sess) => pc = "inStart" /\ who = p.sess)'
      BY <1>0, <1>1, <1>2, <2>1, QueuesTyped DEF ClaimInv, StartInv
    <3>3. pc' # "started" /\ ~Fine(who)'
      BY <1>1, <1>3, <1>5, <2>2 DEF InCall
    <3> QED BY <3>1, <3>2, <3>3 DEF StartInv
  <2>6. RevertInv'
    <3>1. (\A s \in Sess : ~(Fine(s) /\ life[s] = "alive" /\ ~autoClose[s]))'
      BY <1>1, <1>2, <1>3, <1>5 DEF ClaimInv, RevertInv, InCall
    <3> QED BY <2>2, <3>1 DEF RevertInv
  <2> QED BY <2>4, <2>5, <2>6 DEF ClaimInv
<1>6. CASE Deliver
  <2>1. /\ Waiting' = Waiting \cup {busy} /\ InCall /\ busy.sess = who
    BY <1>0, <1>3, <1>6, DeliverQueues DEF Deliver, CallInv, BusyInv
  <2>2. Fine(who)' => sent = 0
    <3>1. sent > 0 => "resend" \in trouble'[who]
      BY <1>0, <1>6 DEF Deliver, Note, TypeOK
    <3>2. sent \in Nat
      BY <1>0 DEF Queues
    <3> QED BY <1>1, <3>1, <3>2 DEF Fine
  <2>3. pc = "inStart" /\ Fine(who)' => Pending = {}
    <3> SUFFICES ASSUME pc = "inStart", Fine(who)' PROVE Pending = {}
      OBVIOUS
    <3>1. clean
      BY <1>0, <1>1, <1>2 DEF CleanInv, Fine
    <3>2. Len(inbox) + Len(outbox) <= 0 /\ Len(inbox) \in Nat /\ Len(outbox) \in Nat
      BY <1>0, <2>1, <2>2, <3>1, QueuesTyped DEF CleanInv
    <3> QED BY <1>0, <3>2, RangeEmpty DEF Queues, Pending
  <2>4. (\A t \in tper : Fine(owner[t]) => ClaimedBy(owner[t], t))'
    <3> SUFFICES ASSUME NEW t \in tper, NEW o, o = owner[t], trouble'[o] \subseteq {"abort"}
                 PROVE  ClaimedBy(o, t)'
      BY <1>1 DEF Fine, ClaimedBy
    <3>1. o \in Sess
      BY <1>0, ElementOfSeq DEF TypeOK
    <3>2. ClaimedBy(o, t)
      BY <1>2, <3>1 DEF ClaimInv, Fine
    <3>3. CASE life[o] = "alive" /\ opened[o] /\ tsn[o] = t
      BY <1>1, <3>3 DEF ClaimedBy
    <3>4. CASE pc = "inStart" /\ who = o /\ \E a \in Pending : a.body.tok5 = t
      BY <1>1, <2>3, <3>4 DEF Fine
    <3>5. CASE pc \in {"inClose", "inDtor"} /\ who = o /\ busy.tsn = t
      <4>1. busy.op = "EndOfSession"
        BY <1>0, <2>1, <3>5 DEF CallInv, BusyInv
      <4> QED BY <2>1, <3>5, <4>1 DEF ClaimedBy
    <3>6. CASE \E p \in Waiting : p.op = "EndOfSession" /\ p.sess = o /\ p.tsn = t
      BY <2>1, <3>6 DEF ClaimedBy
    <3> QED BY <3>2, <3>3, <3>4, <3>5, <3>6 DEF ClaimedBy
  <2>5. StartInv'
    <3>1. (\A a \in Pending : a.body.tok5 > 0 /\ Fine(a.to.sess) => pc = "inStart" /\ who = a.to.sess)'
      BY <1>0, <1>1, <1>2, QueuesTyped DEF ClaimInv, StartInv
    <3>2. busy.op = "StartSession" => pc = "inStart"
      BY <1>0, <2>1 DEF CallInv, BusyInv, InCall
    <3>3. (\A p \in Waiting : p.op = "StartSession" /\ Fine(p.sess) => pc = "inStart" /\ who = p.sess)'
      BY <1>0, <1>1, <1>2, <2>1, <3>2, QueuesTyped DEF ClaimInv, StartInv
    <3>4. pc' # "started" /\ (pc' = "inStart" /\ Fine(who)' => ~opened'[who'])
      BY <1>0, <1>1, <1>2, <2>1 DEF InCall, ClaimInv, StartInv, Fine
    <3> QED BY <3>1, <3>3, <3>4 DEF StartInv
  <2>6. RevertInv'
    <3>1. (\A s \in Sess : ~(Fine(s) /\ life[s] = "alive" /\ ~autoClose[s]))'
      BY <1>1, <1>2, <2>1 DEF ClaimInv, RevertInv, InCall
    <3>2. pc = "inSend" /\ prog = "revert" /\ Fine(who)' =>
            clean' /\ \A a \in Pending' : a.body.class = "refused" \/ tper' = {}
      BY <1>0, <1>1, <1>2 DEF ClaimInv, RevertInv, Fine
    <3> QED BY <1>1, <3>1, <3>2 DEF RevertInv
  <2> QED BY <2>4, <2>5, <2>6 DEF ClaimInv
<1> QED BY <1>4, <1>5, <1>6

LEMMA ClaimReturns ==
  ASSUME HoldInv, ClaimInv, DeviceInv, SendReturns \/ AuthReturns \/ CloseReturns
  PROVE  ClaimInv'
<1>0. TypeOK /\ CallsInv /\ CallInv /\ Queues /\ [Next]_vars /\ who \in Sess
  BY TypedQueues DEF HoldInv, CallsInv, Next, Library, TypeOK
<1>1. /\ ExecReturns /\ InCall /\ pc # "inStart" /\ pc # "dtor"
      /\ UNCHANGED <<opened, hsn, tsn, who, tper, owner, ran>>
      /\ Pending' \subseteq Pending /\ Waiting' = Waiting
      /\ pc' \in {"idle", "dtor"}
  BY <1>0, ReturnFrame DEF InCall, Bury
<1>2. \A u \in Sess : Fine(u)' => Fine(u)
  BY <1>0, HistoryGrows DEF Fine
<1>3. \A o \in Sess : life[o] = "alive" /\ opened[o] => life'[o] = "alive"
  <2>1. life' = life \/ (pc = "inDtor" /\ life' = [life EXCEPT ![who] = "dead"])
    BY <1>0, ReturnFrame DEF Bury
  <2> QED BY <1>0, <2>1 DEF CallInv, ThreadInv, TypeOK
<1>4. tper # {} /\ sent = 0 => ~Fine(who)'
  <2> SUFFICES ASSUME tper # {}, sent = 0 PROVE ~Fine(who)'
    OBVIOUS
  <2>1. \E kind \in Unserved : Noted(kind)
    BY <1>0, <1>1, ReturnCases DEF Fetches, FindsNothing, GivesUp, TurnsDown, DeviceInv, Unserved
  <2>2. \E kind \in Unserved : kind \in trouble'[who]
    BY <1>0, <2>1 DEF Noted, TypeOK
  <2> QED BY <1>1, <2>2 DEF Fine, Unserved
<1>5. (\A t \in tper : Fine(owner[t]) => ClaimedBy(owner[t], t))'
  <2> SUFFICES ASSUME NEW t \in tper, NEW o, o = owner[t], trouble'[o] \subseteq {"abort"}
               PROVE  ClaimedBy(o, t)'
    BY <1>1 DEF Fine, ClaimedBy
  <2>1. o \in Sess
    BY <1>0, ElementOfSeq DEF TypeOK
  <2>2. ClaimedBy(o, t)
    BY <1>2, <2>1 DEF ClaimInv, Fine
  <2>3. CASE life[o] = "alive" /\ opened[o] /\ tsn[o] = t
    BY <1>1, <1>3, <2>1, <2>3 DEF ClaimedBy
  <2>4. CASE \E p \in Waiting : p.op = "EndOfSession" /\ p.sess = o /\ p.tsn = t
    BY <1>1, <2>4 DEF ClaimedBy
  <2>5. CASE who = o /\ sent = 0
    BY <1>1, <1>4, <2>5 DEF Fine
  <2> QED BY <1>1, <2>2, <2>3, <2>4, <2>5 DEF ClaimedBy
<1>6. StartInv'
  <2>1. (\A a \in Pending : a.body.tok5 > 0 /\ Fine(a.to.sess) => pc = "inStart" /\ who = a.to.sess)'
    BY <1>0, <1>1, <1>2, QueuesTyped DEF ClaimInv, StartInv
  <2>2. (\A p \in Waiting : p.op = "StartSession" /\ Fine(p.sess) => pc = "inStart" /\ who = p.sess)'
    BY <1>0, <1>1, <1>2, QueuesTyped DEF ClaimInv, StartInv
  <2> QED BY <1>1, <2>1, <2>2 DEF StartInv
<1>7. RevertInv'
  <2> SUFFICES ASSUME NEW s \in Sess, trouble'[s] \subseteq {"abort"}, life'[s] = "alive", ~autoClose'[s]
               PROVE  prog' = "revert" /\ who' = s /\ pc' = "dtor" /\ inbox' = <<>> /\ tper' = {}
    BY <1>1 DEF RevertInv, Fine
  <2>1. life[s] = "alive"
    <3>1. life' = life \/ life' = [life EXCEPT ![who] = "dead"]
      BY <1>0, ReturnFrame DEF Bury
    <3> QED BY <1>0, <3>1 DEF TypeOK
  <2>2. autoClose[s]
    BY <1>1, <1>2, <2>1 DEF ClaimInv, RevertInv, Fine
  <2>3. autoClose' # autoClose
    BY <2>2
  <2>4. SendReturns /\ pc = "inSend" /\ prog' = prog
        /\ pc' = (IF prog = "user" THEN "idle" ELSE "dtor")
        /\ autoClose' = [autoClose EXCEPT ![who] = @ /\ ~(prog = "revert" /\ SendCode(ret') = "OK")]
    BY <2>3 DEF SendReturns, AuthReturns, CloseReturns, objVars
  <2>5. s = who /\ prog = "revert" /\ SendCode(ret') = "OK"
    <3>1. autoClose \in [Sess -> BOOLEAN]
      BY <1>0 DEF TypeOK
    <3>2. s = who
      BY <2>2, <2>4, <3>1
    <3>3. prog = "revert" /\ SendCode(ret') = "OK"
      BY <1>0, <2>2, <2>4, <3>1, <3>2
    <3> QED BY <3>2, <3>3
  <2>6. Fetches /\ Head(outbox) \in Pending /\ Head(outbox).body.class # "refused"
    BY <1>0, <1>1, <2>5, OkIsFetched, FetchQueues
  <2>7. clean /\ tper = {}
    BY <1>2, <2>4, <2>5, <2>6 DEF ClaimInv, RevertInv, Fine
  <2>8. inbox' = <<>>
    BY <1>0, <1>1, <2>5, <2>6, <2>7, LeavesNothing
  <2> QED BY <1>1, <2>4, <2>5, <2>7, <2>8
<1> QED BY <1>5, <1>6, <1>7 DEF ClaimInv

LEMMA ClaimStart ==
  ASSUME HoldInv, ClaimInv, DeviceInv, StartReturns
  PROVE  ClaimInv'
<1>0. TypeOK /\ CallsInv /\ CallInv /\ CleanInv /\ Queues /\ [Next]_vars
  BY TypedQueues DEF HoldInv, CallsInv, Next, Library
<1>1. /\ ExecReturns /\ InCall /\ who \in Sess /\ pc = "inStart"
      /\ UNCHANGED <<life, autoClose, who, prog, tper, owner, ran>>
  BY <1>0, StartTakes
<1>2. /\ Pending' \subseteq Pending /\ Waiting' = Waiting
      /\ busy \in Packet /\ busy # NoCmd /\ busy.sess = who /\ busy.op = "StartSession"
      /\ pc' \in {"idle", "started", "dtor"}
  BY <1>0, <1>1, ReturnQueues DEF CallInv, BusyInv, StartReturns
<1>3. \A u \in Sess : Fine(u)' => Fine(u)
  BY <1>0, HistoryGrows DEF Fine
<1>4. trouble'[who] \subseteq {"abort"} => Fine(who)
  BY <1>1, <1>3 DEF Fine
<1>5. \A a \in Pending : Fine(who) =>
        /\ a.to = busy
        /\ a.body = Refusal \/ (a.body.tok5 > 0 /\ a.body = SyncSession(a.body.tok5))
  <2> SUFFICES ASSUME NEW a \in Pending, Fine(who)
               PROVE  /\ a.to = busy
                      /\ a.body = Refusal \/ (a.body.tok5 > 0 /\ a.body = SyncSession(a.body.tok5))
    OBVIOUS
  <2>1. clean
    BY <1>1 DEF Fine, HoldInv, CallsInv, CleanInv
  <2>2. a.to = busy
    BY <1>1, <2>1 DEF HoldInv, CallsInv, CleanInv
  <2>3. AnswerOK(a)
    BY DEF HoldInv, CallsInv, AnswerInv
  <2> QED BY <1>2, <2>2, <2>3 DEF AnswerOK, Fine
<1>6. trouble'[who] \subseteq {"abort"} =>
        inbox = <<>> /\ inbox' = <<>> /\ outbox' = <<>> /\ (Fetches \/ outbox = <<>>)
  <2> SUFFICES ASSUME trouble'[who] \subseteq {"abort"}
               PROVE  inbox = <<>> /\ inbox' = <<>> /\ outbox' = <<>> /\ (Fetches \/ outbox = <<>>)
    OBVIOUS
  <2>1. clean
    BY <1>0, <1>1, <1>4 DEF CleanInv, Fine
  <2>2. outbox # <<>> => Head(outbox) \in Pending
    BY <1>0, RangeTail DEF Queues, Pending
  <2>3. outbox # <<>> => Head(outbox).body.class # "oversize"
    <3>1. Refusal.class = "refused" /\ \A t : SyncSession(t).class = "success"
      BY DEF Refusal, SyncSession, Tokens
    <3>2. Fine(who)
      BY <1>4
    <3> QED BY <1>5, <2>2, <3>1, <3>2
  <2> QED BY <1>0, <1>1, <2>1, <2>3, LeavesNothing
<1>7. trouble'[who] \subseteq {"abort"} => Pending' = {} /\ Waiting = {} /\ Waiting' = {}
  BY <1>0, <1>6, RangeEmpty DEF Queues, Pending, Waiting
<1>8. ASSUME trouble'[who] \subseteq {"abort"}, NEW a \in Pending, a.body.tok5 > 0
      PROVE  life'[who] = "alive" /\ opened'[who] /\ tsn'[who] = a.body.tok5
  <2>1. outbox # <<>> /\ Fetches
    BY <1>0, <1>6, <1>8, RangeEmpty DEF Pending, Queues
  <2>2. a = Head(outbox)
    <3>1. Pending \subseteq Range(Tail(outbox)) \cup {Head(outbox)} /\ outbox' = Tail(outbox)
      BY <1>0, <2>1, RangeTail DEF Queues, Pending, Fetches
    <3> QED BY <1>7, <1>8, <3>1 DEF Pending
  <2>3. a.to = busy /\ a.body = SyncSession(a.body.tok5)
    BY <1>4, <1>5, <1>8 DEF Refusal, Tokens, NotNumber
  <2>4. a.body.class = "success" /\ a.body.tok4 = HostSessionId
    BY <2>3 DEF SyncSession, Tokens
  <2>5. ret'.code = "OK" /\ ret'.ans = a
    BY <2>1, <2>2, <2>4 DEF Fetches
  <2>6. a # Rpc!Nothing
    BY <1>2, <2>3 DEF Rpc!Nothing
  <2>7. SendCode(ret') = "OK"
    BY <2>4, <2>5, <2>6 DEF SendCode
  <2>8. /\ opened' = [opened EXCEPT ![who] = TRUE]
        /\ tsn' = [tsn EXCEPT ![who] = IF a.body.tok4 >= 0 /\ a.body.tok5 >= 0
                                       THEN a.body.tok5 ELSE @]
    BY <1>0, <2>2, <2>7, StartTakes
  <2>9. a.body.tok4 >= 0 /\ a.body.tok5 >= 0
    BY <1>0, <1>8, <2>4, QueuesTyped DEF HostSessionId
  <2>10. opened \in [Sess -> BOOLEAN] /\ tsn \in [Sess -> Nat]
    BY <1>0 DEF TypeOK
  <2>11. life[who] = "alive"
    BY <1>0, <1>1 DEF CallInv, ThreadInv
  <2> QED BY <1>1, <2>8, <2>9, <2>10, <2>11
<1>9. \A o \in Sess : o # who => opened'[o] = opened[o] /\ tsn'[o] = tsn[o]
  BY <1>0, StartTakes DEF TypeOK
<1>10. (\A t \in tper : Fine(owner[t]) => ClaimedBy(owner[t], t))'
  <2> SUFFICES ASSUME NEW t \in tper, NEW o, o = owner[t], trouble'[o] \subseteq {"abort"}
               PROVE  ClaimedBy(o, t)'
    BY <1>1 DEF Fine, ClaimedBy
  <2>1. o \in Sess
    BY <1>0, ElementOfSeq DEF TypeOK
  <2>2. Fine(o)
    BY <1>3, <2>1 DEF Fine
  <2>3. ClaimedBy(o, t)
    BY <2>2 DEF ClaimInv
  <2>4. CASE life[o] = "alive" /\ opened[o] /\ tsn[o] = t
    <3>1. o # who
      BY <1>1, <2>2, <2>4 DEF ClaimInv, StartInv
    <3> QED BY <1>1, <1>9, <2>1, <2>4, <3>1 DEF ClaimedBy
  <2>5. CASE who = o /\ \E a \in Pending : a.body.tok5 = t
    <3>1. t > 0
      BY <1>0 DEF TypeOK
    <3> QED BY <1>8, <2>5, <3>1 DEF ClaimedBy
  <2>6. CASE \E p \in Waiting : p.op = "EndOfSession" /\ p.sess = o /\ p.tsn = t
    BY <1>2, <2>6 DEF ClaimedBy
  <2> QED BY <1>1, <2>3, <2>4, <2>5, <2>6 DEF ClaimedBy
<1>11. StartInv'
  <2>1. \A a \in Pending' : ~(a.body.tok5 > 0 /\ trouble'[a.to.sess] \subseteq {"abort"})
    <3> SUFFICES ASSUME NEW a \in Pending', a.body.tok5 > 0, trouble'[a.to.sess] \subseteq {"abort"}
                 PROVE  FALSE
      OBVIOUS
    <3>1. a \in Pending /\ Fine(a.to.sess)
      BY <1>0, <1>2, <1>3, QueuesTyped DEF Fine
    <3>2. a.to.sess = who
      BY <3>1 DEF ClaimInv, StartInv
    <3> QED BY <1>7, <3>2
  <2>2. \A p \in Waiting' : ~(p.op = "StartSession" /\ trouble'[p.sess] \subseteq {"abort"})
    <3> SUFFICES ASSUME NEW p \in Waiting', p.op = "StartSession", trouble'[p.sess] \subseteq {"abort"}
                 PROVE  FALSE
      OBVIOUS
    <3>1. p \in Waiting /\ Fine(p.sess)
      BY <1>0, <1>2, <1>3, QueuesTyped DEF Fine
    <3>2. p.sess = who
      BY <3>1 DEF ClaimInv, StartInv
    <3> QED BY <1>7, <3>2
  <2>3. pc' = "started" /\ trouble'[who'] \subseteq {"abort"} => inbox' = <<>> /\ outbox' = <<>>
    BY <1>1, <1>6
  <2>4. pc' # "inStart"
    BY <1>2
  <2>5. (\A a \in Pending : ~(a.body.tok5 > 0 /\ Fine(a.to.sess)))'
    BY <2>1 DEF Fine
  <2>6. (\A p \in Waiting : ~(p.op = "StartSession" /\ Fine(p.sess)))'
    BY <2>2 DEF Fine
  <2>7. (pc = "started" /\ Fine(who) => inbox = <<>> /\ outbox = <<>>)'
    BY <2>3 DEF Fine
  <2> QED BY <2>4, <2>5, <2>6, <2>7 DEF StartInv
<1>12. RevertInv'
  <2>1. (\A s \in Sess : ~(Fine(s) /\ life[s] = "alive" /\ ~autoClose[s]))'
    BY <1>1, <1>3 DEF ClaimInv, RevertInv
  <2> QED BY <1>2, <2>1 DEF RevertInv
<1> QED BY <1>10, <1>11, <1>12 DEF ClaimInv

\* What becomes of the oldest command.
LEMMA AskedGone ==
  ASSUME HoldInv, TPer \/ TPerOdd, NEW t \in tper, t \in tper',
         NEW p \in Waiting, p \notin Waiting', p.op = "EndOfSession", p.tsn = t
  PROVE  "odd" \in trouble'[p.sess]
<1>0. TypeOK /\ Queues /\ NumbersInv /\ t > 0
  <2>1. TypeOK /\ Queues /\ NumbersInv
    BY TypedQueues DEF HoldInv, CallsInv
  <2>2. tper \subseteq 1..Len(owner)
    BY <2>1 DEF TypeOK
  <2> QED BY <2>1, <2>2
<1>1. inbox # <<>> /\ p = Asked /\ p \in Packet
  BY <1>0, TPerCases, AnswerQueues, IgnoreQueues
<1>2. InSession
  BY <1>0, <1>1 DEF InSession, NumbersInv
<1>3. CASE TPerOdd
  <2>1. Note(p.sess, "odd") /\ p.sess \in Sess
    BY <1>1, <1>3 DEF TPerOdd, Packet
  <2> QED BY <1>0, <2>1 DEF Note, TypeOK
<1>4. CASE TPerEnd
  BY <1>1, <1>4 DEF TPerEnd
<1>5. CASE TPerStart \/ TPerRefuse \/ TPerMethod \/ TPerRevert \/ TPerIgnore
  BY <1>1, <1>2, <1>5 DEF TPerStart, TPerRefuse, TPerMethod, TPerRevert, TPerIgnore
<1> QED BY <1>3, <1>4, <1>5 DEF TPer

\* What becomes of the answers: none is taken away, and one that names a
\* session is the answer to a start.
LEMMA AnswersAdded ==
  ASSUME TypeOK, TPer \/ TPerOdd
  PROVE  /\ Pending \subseteq Pending' /\ Waiting' \subseteq Waiting /\ inbox # <<>>
         /\ Asked \in Waiting /\ Asked \in Packet
         /\ \A a \in Pending' : a.body.tok5 > 0 /\ a \notin Pending =>
              TPerStart /\ a.to = Asked
<1>0. Queues /\ [Next]_vars
  BY TypedQueues DEF Next
<1>1. /\ Pending \subseteq Pending' /\ Waiting' \subseteq Waiting /\ inbox # <<>>
      /\ Asked \in Waiting /\ Asked \in Packet
  <2>1. (\E b \in Body : Answers(b)) \/ Rpc!Process(<<>>)
    BY TPerCases
  <2>2. Rpc!Process(<<>>) => Pending' = Pending
    BY <1>0, IgnoreQueues DEF Pending
  <2> QED BY <1>0, <2>1, <2>2, AnswerQueues, IgnoreQueues
<1>2. ASSUME NEW a \in Pending', a.body.tok5 > 0, a \notin Pending PROVE TPerStart /\ a.to = Asked
  <2>1. Range(<<>>) = {} /\ (outbox # <<>> => Range(Tail(outbox)) \subseteq Range(outbox))
    BY <1>0, RangeEmpty, RangeTail DEF Queues
  <2>2. PICK b \in Body : Answers(b) /\ (~(b.tok5 > 0) \/ TPerStart)
    BY <1>0, <1>2, <2>1, OutboxFrom DEF Pending
  <2>3. a = [to |-> Asked, body |-> b]
    BY <1>0, <1>2, <2>2, AnswerQueues
  <2> QED BY <1>2, <2>2, <2>3
<1> QED BY <1>1, <1>2

\* What becomes of the table of sessions.
LEMMA TablesFrom ==
  ASSUME TypeOK, TPer \/ TPerOdd
  PROVE  \/ owner' = owner /\ tper' \subseteq tper
         \/ /\ (TPerStart \/ TPerOdd) /\ OpenSession /\ Asked.op = "StartSession"
            /\ NextTsn \notin 1..Len(owner) /\ tper' = tper \cup {NextTsn}
            /\ \A t \in 1..Len(owner) : owner'[t] = owner[t]
            /\ owner'[NextTsn] = Asked.sess
<1>1. inbox # <<>>
  BY AnswersAdded
<1>2. \/ owner' = owner /\ tper' \subseteq tper
      \/ (TPerStart \/ TPerOdd) /\ OpenSession /\ Asked.op = "StartSession"
  BY DEF TPer, TPerStart, TPerRefuse, TPerMethod, TPerEnd, TPerRevert, TPerIgnore, TPerOdd, tperVars
<1>3. CASE (TPerStart \/ TPerOdd) /\ OpenSession /\ Asked.op = "StartSession"
  <2>1. /\ Len(owner) \in Nat /\ NextTsn = Len(owner) + 1 /\ tper' = tper \cup {NextTsn}
        /\ owner'[NextTsn] = Asked.sess /\ \A t \in 1..Len(owner) : owner'[t] = owner[t]
    BY <1>1, <1>3, OpenSessionTypes
  <2>2. NextTsn \notin 1..Len(owner)
    BY <2>1
  <2> QED BY <1>3, <2>1, <2>2
<1> QED BY <1>2, <1>3

LEMMA ClaimTPer ==
  ASSUME HoldInv, ClaimInv, TPer \/ TPerOdd
  PROVE  ClaimInv'
<1>0. TypeOK /\ CallsInv /\ CallInv /\ CleanInv /\ Queues /\ [Next]_vars /\ who \in Sess
  BY TypedQueues DEF HoldInv, CallsInv, Next, TypeOK
<1>1. UNCHANGED <<life, opened, tsn, autoClose, pc, who, prog, busy, sent, clean>>
  BY TPerFrame
<1>2. \A u \in Sess : Fine(u)' => Fine(u)
  BY <1>0, HistoryGrows DEF Fine
<1>3. /\ Pending \subseteq Pending' /\ Waiting' \subseteq Waiting /\ inbox # <<>>
      /\ Asked \in Waiting /\ Asked \in Packet /\ Asked.sess \in Sess
      /\ \A a \in Pending' : a.body.tok5 > 0 /\ a \notin Pending => TPerStart /\ a.to = Asked
  BY <1>0, AnswersAdded DEF Packet
<1>4. TPerOdd => "odd" \in trouble'[Asked.sess]
  BY <1>0, <1>3 DEF TPerOdd, Note, TypeOK
<1>5. \/ owner' = owner /\ tper' \subseteq tper
      \/ /\ (TPerStart \/ TPerOdd) /\ OpenSession /\ Asked.op = "StartSession"
         /\ NextTsn \notin 1..Len(owner) /\ tper' = tper \cup {NextTsn}
         /\ \A t \in 1..Len(owner) : owner'[t] = owner[t]
         /\ owner'[NextTsn] = Asked.sess
  BY <1>0, TablesFrom
<1>6. ASSUME NEW t \in tper, t \in tper', NEW o, o = owner[t], trouble'[o] \subseteq {"abort"}
      PROVE  ClaimedBy(o, t)'
  <2>1. o \in Sess /\ ClaimedBy(o, t)
    <3>1. o \in Sess
      BY <1>0, <1>6, ElementOfSeq DEF TypeOK
    <3> QED BY <1>2, <1>6, <3>1 DEF ClaimInv, Fine
  <2>2. CASE life[o] = "alive" /\ opened[o] /\ tsn[o] = t
    BY <1>1, <2>2 DEF ClaimedBy
  <2>3. CASE pc = "inStart" /\ who = o /\ \E a \in Pending : a.body.tok5 = t
    BY <1>1, <1>3, <2>3 DEF ClaimedBy
  <2>4. CASE pc \in {"inClose", "inDtor"} /\ who = o /\ busy.tsn = t /\ sent = 0
    BY <1>1, <2>4 DEF ClaimedBy
  <2>5. ASSUME NEW p \in Waiting, p.op = "EndOfSession", p.sess = o, p.tsn = t PROVE ClaimedBy(o, t)'
    <3>1. p \in Waiting'
      BY <1>6, <2>5, AskedGone
    <3> QED BY <2>5, <3>1 DEF ClaimedBy
  <2> QED BY <2>1, <2>2, <2>3, <2>4, <2>5 DEF ClaimedBy
<1>7. ASSUME NEW t \in tper', t \notin tper, NEW o, o = owner'[t], trouble'[o] \subseteq {"abort"}
      PROVE  ClaimedBy(o, t)'
  <2>1. (TPerStart \/ TPerOdd) /\ Asked.op = "StartSession" /\ t = NextTsn /\ o = Asked.sess
    BY <1>5, <1>7
  <2>2. TPerStart /\ Fine(o)
    BY <1>2, <1>3, <1>4, <1>7, <2>1 DEF Fine
  <2>3. pc = "inStart" /\ who = o
    BY <1>3, <2>1, <2>2 DEF ClaimInv, StartInv
  <2>4. SyncSession(NextTsn) \in Body /\ Answers(SyncSession(NextTsn))
    <3>1. NextTsn \in Nat
      BY <1>0, <1>3, <2>2, OpenSessionTypes DEF TPerStart
    <3> QED BY <2>2, <3>1, BodyTypes DEF TPerStart
  <2> DEFINE a == [to |-> Asked, body |-> SyncSession(NextTsn)]
  <2>5. a \in Pending'
    BY <1>0, <2>4, AnswerQueues
  <2>6. a.body.tok5 = t
    BY <2>1 DEF SyncSession, Tokens
  <2> QED BY <1>1, <2>3, <2>5, <2>6 DEF ClaimedBy
<1>8. (\A t \in tper : Fine(owner[t]) => ClaimedBy(owner[t], t))'
  <2> SUFFICES ASSUME NEW t \in tper', NEW o, o = owner'[t], trouble'[o] \subseteq {"abort"}
               PROVE  ClaimedBy(o, t)'
    BY DEF Fine, ClaimedBy
  <2>1. t \in tper => o = owner[t]
    BY <1>0, <1>5 DEF TypeOK
  <2> QED BY <1>6, <1>7, <2>1
<1>9. StartInv'
  <2>1. \A a \in Pending' : a.body.tok5 > 0 /\ trouble'[a.to.sess] \subseteq {"abort"} =>
          pc = "inStart" /\ who = a.to.sess
    <3> SUFFICES ASSUME NEW a \in Pending', a.body.tok5 > 0, trouble'[a.to.sess] \subseteq {"abort"}
                 PROVE  pc = "inStart" /\ who = a.to.sess
      OBVIOUS
    <3>1. CASE a \in Pending
      BY <1>0, <1>2, <3>1, QueuesTyped DEF ClaimInv, StartInv, Fine
    <3>2. CASE a \notin Pending
      BY <1>2, <1>3, <3>2 DEF ClaimInv, StartInv, Fine, TPerStart
    <3> QED BY <3>1, <3>2
  <2>2. \A p \in Waiting' : p.op = "StartSession" /\ trouble'[p.sess] \subseteq {"abort"} =>
          pc = "inStart" /\ who = p.sess
    BY <1>0, <1>2, <1>3, QueuesTyped DEF ClaimInv, StartInv, Fine
  <2>3. (\A a \in Pending : a.body.tok5 > 0 /\ Fine(a.to.sess) => pc = "inStart" /\ who = a.to.sess)'
    BY <1>1, <2>1 DEF Fine
  <2>4. (\A p \in Waiting : p.op = "StartSession" /\ Fine(p.sess) => pc = "inStart" /\ who = p.sess)'
    BY <1>1, <2>2 DEF Fine
  <2>5. pc = "started" /\ trouble'[who] \subseteq {"abort"} => FALSE
    BY <1>0, <1>2, <1>3 DEF ClaimInv, StartInv, Fine
  <2>6. pc = "inStart" /\ trouble'[who] \subseteq {"abort"} => ~opened[who]
    BY <1>0, <1>2 DEF ClaimInv, StartInv, Fine
  <2>7. (pc = "inStart" /\ Fine(who) => ~opened[who])'
    BY <1>1, <2>6 DEF Fine
  <2>8. (pc = "started" /\ Fine(who) => inbox = <<>> /\ outbox = <<>>)'
    BY <1>1, <2>5 DEF Fine
  <2> QED BY <2>3, <2>4, <2>7, <2>8 DEF StartInv
<1>10. ASSUME pc = "inSend", prog = "revert", trouble'[who] \subseteq {"abort"}, NEW a \in Pending'
       PROVE  clean /\ (a.body.class = "refused" \/ tper' = {})
  <2>1. Fine(who) /\ clean /\ InCall
    BY <1>0, <1>2, <1>10 DEF ClaimInv, RevertInv, Fine, InCall
  <2>2. Asked = busy /\ Asked.op = "Revert" /\ Asked.sess = who
    BY <1>0, <1>3, <1>10, <2>1 DEF CleanInv, CallInv, BusyInv
  <2>3. owner' = owner /\ tper' \subseteq tper
    BY <1>5, <2>2
  <2>4. CASE a \in Pending
    BY <1>10, <2>1, <2>3, <2>4 DEF ClaimInv, RevertInv
  <2>5. CASE TPerRevert
    BY <2>1, <2>5 DEF TPerRevert
  <2>6. CASE TPerRefuse
    <3>1. a \in Pending \/ a = [to |-> Asked, body |-> Refusal]
      BY <1>0, <2>6, BodyTypes, AnswerQueues DEF TPerRefuse
    <3>2. Refusal.class = "refused"
      BY DEF Refusal, Tokens
    <3> QED BY <2>1, <2>4, <3>1, <3>2
  <2>7. CASE TPerIgnore
    <3>1. Pending' = Pending
      BY <1>0, <2>7, IgnoreQueues DEF TPerIgnore, Pending
    <3> QED BY <1>10, <2>4, <3>1
  <2>8. ~TPerStart /\ ~TPerMethod /\ ~TPerEnd /\ ~TPerOdd
    BY <1>4, <1>10, <2>2 DEF TPerStart, TPerMethod, TPerEnd
  <2> QED BY <2>5, <2>6, <2>7, <2>8 DEF TPer
<1>11. RevertInv'
  <2>1. ASSUME NEW s \in Sess, trouble'[s] \subseteq {"abort"}, life[s] = "alive", ~autoClose[s]
        PROVE  FALSE
    BY <1>2, <1>3, <2>1 DEF ClaimInv, RevertInv, Fine
  <2>2. (\A s \in Sess : ~(Fine(s) /\ life[s] = "alive" /\ ~autoClose[s]))'
    BY <1>1, <2>1 DEF Fine
  <2>3. pc = "inSend" /\ prog = "revert" /\ trouble'[who] \subseteq {"abort"} => clean
    BY <1>0, <1>2 DEF ClaimInv, RevertInv, Fine
  <2>4. (pc = "inSend" /\ prog = "revert" /\ Fine(who) =>
           clean /\ \A a \in Pending : a.body.class = "refused" \/ tper = {})'
    BY <1>1, <1>10, <2>3 DEF Fine
  <2> QED BY <2>2, <2>4 DEF RevertInv
<1> QED BY <1>8, <1>9, <1>11 DEF ClaimInv

LEMMA ClaimAbort ==
  ASSUME HoldInv, ClaimInv, TPerAbort
  PROVE  ClaimInv'
<1>0. TypeOK /\ [Next]_vars /\ who \in Sess
  BY DEF HoldInv, CallsInv, Next, TypeOK
<1>1. /\ UNCHANGED <<life, opened, tsn, autoClose, pc, who, prog, busy, sent, clean, inbox, outbox, owner>>
      /\ tper' \subseteq tper /\ tper # {}
  <2>1. UNCHANGED <<inbox, outbox, owner>> /\ tper' \subseteq tper /\ tper # {}
    BY DEF TPerAbort, rpcVars
  <2> QED BY <2>1, TPerFrame
<1>2. \A u \in Sess : Fine(u)' => Fine(u)
  BY <1>0, HistoryGrows DEF Fine
<1>3. Pending' = Pending /\ Waiting' = Waiting
  BY <1>1 DEF Pending, Waiting
<1>4. (\A t \in tper : Fine(owner[t]) => ClaimedBy(owner[t], t))'
  <2> SUFFICES ASSUME NEW t \in tper', NEW o, o = owner[t], trouble'[o] \subseteq {"abort"}
               PROVE  ClaimedBy(o, t)'
    BY <1>1 DEF Fine, ClaimedBy
  <2>1. o \in Sess
    BY <1>0, <1>1, ElementOfSeq DEF TypeOK
  <2>2. ClaimedBy(o, t)
    BY <1>1, <1>2, <2>1 DEF ClaimInv, Fine
  <2> QED BY <1>1, <1>3, <2>2 DEF ClaimedBy
<1>5. StartInv'
  <2>1. (\A a \in Pending : a.body.tok5 > 0 /\ Fine(a.to.sess) => pc = "inStart" /\ who = a.to.sess)'
    BY <1>0, <1>1, <1>2, <1>3, QueuesTyped DEF ClaimInv, StartInv
  <2>2. (\A p \in Waiting : p.op = "StartSession" /\ Fine(p.sess) => pc = "inStart" /\ who = p.sess)'
    BY <1>0, <1>1, <1>2, <1>3, QueuesTyped DEF ClaimInv, StartInv
  <2>3. Fine(who)' => Fine(who)
    BY <1>0, <1>1, <1>2 DEF Fine
  <2>4. (pc = "inStart" /\ Fine(who) => ~opened[who])'
    BY <1>1, <2>3 DEF ClaimInv, StartInv
  <2>5. (pc = "started" /\ Fine(who) => inbox = <<>> /\ outbox = <<>>)'
    BY <1>1, <2>3 DEF ClaimInv, StartInv
  <2> QED BY <2>1, <2>2, <2>4, <2>5 DEF StartInv
<1>6. RevertInv'
  <2>1. (\A s \in Sess : ~(Fine(s) /\ life[s] = "alive" /\ ~autoClose[s]))'
    BY <1>1, <1>2 DEF ClaimInv, RevertInv
  <2>2. Fine(who)' => Fine(who)
    BY <1>0, <1>1, <1>2 DEF Fine
  <2>3. (pc = "inSend" /\ prog = "revert" /\ Fine(who) =>
           clean /\ \A a \in Pending : a.body.class = "refused" \/ tper = {})'
    BY <1>1, <1>3, <2>2 DEF ClaimInv, RevertInv
  <2> QED BY <2>1, <2>3 DEF RevertInv
<1> QED BY <1>4, <1>5, <1>6 DEF ClaimInv

(***************************************************************************)
(* Every session of an object with which nothing went wrong is claimed,    *)
(* step by step through start, close, the destructor and the device        *)
(* functions, and a device without an SSC never opens one                  *)
(* (tcg_session_impl.cc:44-56, 135-155; tcg_device_opal_base.cc:32).       *)
(***************************************************************************)
THEOREM ClaimCorrect == Spec => [](ClaimInv /\ DeviceInv)
<1>1. Init => ClaimInv /\ DeviceInv
  <2> SUFFICES ASSUME Init PROVE ClaimInv /\ DeviceInv
    OBVIOUS
  <2>1. /\ pc = "idle" /\ tper = {} /\ inbox = <<>> /\ outbox = <<>> /\ Pending = {} /\ Waiting = {}
        /\ \A s \in Sess : life[s] = "unborn"
    BY InitCalls DEF Init, Rpc!RpcInit
  <2>2. StartInv /\ RevertInv
    BY <2>1 DEF StartInv, RevertInv
  <2> QED BY <2>1, <2>2 DEF ClaimInv, DeviceInv, InCall
<1>2. HoldInv /\ ClaimInv /\ DeviceInv /\ [Next]_vars => ClaimInv' /\ DeviceInv'
  <2>1. HoldInv => TypeOK
    BY DEF HoldInv, CallsInv
  <2> QED BY <2>1, DeviceStep, ClaimProgram, ClaimCalls, ClaimDelivery, ClaimStart, ClaimReturns,
         ClaimTPer, ClaimAbort DEF Next, Library
<1> QED BY <1>1, <1>2, HoldCorrect, PTL DEF Spec

(***************************************************************************)
(* Whatever the program does with its objects, every session open in the   *)
(* TPer belongs to an object that will still close it, or its EndOfSession *)
(* is on its way, unless something went wrong in the calls of that object  *)
(* (tcg_session_impl.cc:44-56, 135-155; tcg_device_opal_base.cc:32).       *)
(***************************************************************************)
THEOREM NoneLeft == Spec => []NoSessionLeft
<1>1. HoldInv /\ ClaimInv => NoSessionLeft
  <2> SUFFICES ASSUME HoldInv, ClaimInv, NEW t \in tper, trouble[owner[t]] \subseteq {"abort"}
               PROVE  Claimed(t)
    BY DEF NoSessionLeft
  <2>1. owner[t] \in Sess
    BY ElementOfSeq DEF HoldInv, CallsInv, TypeOK
  <2>2. ClaimedBy(owner[t], t)
    BY DEF ClaimInv, Fine
  <2>3. \A p \in Waiting : \E i \in DOMAIN inbox : inbox[i] = p
    BY DEF Waiting, Range
  <2> QED BY <2>1, <2>2, <2>3 DEF ClaimedBy, Claimed
<1> QED BY <1>1, HoldCorrect, ClaimCorrect, PTL

-----------------------------------------------------------------------------
(* EndOfSession *)

\* The variables EndOnce speaks of.
CountsOK ==
  /\ opened \in [Sess -> BOOLEAN]
  /\ starts \in [Sess -> Nat]
  /\ ends \in [Sess -> Nat]
  /\ who \in Sess

\* An object that is open has one EndOfSession to its credit.
CountInv ==
  /\ CountsOK
  /\ \A s \in Sess : ends[s] <= starts[s] /\ (opened[s] => ends[s] < starts[s])

\* close() takes the credit.
LEMMA CloseStep ==
  ASSUME CountInv, NEW s \in Sess, NEW in, CloseOpened(s, in), UNCHANGED starts, who' \in Sess
  PROVE  CountInv'
<1> USE DEF CountInv, CountsOK
<1>1. /\ opened[s] /\ opened' = [opened EXCEPT ![s] = FALSE]
      /\ ends' = [ends EXCEPT ![s] = @ + 1]
  BY DEF CloseOpened
<1>2. opened' \in [Sess -> BOOLEAN] /\ ends' \in [Sess -> Nat]
  BY <1>1
<1>3. ASSUME NEW t \in Sess
      PROVE  ends'[t] <= starts[t] /\ (opened'[t] => ends'[t] < starts[t])
  BY <1>1
<1> QED BY <1>2, <1>3

\* start() grants it, each time it finds SUCCESS.
LEMMA StartStep ==
  ASSUME CountInv, StartReturns
  PROVE  CountInv'
<1> USE DEF CountInv, CountsOK
<1> DEFINE ok == SendCode(ret') = "OK"
<1>1. /\ opened' = [opened EXCEPT ![who] = @ \/ ok]
      /\ starts' = [starts EXCEPT ![who] = IF ok THEN @ + 1 ELSE @]
      /\ UNCHANGED <<ends, who>>
  BY DEF StartReturns
<1> HIDE DEF ok
<1>2. CASE ok
  <2>1. /\ opened' = [opened EXCEPT ![who] = TRUE]
        /\ starts' = [starts EXCEPT ![who] = starts[who] + 1]
    BY <1>1, <1>2
  <2> QED BY <1>1, <2>1
<1>3. CASE ~ok
  <2>1. opened' = opened /\ starts' = starts
    BY <1>1, <1>3
  <2> QED BY <1>1, <2>1
<1> QED BY <1>2, <1>3

LEMMA CountStep ==
  ASSUME CountInv, [Next]_vars
  PROVE  CountInv'
<1>1. ASSUME UNCHANGED <<opened, starts, ends>>, who' \in Sess PROVE CountInv'
  BY <1>1 DEF CountInv, CountsOK
<1>2. CASE Program
  <2>1. PICK s \in Sess :
          \/ Create(s) \/ Start(s) \/ \E op \in Ops : Command(s, op)
          \/ DontAutoClose(s) \/ Close(s) \/ Destroy(s)
          \/ \E f \in {"revert", "msid"} : RunDeviceFunction(s, f)
    BY <1>2 DEF Program
  <2>2. CASE Close(s)
    BY <2>2, CloseStep DEF Close
  <2>3. CASE ~Close(s)
    <3>1. UNCHANGED <<opened, starts, ends>> /\ who' \in Sess
      BY <2>1, <2>3 DEF CountInv, CountsOK, Create, Start, Command, DontAutoClose, Destroy,
        RunDeviceFunction, objVars, threadVars, countVars
    <3> QED BY <3>1, <1>1
  <2> QED BY <2>2, <2>3
<1>3. CASE Destructor
  <2>1. CASE CloseOpened(who, "inDtor")
    BY <1>3, <2>1, CloseStep DEF Destructor, CountInv, CountsOK
  <2>2. CASE UNCHANGED <<opened, serial, ends, rpcVars>>
    BY <1>1, <1>3, <2>2 DEF Destructor, CountInv, CountsOK
  <2> QED BY <1>3, <2>1, <2>2 DEF Destructor
<1>4. CASE StartReturns
  BY <1>4, StartStep
<1>5. CASE SecondCommand \/ Deliver \/ SendReturns \/ AuthReturns \/ CloseReturns \/ Lose
  <2>1. UNCHANGED <<opened, starts, ends, who>>
    BY <1>5 DEF SecondCommand, Deliver, SendReturns, AuthReturns, CloseReturns, Lose,
      objVars, threadVars, countVars
  <2> QED BY <2>1, <1>1 DEF CountInv, CountsOK
<1>6. CASE TPer \/ TPerOdd \/ TPerAbort
  <2>1. TPerRest
    BY <1>6 DEF TPer, TPerStart, TPerRefuse, TPerMethod, TPerEnd, TPerRevert, TPerIgnore,
      TPerOdd, TPerAbort
  <2> QED BY <2>1, <1>1 DEF TPerRest, objVars, threadVars, countVars, CountInv, CountsOK
<1>7. CASE UNCHANGED vars
  BY <1>1, <1>7 DEF vars, objVars, threadVars, countVars, CountInv, CountsOK
<1> QED BY <1>2, <1>3, <1>4, <1>5, <1>6, <1>7 DEF Next, Library

(***************************************************************************)
(* For any number of objects and any faults: close, the destructors and    *)
(* the device functions together send EndOfSession at most once for each   *)
(* time an object's start succeeded (tcg_session_impl.cc:40-56, 135).      *)
(***************************************************************************)
THEOREM EndedOnce == Spec => []EndOnce
<1>1. Init => CountInv
  BY DEF Init, CountInv, CountsOK
<1>2. CountInv /\ [Next]_vars => CountInv'
  BY CountStep
<1>3. CountInv => EndOnce
  BY DEF CountInv, EndOnce
<1> QED BY <1>1, <1>2, <1>3, PTL DEF Spec

=============================================================================
