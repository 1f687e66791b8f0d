---------------------------- MODULE TcgResponse ----------------------------
(***************************************************************************)
(* From the bytes of a TCG answer to the verdict on the command: commit()  *)
(* cuts the sub-packet into tokens (src/tcg/tcg_response_impl.cc), the     *)
(* conversions read one (include/jcu-dparm/tcg/tcg_token.h), and the       *)
(* second half of sendCommand looks for the method status                  *)
(* (src/tcg/tcg_session_impl.cc).                                          *)
(*                                                                         *)
(* The drive decides on the tokens, one at a time, while they are cut.     *)
(* Of the tokens cut so far only the number, the last five and whether the *)
(* first one ends the session are kept: nothing here looks at others.      *)
(***************************************************************************)
EXTENDS Integers, Sequences

CONSTANTS
  Room,   \* the bytes of the response buffer behind the headers
  Word    \* 2^32, the values of an unsigned int

ASSUME ResponseAssumption ==
  /\ Room \in Nat
  /\ Word \in Nat /\ Word > Room /\ Word > 5

(***************************************************************************)
(* Tokens, by what type() and getUint64() make of them.  "UINT" are those  *)
(* that count as a number: tiny and short unsigned atoms, and short byte   *)
(* strings too.  "OTHER" are the signed, medium and long atoms and the     *)
(* control tokens nobody asks for.  A token says itself how long it is.    *)
(***************************************************************************)
Number(v) == [type |-> "UINT", val |-> v, size |-> IF v < 64 THEN 1 ELSE 3]
Control(name) == [type |-> name, val |-> 0, size |-> 1]
Long == [type |-> "OTHER", val |-> 0, size |-> 4]

Token ==
  {Number(v) : v \in {0, 1, 256}} \cup {Long}
    \cup {Control(c) : c \in {"STARTLIST", "ENDLIST", "ENDOFSESSION", "OTHER"}}

\* getUint8 truncates, and says OK.
getUint8(t) == t.val % 256

VARIABLES
  pc,      \* "commit", "cut", "verdict" or "done"
  length,  \* subpkt.length
  blank,   \* cp.length or pkt.length is 0
  cur,     \* where the next token starts
  count,   \* getTokenCount()
  ended,   \* token 0 is ENDOFSESSION
  tail,    \* the last tokens, five at most
  code,    \* what sendCommand returns
  status,  \* ... and the method status with it
  null     \* history: a token that is not there was looked into

responseHeaders == <<length, blank>>
responseVars == <<pc, responseHeaders, cur, count, ended, tail, code, status, null>>

ResponseInit ==
  /\ pc = "commit"
  /\ length \in 0 .. Room + 1
  /\ blank \in BOOLEAN
  /\ cur = 0
  /\ count = 0
  /\ ended = FALSE
  /\ tail = <<>>
  /\ code = "none"
  /\ status = 0
  /\ null = FALSE

-----------------------------------------------------------------------------
(* commit *)

\* A sub-packet that says it is longer than the buffer.
Overlong ==
  /\ pc = "commit"
  /\ length > Room
  /\ pc' = "done"
  /\ code' = "ILLEGAL_DATA"
  /\ UNCHANGED <<responseHeaders, cur, count, ended, tail, status, null>>

Begin ==
  /\ pc = "commit"
  /\ length <= Room
  /\ pc' = "cut"
  /\ UNCHANGED <<responseHeaders, cur, count, ended, tail, code, status, null>>

Keep(t) ==
  /\ count' = count + 1
  /\ ended' = IF count = 0 THEN t.type = "ENDOFSESSION" ELSE ended
  /\ tail' = Append(IF Len(tail) < 5 THEN tail ELSE Tail(tail), t)

\* An empty atom is passed over.  A token that says it reaches behind the
\* sub-packet is taken whole.
Cut ==
  /\ pc = "cut"
  /\ cur < length
  /\ \/ /\ cur' = cur + 1
        /\ UNCHANGED <<count, ended, tail>>
     \/ \E t \in Token :
          /\ cur' = cur + t.size
          /\ Keep(t)
  /\ UNCHANGED <<pc, responseHeaders, code, status, null>>

Commit ==
  /\ pc = "cut"
  /\ cur >= length
  /\ pc' = "verdict"
  /\ UNCHANGED <<responseHeaders, cur, count, ended, tail, code, status, null>>

-----------------------------------------------------------------------------
(* sendCommand *)

\* getToken(getTokenCount() - k) is a token: the subtraction is unsigned.
Exists(k) == (count - k) % Word < count
FromEnd(k) == tail[Len(tail) + 1 - k]

Return(c, s) ==
  /\ pc' = "done"
  /\ code' = c
  /\ status' = s
  /\ UNCHANGED <<responseHeaders, cur, count, ended, tail>>

\* (Mutant: only the last token is tested for being there.)
ListedLast ==
  /\ Exists(1)
  /\ ~(FromEnd(1).type # "ENDLIST" /\ Exists(5) /\ FromEnd(5).type = "STARTLIST")

\* What sendCommand asks of the last tokens before it reads the status.
Listed ==
  /\ Exists(1) /\ Exists(5)
  /\ ~(FromEnd(1).type # "ENDLIST" /\ FromEnd(5).type = "STARTLIST")

\* A header length of 0 says that no payload was received.
Payload == length > 0 /\ ~blank /\ count > 0

Unlisted ==
  /\ pc = "verdict"
  /\ ~Payload \/ (~ended /\ ~Listed)
  /\ Return("ILLEGAL_RESPONSE", 0)
  /\ UNCHANGED null

EndOfSession ==
  /\ pc = "verdict"
  /\ Payload /\ ended
  /\ Return("OK", 0)
  /\ UNCHANGED null

\* (Mutant: the status is taken from the wrong place.)
JudgeThird ==
  /\ pc = "verdict"
  /\ Payload /\ ~ended /\ Listed
  /\ LET t == FromEnd(3) IN
       IF t.type # "UINT" THEN Return("ILLEGAL_DATA", 0)
       ELSE Return(IF getUint8(t) = 0 THEN "OK" ELSE "TCG_ERROR_STATUS", getUint8(t))
  /\ UNCHANGED null

\* The token before the last three is dereferenced without a test.
Judge ==
  /\ pc = "verdict"
  /\ Payload /\ ~ended /\ Listed
  /\ IF ~Exists(4)
     THEN null' = TRUE /\ Return("none", 0)
     ELSE /\ UNCHANGED null
          /\ LET t == FromEnd(4) IN
               IF t.type # "UINT" THEN Return("ILLEGAL_DATA", 0)
               ELSE Return(IF getUint8(t) = 0 THEN "OK" ELSE "TCG_ERROR_STATUS", getUint8(t))

ResponseNext ==
  \/ Overlong \/ Begin \/ Cut \/ Commit
  \/ Unlisted \/ EndOfSession \/ Judge

ResponseSpec == ResponseInit /\ [][ResponseNext]_responseVars
-----------------------------------------------------------------------------
(* Properties *)

\* The variables have their types: a status is a byte.
ResponseTypeOK ==
  /\ pc \in {"commit", "cut", "verdict", "done"}
  /\ length \in 0 .. Room + 1 /\ blank \in BOOLEAN
  /\ cur \in Nat /\ count \in Nat /\ ended \in BOOLEAN
  /\ tail \in Seq(Token) /\ Len(tail) = (IF count < 5 THEN count ELSE 5)
  /\ code \in {"none", "OK", "ILLEGAL_DATA", "ILLEGAL_RESPONSE", "TCG_ERROR_STATUS"}
  /\ status \in 0 .. 255
  /\ null \in BOOLEAN

\* commit() keeps fewer tokens than fit behind the headers: not more than the
\* bytes it has passed, and every one of them starts inside the response buffer
\* (though its own length may carry it out of the sub-packet and the buffer).
StartsInside == count <= cur /\ count <= length /\ (count > 0 => length <= Room)

\* sendCommand dereferences the status token without a test of its own: the
\* tests of two other tokens must imply that it is there, for every number of
\* tokens, also when an unsigned subtraction wraps.
NoStrayToken == ~null

\* An answer that ends like a method's answer, in a list of a status and two
\* reserved zeros, is reported as what it is.
StatusTold ==
  pc = "done" /\ Payload /\ ~ended /\ Len(tail) = 5
    /\ FromEnd(5).type = "STARTLIST" /\ FromEnd(1).type = "ENDLIST"
    /\ FromEnd(4).type = "UINT" /\ FromEnd(4).size = 1
  => IF FromEnd(4).val = 0 THEN code = "OK" ELSE code = "TCG_ERROR_STATUS" /\ status = FromEnd(4).val

\* The comment in sendCommand, "No method status": only an answer that ends in
\* a list, or that ends the session, is success.  The code rejects an answer
\* only if it has the start of such a list and not its end.
OnlyWithStatus ==
  code = "OK" /\ ~ended =>
    Len(tail) = 5 /\ FromEnd(5).type = "STARTLIST" /\ FromEnd(1).type = "ENDLIST"
=============================================================================
