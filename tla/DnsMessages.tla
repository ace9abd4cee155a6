----------------------------- MODULE DnsMessages -----------------------------
(***************************************************************************)
(* What the forwarder reads in a query: where its questions end, and how   *)
(* long an answer over UDP may be (dns_fallback.go:590-700).  A message is *)
(* a sequence of bytes, the one at offset o being msg[o + 1]; numbers have *)
(* two of them.                                                            *)
(***************************************************************************)
EXTENDS Naturals, Sequences, FiniteSets

CONSTANTS
  Labels,      \* names, as they are written: labels, a pointer, the root
  Sizes,       \* payload sizes a client may declare
  Others       \* types of the other records

VARIABLES query, declared

vars == <<query, declared>>

Base == 512
MaxMessage == 4096
OPT == 41
Bad == 0

Byte(msg, o) == msg[o + 1]
Word(msg, o) == Byte(msg, o) * 256 + Byte(msg, o + 1)
Bytes(n) == <<n \div 256, n % 256>>

(* Offsets behind a name, a question, a record; Bad when it is cut off.    *)
SkipName(msg, start) ==
  LET skip[o \in 0 .. Len(msg) + 64] ==
        IF o >= Len(msg) THEN Bad
        ELSE LET length == Byte(msg, o)
             IN IF length = 0 THEN o + 1
                ELSE IF length >= 192 THEN IF o + 2 > Len(msg) THEN Bad ELSE o + 2
                ELSE IF length >= 64 \/ o + 1 + length > Len(msg) THEN Bad
                ELSE skip[o + 1 + length]
  IN skip[start]

SkipQuestion(msg, start) ==
  LET o == SkipName(msg, start) IN IF o = Bad \/ o + 4 > Len(msg) THEN Bad ELSE o + 4

SkipRecord(msg, start) ==
  LET o == SkipName(msg, start)
      end == IF o = Bad \/ o + 10 > Len(msg) THEN Bad ELSE o + 10 + Word(msg, o + 8)
  IN IF end > Len(msg) THEN Bad ELSE end

QuestionEnd(msg) ==
  LET qd == Word(msg, 4)
      after[n \in 0 .. qd] ==
        IF n = 0 THEN 12
        ELSE IF after[n - 1] = Bad THEN Bad ELSE SkipQuestion(msg, after[n - 1])
  IN IF Len(msg) < 12 \/ qd < 1 THEN Bad ELSE after[qd]

(* isValidDNSQuery.                                                        *)
IsValidQuery(msg) == Len(msg) >= 12 /\ Byte(msg, 2) < 128 /\ QuestionEnd(msg) # Bad

(* dnsUDPPayloadLimit: the records are skipped up to one of type OPT.  Its *)
(* type is read two bytes behind its start, and its size four.             *)
Clamp(size) == IF size < Base THEN Base ELSE IF size > MaxMessage THEN MaxMessage ELSE size

PayloadLimit(msg) ==
  LET behind == Word(msg, 6) + Word(msg, 8)
      total == behind + Word(msg, 10)
      start[n \in 0 .. total] ==
        IF n = 0 THEN QuestionEnd(msg)
        ELSE IF start[n - 1] = Bad THEN Bad ELSE SkipRecord(msg, start[n - 1])
      IsOpt(n) == start[n] # Bad /\ start[n] + 6 <= Len(msg) /\ Word(msg, start[n] + 2) = OPT
      opts == {n \in behind .. total - 1 : IsOpt(n)}
  IN IF QuestionEnd(msg) = Bad \/ opts = {} THEN Base
     ELSE Clamp(Word(msg, start[CHOOSE n \in opts : \A m \in opts : n <= m] + 4))

-----------------------------------------------------------------------------
(* Queries as clients write them (RFC 1035, 6891): a header, one question, *)
(* then other records and, perhaps, an OPT record, whose name is the root  *)
(* and whose class is the size the client can receive.                     *)
Header(additional) == <<7, 7, 1, 0>> \o Bytes(1) \o Bytes(0) \o Bytes(0) \o Bytes(additional)
Question(name) == name \o Bytes(1) \o Bytes(1)
Record(name, type, class) == name \o Bytes(type) \o Bytes(class) \o <<0, 0, 0, 0>> \o Bytes(0)

Init ==
  \E name \in Labels, before \in {<<>>} \union {<<Record(n, t, 1)>> : n \in Labels, t \in Others} :
    LET front == IF before = <<>> THEN <<>> ELSE before[1]
    IN \/ /\ declared = Base
          /\ query = Header(Len(before)) \o Question(name) \o front
       \/ \E size \in Sizes :
            /\ declared = Clamp(size)
            /\ query = Header(Len(before) + 1) \o Question(name) \o front
                       \o Record(<<0>>, OPT, size)

Spec == Init /\ [][UNCHANGED vars]_vars

-----------------------------------------------------------------------------
(* "the size in the OPT record, 4096 at most" (dns_fallback.go:650).       *)
LimitIsDeclared == IsValidQuery(query) => PayloadLimit(query) = declared
=============================================================================
