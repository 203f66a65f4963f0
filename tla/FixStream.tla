------------------------------- MODULE FixStream ------------------------------
(***************************************************************************)
(* include/lob/fix_parser.hpp: parse() on the buffer of a caller that      *)
(* drains a stream, where messages arrive cut anywhere.                    *)
(*                                                                         *)
(* A field tag=value<SOH> is three symbols: the tag with its =, the value, *)
(* the SOH.  A symbol is what one byte is to the parser: the unit lengths, *)
(* positions and cuts are counted in, with a number to add to the checksum.*)
(* Values are numbers or words; widths of numbers are left out.            *)
(***************************************************************************)
EXTENDS Integers, Sequences, SequencesExt, FiniteSetsExt, TLC

CONSTANTS MaxBody,    \* max_message_size
          Defects,    \* what may be wrong with one message of the stream
          MaxChunk    \* symbols one read of the caller may bring

Tag(n) == [tag |-> n]
Num(n) == [num |-> n]
Word(w) == [word |-> w]
SOH == [soh |-> 1]

(***************************************************************************)
(* parse                                                                   *)
(***************************************************************************)
octet(b) ==
  CASE "tag" \in DOMAIN b -> b.tag
    [] "num" \in DOMAIN b -> 100 + b.num
    [] "word" \in DOMAIN b -> 200
    [] OTHER -> 1

SumOf(s) ==
  LET sum[k \in 0..Len(s)] == IF k = 0 THEN 0 ELSE (sum[k - 1] + octet(s[k])) % 256
  IN  sum[Len(s)]

\* The field that starts after the first pos symbols of buf.
read_field(buf, pos) ==
  LET ends == {k \in pos + 2..Len(buf) : buf[k] = SOH}
  IN  CASE Len(buf) <= pos -> [st |-> "need_more"]
        [] Len(buf) > pos /\ "tag" \notin DOMAIN buf[pos + 1] -> [st |-> "bad"]
        [] Len(buf) > pos /\ "tag" \in DOMAIN buf[pos + 1] /\ ends = {} -> [st |-> "need_more"]
        [] OTHER -> [st |-> "ok", tag |-> buf[pos + 1].tag, end |-> Min(ends),
                     value |-> SubSeq(buf, pos + 2, Min(ends) - 1)]

\* to_uint: the whole value is a number.
is_uint(v) == Len(v) = 1 /\ "num" \in DOMAIN v[1]

\* An id is not one of the two reserved numbers; 0 stands for both.
is_id(v) == is_uint(v) /\ v[1].num # 0

Numeric == {1, 38, 44}
Ids == {11, 41}
Coded == [t \in {54, 59} |-> IF t = 54 THEN (1 :> "bid" @@ 2 :> "ask")
                             ELSE (0 :> "gtc" @@ 1 :> "gtc" @@ 3 :> "ioc" @@ 4 :> "fok")]

\* Faulty: the reserved ids pass.
good_value_any_id(tag, v) ==
  CASE tag \in Numeric \cup Ids -> is_uint(v)
    [] tag \in DOMAIN Coded -> is_uint(v) /\ v[1].num \in DOMAIN Coded[tag]
    [] OTHER -> TRUE

\* The check of each tag of the body; one the parser does not read passes.
good_value(tag, v) ==
  CASE tag \in Numeric -> is_uint(v)
    [] tag \in Ids -> is_id(v)
    [] tag \in DOMAIN Coded -> is_uint(v) /\ v[1].num \in DOMAIN Coded[tag]
    [] OTHER -> TRUE

\* The field loop from pos on: has holds the values so far, the last one of a
\* tag that repeats.
RECURSIVE field_loop(_, _, _)
field_loop(body, pos, has) ==
  LET f == read_field(body, pos)
  IN  IF pos >= Len(body) THEN [err |-> "ok", has |-> has]
      ELSE IF f.st # "ok" THEN [err |-> "malformed", has |-> has]
      ELSE IF ~good_value(f.tag, f.value) THEN [err |-> "bad_field_value", has |-> has]
      ELSE field_loop(body, f.end,
             IF f.tag \in Numeric \cup Ids \cup DOMAIN Coded
               THEN (f.tag :> f.value[1].num) @@ has ELSE has)

Required == [D |-> {11, 54, 38, 44}, F |-> {41}, G |-> {11, 41, 38, 44}]

\* The command, from the fields the body had.
Command(type, has) ==
  CASE type = "D" -> [k |-> "submit", id |-> has[11], px |-> has[44], qty |-> has[38],
                      s |-> Coded[54][has[54]],
                      t |-> IF 59 \in DOMAIN has THEN Coded[59][has[59]] ELSE "gtc",
                      account |-> IF 1 \in DOMAIN has THEN has[1] ELSE 0]
    [] type = "F" -> [k |-> "cancel", id |-> has[41]]
    [] type = "G" -> [k |-> "modify", id |-> has[41], new_px |-> has[44],
                      new_qty |-> has[38], new_id |-> has[11]]

Fail(e) == [err |-> e, cmd |-> [k |-> "none"], consumed |-> 0]

\* The envelope has been found good: MsgType, the fields, the command.
parse_body(buf, body_start, cs_start, total) ==
  LET body == SubSeq(buf, 1, cs_start)
      lead == read_field(body, body_start)
      end  == field_loop(body, lead.end, << >>)
      type == IF Len(lead.value) = 1 /\ "word" \in DOMAIN lead.value[1]
                THEN lead.value[1].word ELSE "none"
  IN  IF lead.st # "ok" \/ lead.tag # 35 THEN Fail("malformed")
      ELSE IF end.err # "ok" THEN Fail(end.err)
      ELSE IF type \notin DOMAIN Required THEN Fail("unsupported_msg_type")
      ELSE IF ~(Required[type] \subseteq DOMAIN end.has) THEN Fail("missing_field")
      ELSE [err |-> "ok", cmd |-> Command(type, end.has), consumed |-> total]

\* Faulty: any BodyLength is waited for.
body_length_uncapped(v) == is_uint(v)

\* BodyLength is a number and no more than the cap.
body_length_ok(v) == is_uint(v) /\ v[1].num <= MaxBody

\* The length of the whole message, the three symbols of CheckSum included.
frame(body_start, body_len) == body_start + body_len + 3

parse(buf) ==
  LET f8 == read_field(buf, 0)
      f9 == read_field(buf, f8.end)
      body_start == f9.end
      total == frame(body_start, f9.value[1].num)
      cs_start == total - 3
  IN  IF f8.st = "need_more" THEN Fail("incomplete")
      ELSE IF f8.st = "bad" \/ f8.tag # 8 THEN Fail("malformed")
      ELSE IF f8.value # <<Word("FIX.4.4")>> THEN Fail("bad_begin_string")
      ELSE IF f9.st = "need_more" THEN Fail("incomplete")
      ELSE IF f9.st = "bad" \/ f9.tag # 9 THEN Fail("malformed")
      ELSE IF ~body_length_ok(f9.value) THEN Fail("bad_body_length")
      ELSE IF Len(buf) < total THEN Fail("incomplete")
      ELSE IF buf[cs_start + 1] # Tag(10) \/ buf[total] # SOH \/ ~is_uint(<<buf[total - 1]>>)
             THEN Fail("malformed")
      ELSE IF SumOf(SubSeq(buf, 1, cs_start)) # buf[total - 1].num THEN Fail("bad_checksum")
      ELSE parse_body(buf, body_start, cs_start, total)

(***************************************************************************)
(* The stream                                                              *)
(***************************************************************************)
\* A message: its type and its fields, numbers by tag in the order written.
Messages == {
  [type |-> "D", f |-> << <<11, 1>>, <<1, 7>>, <<54, 2>>, <<38, 5>>, <<44, 3>>, <<59, 3>> >>],
  [type |-> "F", f |-> << <<11, 2>>, <<41, 1>> >>],
  [type |-> "G", f |-> << <<41, 1>>, <<11, 3>>, <<55, 9>>, <<38, 4>>, <<44, 2>> >>] }

ByTag(f) == [t \in {f[k][1] : k \in DOMAIN f} |-> f[CHOOSE k \in DOMAIN f : f[k][1] = t][2]]

Sent == {[m |-> m, defect |-> d] : m \in Messages, d \in {"none"}}
Spoilt == {[m |-> m, defect |-> d] : m \in Messages, d \in Defects}

\* What a sender writes for a message.
Body(x) ==
  LET f == IF x.defect = "missing" THEN SelectSeq(x.m.f, LAMBDA v : v[1] \notin {11, 41}) ELSE x.m.f
      value(v) == CASE x.defect = "value" /\ v[1] = 11 -> Word("x")
                    [] x.defect = "reserved" /\ v[1] = 11 -> Num(0)
                    [] OTHER -> Num(v[2])
      type == IF x.defect = "type" THEN "Z" ELSE x.m.type
  IN  <<Tag(35), Word(type), SOH>>
        \o FlattenSeq([k \in DOMAIN f |-> <<Tag(f[k][1]), value(f[k]), SOH>>])

Wire(x) ==
  LET body == Body(x)
      len == Len(body) + CASE x.defect = "short" -> -1
                           [] x.defect = "long"  -> 1
                           [] x.defect = "huge"  -> MaxBody
                           [] OTHER -> 0
      begin == IF x.defect = "begin" THEN "FIX.4.2" ELSE "FIX.4.4"
      head == <<Tag(8), Word(begin), SOH, Tag(9), Num(len), SOH>>
      sum == SumOf(head \o body)
  IN  head \o body
        \o <<Tag(10), Num(IF x.defect = "checksum" THEN (sum + 1) % 256 ELSE sum), SOH>>

VARIABLES
  sent,   \* the messages of the stream
  wire,   \* what of it has not arrived
  buf,    \* the caller's buffer
  got,    \* the commands it has got
  err     \* its last result

fvars == <<sent, wire, buf, got, err>>

FInit ==
  /\ sent \in (Sent \X Sent) \cup (Sent \X Spoilt) \cup (Spoilt \X Sent)
  /\ wire = FlattenSeq([k \in 1..2 |-> Wire(sent[k])])
  /\ buf = << >> /\ got = << >> /\ err = "incomplete"

\* More bytes arrive while the caller waits for them.
Receive ==
  /\ err = "incomplete"
  /\ \E k \in 1..Len(wire) :
       /\ k <= MaxChunk
       /\ buf' = buf \o SubSeq(wire, 1, k) /\ wire' = SubSeq(wire, k + 1, Len(wire))
  /\ err' = "ok"
  /\ UNCHANGED <<sent, got>>

\* The caller parses: it advances by consumed on ok, waits on incomplete, and
\* gives up on anything else.
Drain ==
  /\ err = "ok"
  /\ LET r == parse(buf)
     IN  /\ err' = r.err
         /\ got' = IF r.err = "ok" THEN Append(got, r.cmd) ELSE got
         /\ buf' = SubSeq(buf, r.consumed + 1, Len(buf))
  /\ UNCHANGED <<sent, wire>>

FNext == Receive \/ Drain

FSpec == FInit /\ [][FNext]_fvars

(***************************************************************************)
(* Properties                                                              *)
(***************************************************************************)
\* What a message says, read off the message instead of its bytes.
Meaning(x) ==
  CASE x.defect = "none" -> "ok"
    [] x.defect = "begin" -> "bad_begin_string"
    [] x.defect = "huge" -> "bad_body_length"
    [] x.defect \in {"short", "long"} -> "malformed"
    [] x.defect = "checksum" -> "bad_checksum"
    [] x.defect = "type" -> "unsupported_msg_type"
    [] x.defect = "missing" -> "missing_field"
    [] x.defect \in {"value", "reserved"} -> "bad_field_value"

\* However the stream is cut, and whatever bytes of the next message are
\* already there, the caller gets the commands of the messages sent, in order,
\* up to the first that is wrong, and for that one the error that names it.
StreamExact ==
  /\ \A k \in 1..Len(got) :
       sent[k].defect = "none" /\ got[k] = Command(sent[k].m.type, ByTag(sent[k].m.f))
  /\ err \notin {"ok", "incomplete"} =>
       Len(got) < 2 /\ err = Meaning(sent[Len(got) + 1])

\* The caller waits only for bytes that are still to come: when all have arrived
\* it has every command or an error.  A BodyLength beyond the cap is an error;
\* one a little too long holds a last message back, as a cut one would.
WaitsOnlyForMore ==
  wire = << >> /\ err = "incomplete" => Len(got) = 2 \/ sent[2].defect = "long"
===============================================================================
