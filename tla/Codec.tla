------------------------------- MODULE Codec -------------------------------
(***************************************************************************)
(* The conversions between bytes and text that the protocols use: base64,   *)
(* quoted-printable, percent-encoding, and names and records of DNS.        *)
(* Bytes are numbers.  A behaviour lets the input grow; the property says   *)
(* what the conversions make of it.                                         *)
(***************************************************************************)
EXTENDS Integers, SequencesExt

CONSTANTS Bytes,            \* bytes of an input
          MaxWord,          \* its length
          Records,          \* records of a DNS answer
          MaxRecords,       \* their number
          max_line_limit,   \* a line of base64 (a multiple of 4) and of quoted-printable
          max_label_size, max_name_size

VARIABLES word, rrs

SP == 32
HT == 9
CR == 13
LF == 10
Dot == 46
Equals == 61

(***************************************************************************)
(* mime.h: a byte as two hexadecimal digits                                 *)
(***************************************************************************)
to_hex_pair(lead, c) ==
    LET digit(v) == IF v < 10 THEN 48 + v ELSE 55 + v IN <<lead, digit(c \div 16), digit(c % 16)>>
to_hex_value(c) ==
    CASE c \in 48..57 -> c - 48 [] c \in 65..70 -> c - 55 [] c \in 97..102 -> c - 87 [] OTHER -> -1
ishexnumber(c) == to_hex_value(c) >= 0
from_hex_pair(c1, c2) == to_hex_value(c1) * 16 + to_hex_value(c2)

(***************************************************************************)
(* base64.cc.  The text is made of the places in the alphabet, of EQ, and   *)
(* of Other for a character outside the alphabet.                           *)
(***************************************************************************)
EQ == 64
Other == 65
Quad(a, b, c) == <<a \div 4, (a % 4) * 16 + b \div 16, (b % 16) * 4 + c \div 64, c % 64>>
base64_encode(data, mime) ==
    LET groups == Len(data) \div 3
        group(g) == Quad(data[3 * g - 2], data[3 * g - 1], data[3 * g])
                        \o (IF mime /\ (4 * g) % max_line_limit = 0 THEN <<Other, Other>> ELSE <<>>)
        rest == SubSeq(data, 3 * groups + 1, Len(data))
    IN  FlattenSeq([g \in 1..groups |-> group(g)])
            \o CASE Len(rest) = 0 -> <<>>
                 [] Len(rest) = 1 -> SubSeq(Quad(rest[1], 0, 0), 1, 2) \o <<EQ, EQ>>
                 [] Len(rest) = 2 -> SubSeq(Quad(rest[1], rest[2], 0), 1, 3) \o <<EQ>>

\* The table has 0 for 'A', the first of the alphabet, as for what is not in it.
mapchars(ch) == IF ch \in 1..63 THEN ch ELSE 0

base64_decode(text) ==
    LET bytes(c) == SubSeq(<<(c[1] * 4 + c[2] \div 16) % 256, ((c[2] % 16) * 16 + c[3] \div 4) % 256,
                             ((c[3] % 4) * 64 + c[4]) % 256>>,
                           1, IF c[3] = EQ THEN 1 ELSE IF c[4] = EQ THEN 2 ELSE 3)
        take(acc, v) ==
            LET c == Append(acc.c, v) IN
            IF Len(c) < 4 THEN [acc EXCEPT !.c = c]
            ELSE IF c[3] = EQ /\ c[4] # EQ THEN [acc EXCEPT !.c = <<c[1], c[2], c[4]>>]
            ELSE [c |-> <<>>, res |-> acc.res \o bytes(c), end |-> EQ \in {c[3], c[4]}]
        step(acc, ch) ==
            IF acc.end THEN acc
            ELSE IF mapchars(ch) # 0 THEN take(acc, mapchars(ch))
            ELSE IF ch = EQ /\ Len(acc.c) >= 2 THEN take(acc, EQ) ELSE acc
        all == FoldLeft(step, [c |-> <<>>, res |-> <<>>, end |-> FALSE], text)
    IN  IF Len(text) >= 4 /\ all.c = <<>> THEN all.res ELSE <<>>

(***************************************************************************)
(* mime/qp.cc                                                               *)
(***************************************************************************)
is_QPchar(c) == c \in (33..126 \ {Equals}) \cup {SP, HT}
SoftBreak == <<Equals, CR, LF>>

QP_encode_lost(data) ==     \* mutant: a soft line break takes the place of the byte
    LET step(acc, c) ==
            IF acc.count + 1 <= max_line_limit - 1 /\ is_QPchar(c)
            THEN [res |-> Append(acc.res, c), count |-> acc.count + 1]
            ELSE IF acc.count + 3 <= max_line_limit - 1
            THEN [res |-> acc.res \o to_hex_pair(Equals, c), count |-> acc.count + 3]
            ELSE [res |-> acc.res \o SoftBreak, count |-> 0]
    IN  FoldLeft(step, [res |-> <<>>, count |-> 0], data).res
QP_encode(data) ==
    LET put(acc, c) ==
            IF acc.count + 1 <= max_line_limit - 1 /\ is_QPchar(c)
            THEN [res |-> Append(acc.res, c), count |-> acc.count + 1]
            ELSE [res |-> acc.res \o to_hex_pair(Equals, c), count |-> acc.count + 3]
        step(acc, c) ==
            IF put(acc, c).count <= max_line_limit - 1 THEN put(acc, c)
            ELSE put([res |-> acc.res \o SoftBreak, count |-> 0], c)
        all == FoldLeft(step, [res |-> <<>>, count |-> 0], data)
    IN  IF data # <<>> /\ Last(all.res) \in {SP, HT}
        THEN Front(all.res) \o (IF all.count - 1 + 3 > max_line_limit THEN SoftBreak ELSE <<>>)
                \o to_hex_pair(Equals, Last(all.res))
        ELSE all.res

QP_decode(data) ==
    LET n == Len(data)
        from[i \in 1..(n + 3)] ==
            IF i > n THEN <<>>
            ELSE IF data[i] # Equals THEN <<data[i]>> \o from[i + 1]
            ELSE IF i = n THEN <<>>
            ELSE IF ~ishexnumber(data[i + 1]) /\ data[i + 1] # CR THEN <<Equals, data[i + 1]>> \o from[i + 2]
            ELSE IF i + 1 = n THEN <<Equals, data[i + 1]>>
            ELSE IF ishexnumber(data[i + 1]) /\ ishexnumber(data[i + 2])
            THEN <<from_hex_pair(data[i + 1], data[i + 2])>> \o from[i + 3]
            ELSE IF data[i + 1] = CR /\ data[i + 2] = LF THEN from[i + 3]
            ELSE <<Equals, data[i + 1]>> \o from[i + 3]
    IN  from[1]

(***************************************************************************)
(* uri::encode() and uri::decode()                                          *)
(***************************************************************************)
Percent == 37
Unreserved(c) == c \in (48..57) \cup (65..90) \cup (97..122) \cup {45, 95, Dot, 126, 0}
uri_encode(uri) ==
    FlattenSeq([i \in DOMAIN uri |-> IF Unreserved(uri[i]) THEN <<uri[i]>> ELSE to_hex_pair(Percent, uri[i])])
Fails == <<-1>>
uri_decode(uri) ==
    LET n == Len(uri)
        from[i \in 1..(n + 3)] ==
            IF i > n THEN <<>>
            ELSE IF uri[i] # Percent THEN <<uri[i]>> \o from[i + 1]
            ELSE IF i + 2 > n \/ ~ishexnumber(uri[i + 1]) \/ ~ishexnumber(uri[i + 2]) THEN Fails
            ELSE <<from_hex_pair(uri[i + 1], uri[i + 2])>> \o from[i + 3]
    IN  from[1]

(***************************************************************************)
(* dns/resolver.cc: names                                                   *)
(***************************************************************************)
split(s) ==
    FoldLeft(LAMBDA acc, c : IF c = Dot THEN Append(acc, <<>>)
                             ELSE [acc EXCEPT ![Len(acc)] = Append(@, c)], <<<<>>>>, s)
to_dns_name(s) ==
    LET name == IF Last(s) = Dot THEN Front(s) ELSE s
        labels == split(name)
        res == FlattenSeq([i \in DOMAIN labels |-> <<Len(labels[i])>> \o labels[i]]) \o <<0>>
    IN  IF \/ name = <<>> \/ Len(res) > max_name_size
           \/ \E i \in DOMAIN labels : Len(labels[i]) \notin 1..max_label_size
        THEN <<>> ELSE res

\* The name at place cur of msg, and the place behind it; a pointer counts from 0.
\* The root alone, a zero octet behind no label, also where a pointer leads, fails
\* Assert(res.back() == '.') and ends the process.
Aborts == <<-2>>
RECURSIVE parse_dns_name(_, _, _)
parse_dns_name(msg, cur, res) ==
    LET end == Len(msg) + 1 IN
    IF cur >= end THEN [name |-> <<>>, cur |-> cur]
    ELSE IF msg[cur] >= 192
    THEN LET p == (msg[cur] % 64) * 256 + msg[cur + 1] + 1 IN
         IF cur + 2 > end \/ p >= end THEN [name |-> <<>>, cur |-> cur]
         ELSE LET rest == parse_dns_name(msg, p, <<>>).name IN
              [name |-> IF rest = Aborts THEN Aborts ELSE res \o rest, cur |-> cur + 2]
    ELSE IF msg[cur] = 0 THEN [name |-> IF res = <<>> THEN Aborts ELSE res, cur |-> cur + 1]
    ELSE IF cur + 1 + msg[cur] >= end THEN [name |-> <<>>, cur |-> cur]
    ELSE parse_dns_name(msg, cur + 1 + msg[cur],
                        res \o SubSeq(msg, cur + 1, cur + msg[cur]) \o <<Dot>>)

(***************************************************************************)
(* dns/resolver.cc: the records of an answer                                *)
(***************************************************************************)
u16(msg, p) == msg[p] * 256 + msg[p + 1]
A == 1
NS == 2
CNAME == 5
SOA == 6
PTR == 12
MX == 15
TXT == 16
Bad == [ok |-> FALSE, aborts |-> FALSE]
Aborted == [ok |-> FALSE, aborts |-> TRUE]
NoName(n) == n.name \in {<<>>, Aborts}
Refuse(n) == IF n.name = Aborts THEN Aborted ELSE Bad

\* parse_a_rdata() to parse_ptr_rdata(): what the record says, and the place behind
\* it.  The switch has no default: for another type the code goes on with the
\* record read before, or an unset pointer; such types are left out.
parse_rdata(msg, p, type, len) ==
    LET end == Len(msg) + 1
        named(at) == LET d == parse_dns_name(msg, at, <<>>) IN
                     IF NoName(d) THEN Refuse(d) ELSE [ok |-> TRUE, data |-> d.name, p |-> d.cur]
    IN  CASE type = A   -> IF len # 4 THEN Bad ELSE [ok |-> TRUE, data |-> SubSeq(msg, p, p + 3), p |-> p + 4]
          [] type = MX  -> IF len <= 2 THEN Bad ELSE named(p + 2)
          [] type \in {NS, PTR, CNAME} -> named(p)
          [] type = TXT -> IF msg[p] + 1 # len THEN Bad
                           ELSE [ok |-> TRUE, data |-> SubSeq(msg, p + 1, p + msg[p]), p |-> p + len]
          [] type = SOA -> LET m == named(p) IN
                           IF ~m.ok THEN m
                           ELSE LET r == named(m.p) IN
                                IF ~r.ok THEN r ELSE IF r.p + 20 > end THEN Bad
                                ELSE [ok |-> TRUE, data |-> m.data \o r.data, p |-> r.p + 20]

\* owner, type and length of a record, and the place of its data
parse_rr_base(msg, p) ==
    LET n == parse_dns_name(msg, p, <<>>)
        q == n.cur + 10
    IN  IF NoName(n) THEN Refuse(n)
        ELSE IF q >= Len(msg) + 1 THEN Bad
        ELSE LET len == u16(msg, q - 2) IN
             IF len = 0 \/ q + len > Len(msg) + 1 THEN Bad
             ELSE [ok |-> TRUE, name |-> Front(n.name), type |-> u16(msg, n.cur), len |-> len, p |-> q]

RECURSIVE parse_answer_rrs(_, _, _)
parse_answer_rrs(msg, p, answer) ==
    IF answer = 0 THEN [ok |-> TRUE, res |-> <<>>, p |-> p]
    ELSE LET rr == parse_rr_base(msg, p)
             d == IF rr.ok THEN parse_rdata(msg, rr.p, rr.type, rr.len) ELSE rr
             more == IF d.ok THEN parse_answer_rrs(msg, d.p, answer - 1) ELSE d
         IN  IF ~more.ok THEN more
             ELSE [more EXCEPT !.res = <<[type |-> rr.type, name |-> rr.name, data |-> d.data]>> \o @]

(***************************************************************************)
(* Inputs                                                                   *)
(***************************************************************************)
codec_vars == <<word, rrs>>
Init == word = <<>> /\ rrs = <<>>
Grow == /\ rrs = <<>> /\ Len(word) < MaxWord
        /\ \E b \in Bytes : word' = Append(word, b)
        /\ UNCHANGED rrs
Answer == /\ word = <<>> /\ Len(rrs) < MaxRecords
          /\ \E r \in Records : rrs' = Append(rrs, r)
          /\ UNCHANGED word
Next == Grow \/ Answer
Spec == Init /\ [][Next]_codec_vars

(***************************************************************************)
(* Properties                                                               *)
(***************************************************************************)
\* What a name server writes: a header, the question and the records, each with
\* the bytes of its name (labels, or a pointer back to the question) and its data.
Message ==
    [i \in 1..12 |-> 0] \o <<1, 97, 1, 98, 0, 0, 1, 0, 1>>
    \o FlattenSeq([i \in DOMAIN rrs |-> rrs[i].owner \o <<0, rrs[i].type, 0, 1, 0, 0, 0, 9, 0, Len(rrs[i].rdata)>>
                                            \o rrs[i].rdata])

\* base64.cc gives back what it encoded, in lines or not, unless the text has an
\* 'A', which the decoder skips.
Base64Inverts ==
    \A mime \in BOOLEAN :
        LET text == base64_encode(word, mime) IN
        0 \notin ToSet(text) => base64_decode(text) = word

\* qp.cc gives back what it encoded, in lines that end in neither space nor tab
\* and are, with the '=' of a soft line break but without its CRLF, no longer than
\* max_line_limit.
QPInverts ==
    LET text == QP_encode(word)
        breaks == {0} \cup {i \in 2..Len(text) : text[i - 1] = CR /\ text[i] = LF}
    IN  /\ QP_decode(text) = word
        /\ \A i \in breaks : \A j \in 1..Len(text) :
              (j > i /\ ~\E k \in breaks : i < k /\ k <= j + 1) => j - i <= max_line_limit
        /\ text # <<>> => Last(text) \notin {SP, HT}

\* uri::decode() gives back what uri::encode() made, and refuses exactly the
\* words with a '%' that two hexadecimal digits do not follow.
UriInverts ==
    /\ uri_decode(uri_encode(word)) = word
    /\ (Last(uri_decode(word) \o <<0>>) = 0 /\ -1 \in ToSet(uri_decode(word))) =
          \E i \in DOMAIN word :
              /\ word[i] = Percent /\ ~(\E j \in {i - 1, i - 2} : j \in DOMAIN word /\ word[j] = Percent)
              /\ i + 2 > Len(word) \/ ~ishexnumber(word[i + 1]) \/ ~ishexnumber(word[i + 2])

\* A name that to_dns_name() accepts is read back from the packet, with the dot
\* of the root, and the reader stops behind it.
NamesInvert ==
    (word # <<>> /\ to_dns_name(word) # <<>>) =>
        parse_dns_name(to_dns_name(word), 1, <<>>) =
            [name |-> IF Last(word) = Dot THEN word ELSE Append(word, Dot), cur |-> Len(to_dns_name(word)) + 1]

\* The records of an answer, none of which names the root (see parse_dns_name),
\* come out as they went in, compressed or not, and the reader stops at the end of
\* the packet, as unpack() demands.
RecordsInvert ==
    parse_answer_rrs(Message, 22, Len(rrs)) =
        [ok |-> TRUE, p |-> Len(Message) + 1,
         res |-> [i \in DOMAIN rrs |-> [type |-> rrs[i].type, name |-> rrs[i].name, data |-> rrs[i].data]]]

\* Every conversion is undone by its counterpart.
CodecsInvert == Base64Inverts /\ QPInverts /\ UriInverts /\ NamesInvert /\ RecordsInvert
=============================================================================
