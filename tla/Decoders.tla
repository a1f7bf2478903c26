------------------------------ MODULE Decoders ------------------------------
(***************************************************************************)
(* Text and bytes that come in pieces: the StringDecoder, which keeps back *)
(* what a character still lacks, and Uint8Array.setFromBase64, whose caller *)
(* goes on from where the last call stopped to read.                       *)
(***************************************************************************)
EXTENDS Integers, Sequences, SequencesExt

CONSTANTS Encodings,      \* of the StringDecoder: "utf8", "utf16le", "base64", "latin1"
          ByteKinds,          \* of bytes: the length a first byte announces, 0 of a continuation, 5 of neither
          MaxInput,       \* bytes that are decoded
          Octets,         \* the bytes that are written in base64
          MaxOctets,
          Rooms           \* sizes of the arrays that setFromBase64 fills

VARIABLES text,           \* [enc, bytes, fed, ended]: the input of a decoder, as kinds of bytes, and how much was written
          dec,            \* [buf, charLen, out]: positions kept back, and the characters given: [at, ok]
          b64             \* [octets, chars, come, taken, out, failed]: what was encoded, and how much was read of it
decVars == <<text, dec, b64>>

Positions(a, b) == [i \in 1..(b - a + 1) |-> a + i - 1]
Char(at) == [at |-> at, ok |-> TRUE]
Replaced(p) == [at |-> <<p>>, ok |-> FALSE]

-----------------------------------------------------------------------------
(* utf8: the kind of the first byte says how many follow; the bytes that   *)
(* follow are not looked at.                                               *)
CharLength(p) == IF text.bytes[p] \in 2..4 THEN text.bytes[p] ELSE 1
DecodeUtf8(ps) ==
  LET from[i \in 1..(Len(ps) + 4)] ==
        IF i > Len(ps) THEN <<>>
        ELSE LET n == CharLength(ps[i]) IN
             IF text.bytes[ps[i]] \in {0, 5} \/ i + n - 1 > Len(ps) THEN <<Replaced(ps[i])>> \o from[i + 1]
             ELSE <<Char(SubSeq(ps, i, i + n - 1))>> \o from[i + n]
  IN from[1]
(* A bug: only the last two bytes are searched.                            *)
IncompleteEndNear(ps) ==
  LET first == {i \in DOMAIN ps : i > Len(ps) - 2 /\ text.bytes[ps[i]] # 0} IN
  IF first = {} THEN 0
  ELSE LET i == CHOOSE x \in first : \A y \in first : y <= x
           available == Len(ps) - i + 1
       IN IF available < CharLength(ps[i]) THEN available ELSE 0

(* How many bytes at the end begin a character that is not whole: the last *)
(* four are searched for one that begins something.                        *)
IncompleteEnd(ps) ==
  LET first == {i \in DOMAIN ps : i > Len(ps) - 4 /\ text.bytes[ps[i]] # 0} IN
  IF first = {} THEN 0
  ELSE LET i == CHOOSE x \in first : \A y \in first : y <= x
           available == Len(ps) - i + 1
       IN IF available < CharLength(ps[i]) THEN available ELSE 0
WriteUtf8(ps) ==
  LET lacks == IF dec.buf = <<>> THEN 0 ELSE dec.charLen - Len(dec.buf)
      joined == dec.buf \o SubSeq(ps, 1, lacks)
      rest == SubSeq(ps, lacks + 1, Len(ps))
      partial == IncompleteEnd(rest)
      kept == SubSeq(rest, Len(rest) - partial + 1, Len(rest))
  IN IF Len(ps) < lacks THEN [dec EXCEPT !.buf = @ \o ps]
     ELSE [buf |-> kept, charLen |-> IF kept = <<>> THEN 0 ELSE CharLength(kept[1]),
           out |-> dec.out \o DecodeUtf8(joined) \o DecodeUtf8(SubSeq(rest, 1, Len(rest) - partial))]

(* base64 is written by threes and utf16le by twos.                        *)
Groups(ps, n) == [k \in 1..((Len(ps) + n - 1) \div n) |-> Char(SubSeq(ps, (k - 1) * n + 1, IF k * n > Len(ps) THEN Len(ps) ELSE k * n))]
WriteGroups(ps, n) ==
  LET all == dec.buf \o ps
      usable == Len(all) - (Len(all) % n)
  IN [dec EXCEPT !.buf = SubSeq(all, usable + 1, Len(all)), !.out = @ \o Groups(SubSeq(all, 1, usable), n)]

Written(ps) ==
  CASE text.enc = "utf8" -> WriteUtf8(ps)
    [] text.enc = "utf16le" -> WriteGroups(ps, 2)
    [] text.enc = "base64" -> WriteGroups(ps, 3)
    [] OTHER -> WriteGroups(ps, 1)
DecoderWrites(n) ==
  /\ ~text.ended /\ text.fed + n <= Len(text.bytes)
  /\ dec' = Written(Positions(text.fed + 1, text.fed + n)) /\ text' = [text EXCEPT !.fed = @ + n]
  /\ UNCHANGED b64
(* What is kept back at the end is given as it is, in utf8 as replacements.*)
DecoderEnds ==
  /\ ~text.ended /\ text.fed = Len(text.bytes)
  /\ text' = [text EXCEPT !.ended = TRUE]
  /\ dec' = [buf |-> <<>>, charLen |-> 0,
             out |-> dec.out \o (IF text.enc = "utf8" THEN [i \in DOMAIN dec.buf |-> Replaced(dec.buf[i])]
                                 ELSE Groups(dec.buf, 3))]
  /\ UNCHANGED b64

-----------------------------------------------------------------------------
(* base64 of the octets: sextets, and beyond them padding and blanks.  *)
Pad == 64
Blank == 65
Char64(bits, shift) == (bits \div shift) % 64
EncodeBase64(o, omitPadding) ==
  LET pads(n) == IF omitPadding THEN <<>> ELSE [i \in 1..n |-> Pad]
      from[i \in 1..(Len(o) + 3)] ==
        LET rest == Len(o) - i + 1
            n == o[i] * 65536 + (IF rest > 1 THEN o[i + 1] * 256 ELSE 0) + (IF rest > 2 THEN o[i + 2] ELSE 0)
        IN IF rest <= 0 THEN <<>>
           ELSE IF rest = 1 THEN << Char64(n, 262144), Char64(n, 4096) >> \o pads(2)
           ELSE IF rest = 2 THEN << Char64(n, 262144), Char64(n, 4096), Char64(n, 64) >> \o pads(1)
           ELSE << Char64(n, 262144), Char64(n, 4096), Char64(n, 64), n % 64 >> \o from[i + 3]
  IN from[1]

Stops == [bytes |-> <<>>, end |-> "stop", len |-> 0]
Malformed == [bytes |-> <<>>, end |-> "throw", len |-> 0]
LastChunk(bytes, len) == [bytes |-> bytes, end |-> "last", len |-> len]
First(c) == c[1] * 4 + c[2] \div 16
Second(c) == (c[2] % 16) * 16 + c[3] \div 4
Third(c) == (c[3] % 4) * 64 + c[4]
(* The next chunk of what is left: whole, the last one, or nothing yet.    *)
Chunk(c, handling) ==
  LET two == Len(c) = 2 \/ c[3] = Pad
      three == Len(c) = 3 \/ c[4] = Pad
      partial == IF handling = "stop-before-partial" THEN Stops ELSE Malformed
  IN IF Len(c) = 1 THEN partial
     ELSE IF two THEN
       IF Len(c) = 2 THEN IF handling = "loose" THEN LastChunk(<<First(c)>>, 2) ELSE partial
       ELSE IF Len(c) = 3 \/ c[4] # Pad THEN partial
       ELSE IF handling = "strict" /\ c[2] % 16 # 0 THEN Malformed ELSE LastChunk(<<First(c)>>, 4)
     ELSE IF three THEN
       IF Len(c) = 3 THEN IF handling = "loose" THEN LastChunk(<<First(c), Second(c)>>, 3) ELSE partial
       ELSE IF handling = "strict" /\ c[3] % 4 # 0 THEN Malformed ELSE LastChunk(<<First(c), Second(c)>>, 4)
     ELSE [bytes |-> <<First(c), Second(c), Third(c)>>, end |-> "more", len |-> 4]
(* The string without its blanks, and where each character of it was.      *)
DecodeBase64(chars, handling) ==
  LET index == IF handling = "strict" THEN Positions(1, Len(chars))
               ELSE SelectSeq(Positions(1, Len(chars)), LAMBDA i : chars[i] # Blank)
      from[i \in 1..(Len(index) + 1)] ==
        IF i > Len(index) \/ chars[index[i]] = Pad THEN [bytes |-> <<>>, end |-> "last", at |-> i]
        ELSE LET c == Chunk([k \in 1..(Len(index) - i + 1) |-> chars[index[i + k - 1]]], handling) IN
             IF c.end = "more" THEN LET r == from[i + 4] IN [r EXCEPT !.bytes = c.bytes \o @]
             ELSE [bytes |-> c.bytes, end |-> c.end, at |-> i + c.len]
      d == from[1]
      last == index[d.at - 1]
      blanks == CHOOSE n \in 0..(Len(chars) - last) :
                  /\ \A k \in 1..n : chars[last + k] = Blank
                  /\ last + n = Len(chars) \/ chars[last + n + 1] # Blank
  IN [bytes |-> d.bytes,
      failed |-> d.end = "throw" \/ (d.end = "last" /\ d.at <= Len(index)),
      read |-> IF d.end = "stop" THEN index[d.at] - 1
               ELSE IF d.at = 1 \/ handling = "strict" THEN Len(chars) ELSE last + blanks]
(* A bug: what there was no room for counts as read.                       *)
SetFromBase64Reads(d, room, handling) ==
  [written |-> IF Len(d.bytes) < room THEN Len(d.bytes) ELSE room, read |-> d.read]

(* As much as there is room for is written, and what was read is counted   *)
(* back to that.                                                           *)
SetFromBase64(d, room, handling) ==
  LET written == IF Len(d.bytes) < room THEN Len(d.bytes) ELSE room
      need == (written \div 3) * 4 + (CASE written % 3 = 0 -> 0 [] written % 3 = 1 -> 2 [] OTHER -> 3)
  IN [written |-> written,
      read |-> IF written < Len(d.bytes) /\ handling = "stop-before-partial" /\ need < d.read THEN need ELSE d.read]

Comes64 ==
  /\ \E n \in (b64.come + 1)..Len(b64.chars) : b64' = [b64 EXCEPT !.come = n]
  /\ UNCHANGED <<text, dec>>
Take(handling, room) ==
  LET left == SubSeq(b64.chars, b64.taken + 1, b64.come)
      d == DecodeBase64(left, handling)
      r == SetFromBase64(d, room, handling)
  IN /\ b64.taken < b64.come /\ ~b64.failed
     /\ b64' = IF d.failed THEN [b64 EXCEPT !.failed = TRUE]
               ELSE [b64 EXCEPT !.out = @ \o SubSeq(d.bytes, 1, r.written), !.taken = @ + r.read]
     /\ UNCHANGED <<text, dec>>
(* What may still go on is taken up to a whole chunk, into an array that   *)
(* has room for whole chunks; with blanks, into one that has room for all. *)
TakeSome ==
  \E room \in Rooms :
    /\ \A i \in DOMAIN b64.chars : b64.chars[i] = Blank => room >= MaxOctets
    /\ Take("stop-before-partial", room)
Padded == Len(b64.chars) % 4 = 0 /\ \A i \in DOMAIN b64.chars : b64.chars[i] # Blank
TakeRest ==
  /\ b64.come = Len(b64.chars)
  /\ \E handling \in {"loose", "strict"} : (handling = "strict" => Padded) /\ Take(handling, MaxOctets)

DecInit ==
  /\ text \in [enc : Encodings, bytes : UNION {[1..n -> ByteKinds] : n \in 0..MaxInput}, fed : {0}, ended : {FALSE}]
  /\ dec = [buf |-> <<>>, charLen |-> 0, out |-> <<>>]
  /\ b64 = [octets |-> <<>>, chars |-> <<>>, come |-> 0, taken |-> 0, out |-> <<>>, failed |-> FALSE]
(* An array is encoded; a blank may come anywhere in what is sent.         *)
Encode64 ==
  /\ b64.octets = <<>> /\ text.bytes = <<>> /\ ~text.ended
  /\ \E n \in 1..MaxOctets, omit \in BOOLEAN : \E o \in [1..n -> Octets] :
       LET chars == EncodeBase64(o, omit) IN
       \E sent \in {chars} \cup {InsertAt(chars, i, Blank) : i \in 1..(Len(chars) + 1)} :
         b64' = [b64 EXCEPT !.octets = o, !.chars = sent]
  /\ UNCHANGED <<text, dec>>
DecNext ==
  \/ \E n \in 1..MaxInput : DecoderWrites(n)
  \/ DecoderEnds \/ Encode64 \/ Comes64 \/ TakeSome \/ TakeRest
DecSpec == DecInit /\ [][DecNext]_decVars

-----------------------------------------------------------------------------
(* However a text is cut into writes, a character that is whole is given   *)
(* with the write of its last byte, once, and so is what is not one: the   *)
(* bytes come out in their order, with none left.                          *)
Unit == CASE text.enc = "utf16le" -> 2 [] text.enc = "base64" -> 3 [] OTHER -> 1
RECURSIVE CharsFrom(_)
CharsFrom(p) ==
  LET n == IF text.enc = "utf8" THEN text.bytes[p] ELSE Unit IN
  IF p > Len(text.bytes) THEN <<>>
  ELSE IF p + n - 1 > Len(text.bytes) THEN <<Char(Positions(p, Len(text.bytes)))>>
  ELSE <<Char(Positions(p, p + n - 1))>> \o CharsFrom(p + n)
WellFormed ==
  text.enc = "utf8" =>
    \A p \in DOMAIN text.bytes :
      IF text.bytes[p] = 0 THEN \E q \in 1..(p - 1) : text.bytes[q] \in 2..4 /\ p - q < text.bytes[q] /\ \A k \in (q + 1)..p : text.bytes[k] = 0
      ELSE /\ text.bytes[p] # 5 /\ p + text.bytes[p] - 1 <= Len(text.bytes)
           /\ \A k \in (p + 1)..(p + text.bytes[p] - 1) : text.bytes[k] = 0
CharactersAreWhole ==
  /\ FoldLeft(LAMBDA all, c : all \o c.at, <<>>, dec.out) \o dec.buf = Positions(1, text.fed)
  /\ WellFormed =>
       LET whole == SelectSeq(CharsFrom(1), LAMBDA c : c.at[Len(c.at)] <= text.fed) IN
       IF text.ended THEN dec.out = CharsFrom(1)
       ELSE dec.out = SelectSeq(whole, LAMBDA c : text.enc = "utf8" \/ Len(c.at) = Unit)

(* Reading on from where the last call stopped gives the bytes that were   *)
(* encoded, in their order, whatever came when.                            *)
ReadsOn ==
  /\ ~b64.failed /\ IsPrefix(b64.out, b64.octets)
  /\ b64.taken = Len(b64.chars) => b64.out = b64.octets
=============================================================================
