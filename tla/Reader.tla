-------------------------------- MODULE Reader --------------------------------
(***************************************************************************)
(* libyaml's reader (yaml-0.1.4/src/reader.c): octets from a read handler, *)
(* in portions of any size, become UTF-8 characters in a buffer that the   *)
(* scanner looks ahead in.  Octets are numbers; C's masks and shifts are   *)
(* written as \div and %.                                                  *)
(***************************************************************************)
EXTENDS Integers, FiniteSets, SequencesExt

CONSTANTS RawSize,    \* INPUT_RAW_BUFFER_SIZE
          MaxLength   \* the largest number of characters CACHE is asked for

BufferSize == 3 * RawSize

(* "The length is supposed to be significantly less that the buffer size." *)
ASSUME ReaderAssumption ==
    /\ RawSize \in Nat /\ MaxLength \in Nat \ {0}
    /\ RawSize >= 4
    /\ 8 * (MaxLength - 1) + 2 <= 3 * RawSize

VARIABLES reader,  \* the reader's fields of yaml_parser_t
          input    \* what the read handler has still to hand out

(***************************************************************************)
(* raw and buffer hold what is between start and last of their buffers;    *)
(* rawPointer and pointer count what is in front of the pointer of each.   *)
(* length is the argument of the call in progress, "phase" where it waits  *)
(* for the read handler.                                                   *)
(***************************************************************************)
Empty == [encoding |-> "any", eof |-> FALSE, raw |-> <<>>, rawPointer |-> 0, offset |-> 0,
          buffer |-> <<>>, pointer |-> 0, unread |-> 0,
          phase |-> "idle", length |-> 0, error |-> "none", at |-> 0]

Rest(r) == SubSeq(r.raw, r.rawPointer + 1, Len(r.raw))

Fail(r, problem, at) == [r EXCEPT !.phase = "failed", !.error = problem, !.at = at]

-----------------------------------------------------------------------------
(***************************************************************************)
(* Decoding the character at the head of s: a character, the sign that     *)
(* more octets are needed, or an error some octets further on.             *)
(***************************************************************************)
Character(value, width) == [is |-> "character", value |-> value, width |-> width]

Incomplete(eof, problem) ==
    IF eof THEN [is |-> "error", problem |-> problem, at |-> 0] ELSE [is |-> "incomplete"]

Problem(problem, at) == [is |-> "error", problem |-> problem, at |-> at]

Utf8Width(octet) == CASE octet < 128 -> 1 [] octet \in 192 .. 223 -> 2
                      [] octet \in 224 .. 239 -> 3 [] octet \in 240 .. 247 -> 4
                      [] OTHER -> 0

LeadingBits(octet) == CASE octet < 128 -> octet [] octet \in 192 .. 223 -> octet % 32
                        [] octet \in 224 .. 239 -> octet % 16 [] OTHER -> octet % 8

Trailing == 128 .. 191

Utf8Value(s, width) ==
    LET first == LeadingBits(s[1])
        six(i) == s[i] % 64
    IN  CASE width = 2 -> 64 * first + six(2)
          [] width = 3 -> 64 * (64 * first + six(2)) + six(3)
          [] width = 4 -> 64 * (64 * (64 * first + six(2)) + six(3)) + six(4)
          [] OTHER -> first

ShortestWidth(value) ==
    IF value < 128 THEN 1 ELSE IF value < 2048 THEN 2 ELSE IF value < 65536 THEN 3 ELSE 4

HighSurrogate == 55296 .. 56319
LowSurrogate == 56320 .. 57343

LastCodePoint == 1114111

(* How far behind the first of them one of the octets is no trailing one.  *)
BadTrailing(s, width) ==
    LET bad == {i \in 1 .. width - 1 : s[i + 1] \notin Trailing}
    IN  IF bad = {} THEN 0 ELSE Min(bad)

DecodeUtf8(s, eof) ==
    LET width == Utf8Width(s[1])
        bad == BadTrailing(s, width)
        value == Utf8Value(s, width)
    IN  CASE width = 0 -> Problem("LeadingOctet", 0)
          [] width > Len(s) -> Incomplete(eof, "IncompleteSequence")
          [] width \in 1 .. Len(s) /\ bad # 0 -> Problem("TrailingOctet", bad)
          [] OTHER -> IF ShortestWidth(value) < width THEN Problem("SequenceLength", 0)
                      ELSE IF value \in HighSurrogate \cup LowSurrogate \/ value > LastCodePoint
                      THEN Problem("UnicodeCharacter", 0)
                      ELSE Character(value, width)

Unit16(s, i, encoding) ==
    IF encoding = "UTF-16LE" THEN s[i] + 256 * s[i + 1] ELSE 256 * s[i] + s[i + 1]

PairValue(first, second) == 65536 + (1024 * (first % 1024)) + (second % 1024)

(* Mutant of DecodeUtf16: the second half of a pair is not waited for.     *)
DecodeUtf16Unpaired(s, encoding, eof) ==
    IF Len(s) < 2 THEN Incomplete(eof, "IncompleteCharacter")
    ELSE Character(Unit16(s, 1, encoding), 2)

DecodeUtf16(s, encoding, eof) ==
    LET first == Unit16(s, 1, encoding)
        second == Unit16(s, 3, encoding)
    IN  CASE Len(s) < 2 -> Incomplete(eof, "IncompleteCharacter")
          [] Len(s) >= 2 /\ first \in LowSurrogate -> Problem("UnexpectedLow", 0)
          [] Len(s) >= 2 /\ first \in HighSurrogate ->
                CASE Len(s) < 4 -> Incomplete(eof, "IncompletePair")
                  [] Len(s) >= 4 /\ second \notin LowSurrogate ->
                        Problem("ExpectedLow", 2)
                  [] OTHER -> Character(PairValue(first, second), 4)
          [] OTHER -> Character(first, 2)

Allowed(value) ==
    \/ value \in {9, 10, 13, 133} \/ value \in 32 .. 126 \/ value \in 160 .. 55295
    \/ value \in 57344 .. 65533 \/ value \in 65536 .. LastCodePoint

Decode(r) ==
    LET d == IF r.encoding = "UTF-8" THEN DecodeUtf8(Rest(r), r.eof)
                                     ELSE DecodeUtf16(Rest(r), r.encoding, r.eof)
    IN  IF d.is = "character" /\ ~Allowed(d.value)
        THEN Problem("ControlCharacter", 0) ELSE d

(* The UTF-8 form of a character. *)
Utf8(value) ==
    LET bits(n) == 128 + ((value \div n) % 64)
    IN  CASE ShortestWidth(value) = 1 -> <<value>>
          [] ShortestWidth(value) = 2 -> <<192 + (value \div 64), bits(1)>>
          [] ShortestWidth(value) = 3 -> <<224 + (value \div 4096), bits(64), bits(1)>>
          [] OTHER -> <<240 + (value \div 262144), bits(4096), bits(64), bits(1)>>

-----------------------------------------------------------------------------
(***************************************************************************)
(* yaml_parser_update_buffer, from one call of the read handler to the     *)
(* next.                                                                   *)
(***************************************************************************)
Store(r, character) ==
    [r EXCEPT !.rawPointer = @ + character.width, !.offset = @ + character.width,
              !.buffer = @ \o Utf8(character.value), !.unread = @ + 1]

(* The outcome d of decoding takes effect: the character is stored, or the *)
(* call fails.                                                             *)
Resolve(c, d) ==
    CASE d.is = "character" -> Store(c, d)
      [] d.is = "error" -> Fail(c, d.problem, c.offset + d.at)
      [] OTHER -> c

DecodeNext(c) ==
    IF c.phase = "failed" \/ Rest(c) = <<>> THEN c ELSE Resolve(c, Decode(c))

(* Decode what the raw buffer holds; an incomplete character stays in it.  *)
DecodeRaw(r) ==
    LET after[n \in 0 .. Len(Rest(r))] == IF n = 0 THEN r ELSE DecodeNext(after[n - 1])
    IN  after[Len(Rest(r))]

(* Mutant of Fill: the end of the input is not marked. *)
FillUnmarked(r) ==
    LET d == DecodeRaw(r)
    IN  IF d.phase = "failed" THEN d
        ELSE [d EXCEPT !.phase = IF d.eof \/ d.unread >= d.length THEN "idle" ELSE "filling"]

(* A turn of the loop that fills the buffer, behind the read.              *)
Fill(r) ==
    LET d == DecodeRaw(r)
    IN  CASE d.phase = "failed" -> d
          [] d.phase # "failed" /\ d.eof ->
                [d EXCEPT !.buffer = Append(@, 0), !.unread = @ + 1, !.phase = "idle"]
          [] d.phase # "failed" /\ ~d.eof /\ d.unread >= d.length -> [d EXCEPT !.phase = "idle"]
          [] OTHER -> [d EXCEPT !.phase = "filling"]

(* The unread characters move to the beginning of the buffer; then the     *)
(* first turn of the loop reads only if the raw buffer is empty, and not   *)
(* at the end of the input.                                                *)
FillFromStart(r) ==
    LET d == [r EXCEPT !.buffer = SubSeq(@, r.pointer + 1, Len(@)), !.pointer = 0]
    IN  IF Rest(d) # <<>> \/ d.eof THEN Fill(d) ELSE [d EXCEPT !.phase = "filling"]

StartsWith(r, bom) == Len(Rest(r)) >= Len(bom) /\ SubSeq(Rest(r), 1, Len(bom)) = bom

BomUtf8 == <<239, 187, 191>>
BomUtf16LE == <<255, 254>>
BomUtf16BE == <<254, 255>>

SkipBom(r, encoding, bom) ==
    [r EXCEPT !.encoding = encoding, !.rawPointer = @ + Len(bom), !.offset = @ + Len(bom)]

(* yaml_parser_determine_encoding, behind its loop. *)
DetermineEncoding(r) ==
    IF StartsWith(r, BomUtf16LE) THEN SkipBom(r, "UTF-16LE", BomUtf16LE)
    ELSE IF StartsWith(r, BomUtf16BE) THEN SkipBom(r, "UTF-16BE", BomUtf16BE)
    ELSE IF StartsWith(r, BomUtf8) THEN SkipBom(r, "UTF-8", BomUtf8)
    ELSE [r EXCEPT !.encoding = "UTF-8"]

(* Go on with what the raw buffer holds now. *)
Continue(r) ==
    CASE r.phase = "encoding" /\ (r.eof \/ Len(Rest(r)) >= 3) -> FillFromStart(DetermineEncoding(r))
      [] r.phase = "encoding" /\ ~(r.eof \/ Len(Rest(r)) >= 3) -> r
      [] r.phase = "filling" -> Fill(r)

(* CACHE(parser, length): nothing is done if the buffer holds enough.      *)
Request(length) ==
    /\ reader.phase = "idle"
    /\ reader.unread < length
    /\ ~(reader.eof /\ Rest(reader) = <<>>)
    /\ reader' = LET r == [reader EXCEPT !.length = length]
                 IN  IF r.encoding = "any" THEN Continue([r EXCEPT !.phase = "encoding"])
                                           ELSE FillFromStart(r)
    /\ UNCHANGED input

(* SKIP of the scanner, which does not go past the end.                    *)
Skip ==
    /\ reader.phase = "idle" /\ reader.unread > 0
    /\ reader.buffer[reader.pointer + 1] # 0
    /\ reader' = [reader EXCEPT !.pointer = @ + Utf8Width(reader.buffer[@ + 1]),
                                !.unread = @ - 1]
    /\ UNCHANGED input

Waiting == reader.phase \in {"encoding", "filling"}

RawBufferFull(r) == r.rawPointer = 0 /\ Len(r.raw) = RawSize

(* Mutant of Read: what is left in the raw buffer is not counted.          *)
ReadWholeBuffer ==
    /\ Waiting /\ ~RawBufferFull(reader)
    /\ \E n \in 0 .. RawSize :
          /\ n <= Len(input) /\ (n = 0 <=> input = <<>>)
          /\ input' = SubSeq(input, n + 1, Len(input))
          /\ reader' = Continue([reader EXCEPT !.raw = Rest(reader) \o SubSeq(input, 1, n),
                                               !.rawPointer = 0, !.eof = (n = 0)])

(* yaml_parser_update_raw_buffer: the read handler hands out at least one  *)
(* octet, unless the input is at its end.  A raw buffer that is full is    *)
(* not read into, and the loop would go round for ever.                    *)
Read ==
    /\ Waiting /\ ~RawBufferFull(reader)
    /\ \E n \in 0 .. RawSize - Len(Rest(reader)) :
          /\ n <= Len(input) /\ (n = 0 <=> input = <<>>)
          /\ input' = SubSeq(input, n + 1, Len(input))
          /\ reader' = Continue([reader EXCEPT !.raw = Rest(reader) \o SubSeq(input, 1, n),
                                               !.rawPointer = 0, !.eof = (n = 0)])

ReadFails ==
    /\ Waiting /\ ~RawBufferFull(reader)
    /\ reader' = Fail([reader EXCEPT !.raw = Rest(reader), !.rawPointer = 0],
                      "InputError", reader.offset)
    /\ UNCHANGED input

ReaderInit == reader = Empty

ReaderNext == (\E length \in 1 .. MaxLength : Request(length)) \/ Skip \/ Read \/ ReadFails

(* The reader of any input. *)
ReaderSpec == /\ ReaderInit /\ input \in Seq(0 .. 255)
              /\ [][ReaderNext]_<<reader, input>>

-----------------------------------------------------------------------------
(***************************************************************************)
(* The buffers hold what is put into them, an end included, although no    *)
(* size is checked; what is unread is what stands behind the pointer.      *)
(***************************************************************************)
TypeOK ==
    /\ reader.phase \in {"idle", "encoding", "filling", "failed"}
    /\ reader.encoding \in {"any", "UTF-8", "UTF-16LE", "UTF-16BE"}
    /\ Len(reader.raw) <= RawSize /\ reader.rawPointer \in 0 .. Len(reader.raw)
    /\ Len(reader.buffer) <= BufferSize /\ reader.pointer \in 0 .. Len(reader.buffer)
    /\ reader.buffer \in Seq(0 .. 255) /\ reader.raw \in Seq(0 .. 255)
    /\ reader.unread = Cardinality({i \in reader.pointer + 1 .. Len(reader.buffer) :
                                        reader.buffer[i] \notin Trailing})

(* A call for characters that cannot return yet waits for input that the   *)
(* read handler can still hand out, so the loop never goes round without   *)
(* it; and when it returns there are as many characters as were asked for, *)
(* unless the end comes before.                                            *)
CallsReturn ==
    [][/\ Waiting' => ~reader'.eof /\ ~RawBufferFull(reader')
       /\ reader'.phase = "idle" /\ reader' # reader /\ reader'.unread >= reader.unread
             => \/ reader'.unread >= reader'.length
                \/ reader'.buffer # <<>> /\ Last(reader'.buffer) = 0]_<<reader, input>>
=============================================================================
