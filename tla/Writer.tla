-------------------------------- MODULE Writer --------------------------------
(***************************************************************************)
(* libyaml's writer (yaml-0.1.4/src/writer.c) with the PUT and WRITE of    *)
(* emitter.c: UTF-8 characters are collected in a buffer, which a flush    *)
(* hands to the write handler in the encoding of the stream.               *)
(***************************************************************************)
EXTENDS Integers, SequencesExt

CONSTANT OutputSize   \* OUTPUT_BUFFER_SIZE

VARIABLES writer,     \* the writer's fields of yaml_emitter_t
          output      \* what the write handler has taken

WriterInit ==
    /\ writer = [encoding |-> "any", buffer |-> <<>>, raw |-> <<>>, ok |-> TRUE]
    /\ output = <<>>

Bom == <<239, 187, 191>>

-----------------------------------------------------------------------------
Width(octet) == CASE octet < 128 -> 1 [] octet \in 192 .. 223 -> 2
                  [] octet \in 224 .. 239 -> 3 [] octet \in 240 .. 247 -> 4

Value(s) ==
    LET width == Width(s[1])
        leading == CASE width = 1 -> s[1] [] width = 2 -> s[1] % 32
                     [] width = 3 -> s[1] % 16 [] width = 4 -> s[1] % 8
    IN  FoldLeft(LAMBDA value, octet : (64 * value) + (octet % 64), leading, SubSeq(s, 2, width))

Unit(high, low, encoding) == IF encoding = "UTF-16LE" THEN <<low, high>> ELSE <<high, low>>

(* A character in UTF-16.  The octets are unsigned chars: what does not    *)
(* fit is cut off.                                                         *)
Recoded(value, encoding) ==
    LET v == value - 65536
    IN  IF value < 65536
        THEN Unit(value \div 256, value % 256, encoding)
        ELSE Unit(216 + (v \div 262144), (v \div 1024) % 256, encoding)
             \o Unit((220 + ((v \div 256) % 256)) % 256, v % 256, encoding)

(* The recoding loop, which assumes that the buffer is valid UTF-8.        *)
Recode(s, encoding) ==
    FlattenSeq([i \in DOMAIN s |->
                   IF s[i] \in 128 .. 191 THEN <<>>
                   ELSE Recoded(Value(SubSeq(s, i, Len(s))), encoding)])

(***************************************************************************)
(* yaml_emitter_flush, with a handler that takes everything or fails.      *)
(* After a failure the pointer is at the start of the buffer in UTF-8,     *)
(* whose text is lost; in UTF-16 it is behind the text, which will be      *)
(* recoded once more.                                                      *)
(***************************************************************************)
Flushed(w, handled) ==
    LET recoded == w.raw \o Recode(w.buffer, w.encoding)
    IN  CASE w.buffer = <<>> -> w
          [] w.buffer # <<>> /\ w.encoding = "UTF-8" -> [w EXCEPT !.buffer = <<>>, !.ok = handled]
          [] w.buffer # <<>> /\ w.encoding # "UTF-8" /\ handled ->
                [w EXCEPT !.buffer = <<>>, !.raw = <<>>]
          [] OTHER -> [w EXCEPT !.raw = recoded, !.ok = FALSE]

Taken(w) == IF w.encoding = "UTF-8" THEN w.buffer ELSE w.raw \o Recode(w.buffer, w.encoding)

Flush(handled) ==
    /\ writer.buffer # <<>>
    /\ writer' = Flushed(writer, handled)
    /\ output' = IF handled THEN output \o Taken(writer) ELSE output

(* FLUSH(emitter) has something to do. *)
Full == Len(writer.buffer) + 5 >= OutputSize

(* STREAM-START: the encoding is chosen and a mark is written in UTF-16.   *)
StartStream(encoding) ==
    /\ writer.encoding = "any"
    /\ writer' = [writer EXCEPT !.encoding = encoding,
                                !.buffer = IF encoding = "UTF-8" THEN <<>> ELSE Bom]
    /\ UNCHANGED output

(* WRITE of a character, in a buffer that is not full.                     *)
Put(octets) ==
    /\ writer.encoding # "any" /\ ~Full
    /\ writer' = [writer EXCEPT !.buffer = @ \o octets, !.ok = TRUE]
    /\ UNCHANGED output
=============================================================================
