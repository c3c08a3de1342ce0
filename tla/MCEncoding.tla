------------------------------ MODULE MCEncoding ------------------------------
(***************************************************************************)
(* A text is written in some encoding and read again, in portions that cut *)
(* it anywhere, with octets behind it that may be no characters, and a     *)
(* scanner that asks for characters ahead and skips them.                  *)
(***************************************************************************)
EXTENDS Reader, Writer

CONSTANTS Characters8,   \* the characters of the texts in UTF-8
          Characters16,  \* and in UTF-16
          MaxText        \* BOUND on the length of a text

VARIABLES text,     \* the characters written, as rows of the table
          tail,     \* what follows them in the input
          taken     \* the octets the scanner has skipped

vars == <<reader, input, writer, output, text, tail, taken>>

-----------------------------------------------------------------------------
(***************************************************************************)
(* Characters and their forms, from the Unicode standard, with the edges   *)
(* of what YAML allows.                                                    *)
(***************************************************************************)
Row(utf8, utf16) == [utf8 |-> utf8, utf16 |-> utf16]

LetterA == Row(<<65>>, <<0, 65>>)                                      \* U+0041
LineEnd == Row(<<194, 133>>, <<0, 133>>)                               \* U+0085
Euro == Row(<<226, 130, 172>>, <<32, 172>>)                            \* U+20AC
LastBmp == Row(<<239, 191, 189>>, <<255, 253>>)                        \* U+FFFD
FirstAstral == Row(<<240, 144, 128, 128>>, <<216, 0, 220, 0>>)         \* U+10000
Gothic == Row(<<240, 144, 141, 136>>, <<216, 0, 223, 72>>)             \* U+10348
Grin == Row(<<240, 159, 152, 128>>, <<216, 61, 222, 0>>)               \* U+1F600
LastAstral == Row(<<244, 143, 191, 191>>, <<219, 255, 223, 255>>)      \* U+10FFFF

Astral == {Grin}
Everywhere == {LetterA, LineEnd, Euro, LastBmp, FirstAstral, Gothic, LastAstral}
InUtf16 == {LetterA, Euro, LastBmp, FirstAstral, Gothic}

(* Octets that are no characters: cut off, overlong, surrogates, too large *)
(* or control characters.                                                  *)
Bad8 == {<<226, 130>>, <<130>>, <<192, 129>>, <<237, 160, 128>>, <<244, 144, 128, 128>>,
         <<226, 65, 65>>, <<127>>, <<255>>}
Bad16 == {<<65>>, <<220, 0>>, <<216, 0, 0>>, <<216, 0, 0, 65>>, <<255, 255>>, <<0, 7>>}

Swapped(s) == [i \in DOMAIN s |-> IF i % 2 = 0 THEN s[i - 1]
                                  ELSE IF i < Len(s) THEN s[i + 1] ELSE s[i]]

Form(row, encoding) == CASE encoding = "UTF-8" -> row.utf8
                         [] encoding = "UTF-16BE" -> row.utf16
                         [] encoding = "UTF-16LE" -> Swapped(row.utf16)

Tails(encoding) == {<<>>} \cup CASE encoding = "UTF-8" -> Bad8 [] encoding = "UTF-16BE" -> Bad16
                                 [] OTHER -> {Swapped(s) : s \in Bad16}

Mark(encoding) == CASE encoding = "UTF-8" -> <<>> [] encoding = "UTF-16BE" -> <<254, 255>>
                    [] encoding = "UTF-16LE" -> <<255, 254>>

-----------------------------------------------------------------------------
Writing == tail = <<-1>>

MCInit == /\ ReaderInit /\ WriterInit
          /\ input = <<>> /\ text = <<>> /\ tail = <<-1>> /\ taken = <<>>

WriteStart == /\ Writing
              /\ \E encoding \in {"UTF-8", "UTF-16LE", "UTF-16BE"} : StartStream(encoding)
              /\ UNCHANGED <<reader, input, text, tail, taken>>

(* A caller that has seen a write fail goes on in UTF-8 only, as NetYaml.  *)
WriteCharacter ==
    /\ Writing /\ Len(text) < MaxText
    /\ \E row \in IF writer.encoding = "UTF-8" THEN Characters8 ELSE Characters16 :
          Put(row.utf8) /\ text' = Append(text, row)
    /\ writer.ok \/ writer.encoding = "UTF-8"
    /\ UNCHANGED <<reader, input, tail, taken>>

WriteOut == /\ Writing /\ Flush(TRUE)
            /\ UNCHANGED <<reader, input, text, tail, taken>>

(* The characters of a flush that fails are lost.                          *)
Prefix(s) == CHOOSE n \in 0 .. Len(text) : s = FlattenSeq([i \in 1 .. n |-> text[i].utf8])

WriteFails == /\ Writing /\ writer.ok /\ writer.encoding = "UTF-8" /\ Flush(FALSE)
              /\ text' = SubSeq(text, 1, Prefix(output))
              /\ UNCHANGED <<reader, input, tail, taken>>

(* The text is written; a mark may stand in front of a text in UTF-8.      *)
StartReading ==
    /\ Writing /\ writer.encoding # "any" /\ writer.buffer = <<>>
    /\ \E bad \in Tails(writer.encoding), mark \in {<<>>, Bom} :
          /\ mark = Bom => writer.encoding = "UTF-8"
          /\ tail' = bad
          /\ input' = mark \o output \o bad
    /\ UNCHANGED <<reader, writer, output, text, taken>>

Reads == /\ ~Writing
         /\ \/ /\ \/ \E length \in 1 .. MaxLength : Request(length)
                  \/ Read
                  \/ ReadFails
               /\ UNCHANGED taken
            \/ /\ Skip
               /\ taken' = taken \o SubSeq(reader.buffer, reader.pointer + 1, reader'.pointer)
         /\ UNCHANGED <<writer, output, text, tail>>

MCNext == WriteStart \/ WriteCharacter \/ WriteOut \/ WriteFails \/ StartReading \/ Reads

MCSpec == MCInit /\ [][MCNext]_vars

-----------------------------------------------------------------------------
Written == FlattenSeq([i \in DOMAIN text |-> text[i].utf8])

Seen == taken \o SubSeq(reader.buffer, reader.pointer + 1, Len(reader.buffer))

(* The scanner sees the characters that were written, in their order and   *)
(* none twice, however portions and buffers cut them; it sees the end once *)
(* and behind the last of them.  An error that is not the read handler's   *)
(* comes behind all characters, from octets that are none, and its offset  *)
(* lies in these; and such octets are never passed over.                   *)
TextSurvives ==
    LET whole == Written \o <<0>>
        start == reader.offset
    IN  ~Writing =>
          /\ IsPrefix(Seen, whole)
          /\ Seen = whole => tail = <<>> /\ reader.phase # "failed"
          /\ reader.error \notin {"none", "InputError"} =>
                /\ Seen = Written /\ tail # <<>>
                /\ reader.at \in start .. start + Len(tail) - 1
=============================================================================
