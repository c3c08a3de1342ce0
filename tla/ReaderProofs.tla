---------------------------- MODULE ReaderProofs ----------------------------
(***************************************************************************)
(* Proofs about Reader, for buffers of any size, any input and any way the *)
(* read handler cuts it: the buffer behind the raw one, whose size no line *)
(* of reader.c checks, never overflows, "unread" counts the characters in  *)
(* it, and a call waits for the handler only while that can help.          *)
(***************************************************************************)
EXTENDS Reader, FiniteSetTheorems, SequenceFacts

Octet == 0 .. 255

-----------------------------------------------------------------------------
(***************************************************************************)
(* Characters and their octets.                                            *)
(***************************************************************************)

(* The octets of one character in UTF-8, as far as SKIP looks at them.     *)
IsCharacter(u) ==
    /\ u \in Seq(Octet) /\ Len(u) \in 1 .. 4
    /\ u[1] \notin Trailing /\ Utf8Width(u[1]) = Len(u)
    /\ \A i \in 2 .. Len(u) : u[i] \in Trailing

(* The code points. *)
CodePoint == {value \in Nat : value <= LastCodePoint}

(* The octets COPY and update_buffer write are a character as long as its  *)
(* value asks for.                                                         *)
LEMMA Utf8Forms ==
    ASSUME NEW value \in CodePoint
    PROVE  IsCharacter(Utf8(value)) /\ Len(Utf8(value)) = ShortestWidth(value)
<1> DEFINE bits(n) == 128 + ((value \div n) % 64)
<1>1. bits(1) \in Trailing /\ bits(64) \in Trailing /\ bits(4096) \in Trailing
  BY SMT DEF Trailing, CodePoint
<1>2. CASE value <= 127
  <2>1. Utf8(value) = <<value>> /\ ShortestWidth(value) = 1
    BY <1>2, SMT DEF Utf8, ShortestWidth, CodePoint, LastCodePoint
  <2>2. value \in 0 .. 127
    BY <1>2, SMT DEF CodePoint, LastCodePoint
  <2> QED BY <2>1, <2>2 DEF IsCharacter, Utf8Width, Octet, Trailing
<1>3. CASE value >= 128 /\ value <= 2047
  <2> DEFINE head == 192 + (value \div 64)
  <2>1. Utf8(value) = <<head, bits(1)>> /\ ShortestWidth(value) = 2
    BY <1>3, SMT DEF Utf8, ShortestWidth, CodePoint, LastCodePoint
  <2>2. head \in 192 .. 223
    BY <1>3, SMT DEF CodePoint, LastCodePoint
  <2> HIDE DEF bits, head
  <2> QED BY <1>1, <2>1, <2>2 DEF IsCharacter, Utf8Width, Octet, Trailing
<1>4. CASE value >= 2048 /\ value <= 65535
  <2> DEFINE head == 224 + (value \div 4096)
  <2>1. Utf8(value) = <<head, bits(64), bits(1)>> /\ ShortestWidth(value) = 3
    BY <1>4, SMT DEF Utf8, ShortestWidth, CodePoint, LastCodePoint
  <2>2. head \in 224 .. 239
    BY <1>4, SMT DEF CodePoint, LastCodePoint
  <2> HIDE DEF bits, head
  <2> QED BY <1>1, <2>1, <2>2 DEF IsCharacter, Utf8Width, Octet, Trailing
<1>5. CASE value > 65535
  <2> DEFINE head == 240 + (value \div 262144)
  <2>1. Utf8(value) = <<head, bits(4096), bits(64), bits(1)>> /\ ShortestWidth(value) = 4
    BY <1>5, SMT DEF Utf8, ShortestWidth, CodePoint, LastCodePoint
  <2>2. head \in 240 .. 247
    BY <1>5, SMT DEF CodePoint, LastCodePoint
  <2> HIDE DEF bits, head
  <2> QED BY <1>1, <2>1, <2>2 DEF IsCharacter, Utf8Width, Octet, Trailing
<1> QED BY <1>2, <1>3, <1>4, <1>5, SMT DEF CodePoint, LastCodePoint

(* What can be wrong with octets, or with the read handler. *)
Problems == {"LeadingOctet", "IncompleteSequence", "TrailingOctet", "SequenceLength",
             "UnicodeCharacter", "IncompleteCharacter", "IncompletePair", "UnexpectedLow",
             "ExpectedLow", "ControlCharacter", "InputError"}

(* What decoding can say of n octets: a character is read from at most     *)
(* those, and is no longer in UTF-8 than in the input by half; for more    *)
(* octets it asks if three are too few, and if there may be more.          *)
Outcome(d, n, eof) ==
    \/ \E value \in CodePoint, width \in 1 .. n :
          /\ d = Character(value, width)
          /\ 2 * ShortestWidth(value) <= 3 * width
    \/ \E problem \in Problems, at \in Nat : d = Problem(problem, at)
    \/ d = [is |-> "incomplete"] /\ n <= 3 /\ ~eof

LEMMA BadTrailingTyped ==
    ASSUME NEW s, NEW width \in Nat
    PROVE  BadTrailing(s, width) \in Nat
<1> DEFINE bad == {i \in 1 .. width - 1 : s[i + 1] \notin Trailing}
<1>1. CASE bad = {}
  BY <1>1 DEF BadTrailing
<1>2. CASE bad # {}
  <2>1. bad \subseteq Nat
    OBVIOUS
  <2> HIDE DEF bad
  <2>2. \E i \in bad : \A j \in bad : i <= j
    BY <1>2, <2>1, LeastNatural
  <2>3. Min(bad) \in bad
    BY <2>2 DEF Min
  <2>4. BadTrailing(s, width) = Min(bad)
    BY <1>2 DEF BadTrailing, bad
  <2> QED BY <2>1, <2>3, <2>4
<1> QED BY <1>1, <1>2

LEMMA SixBits ==
    ASSUME NEW octet \in Octet
    PROVE  octet % 64 \in 0 .. 63
BY DEF Octet

LEMMA LeadingBitsFit ==
    ASSUME NEW octet \in Octet
    PROVE  /\ Utf8Width(octet) \in 0 .. 4
           /\ Utf8Width(octet) = 1 => LeadingBits(octet) \in 0 .. 127
           /\ Utf8Width(octet) = 2 => LeadingBits(octet) \in 0 .. 31
           /\ Utf8Width(octet) = 3 => LeadingBits(octet) \in 0 .. 15
           /\ Utf8Width(octet) = 4 => LeadingBits(octet) \in 0 .. 7
<1>1. Utf8Width(octet) \in 0 .. 4
  BY DEF Utf8Width, Octet
<1>2. Utf8Width(octet) = 1 => LeadingBits(octet) \in 0 .. 127
  BY DEF Utf8Width, LeadingBits, Octet
<1>3. Utf8Width(octet) = 2 => LeadingBits(octet) \in 0 .. 31
  BY DEF Utf8Width, LeadingBits, Octet
<1>4. Utf8Width(octet) = 3 => LeadingBits(octet) \in 0 .. 15
  BY DEF Utf8Width, LeadingBits, Octet
<1>5. Utf8Width(octet) = 4 => LeadingBits(octet) \in 0 .. 7
  BY DEF Utf8Width, LeadingBits, Octet
<1> QED BY <1>1, <1>2, <1>3, <1>4, <1>5

LEMMA SixBitsMore ==
    ASSUME NEW a \in Nat, NEW b \in 0 .. 63
    PROVE  64 * a + b \in Nat /\ 64 * a + b < 64 * (a + 1)
OBVIOUS

LEMMA AnyWidth ==
    ASSUME NEW value
    PROVE  ShortestWidth(value) \in 1 .. 4
BY SMT DEF ShortestWidth

LEMMA WidthOfValue ==
    ASSUME NEW value \in Nat
    PROVE  /\ ShortestWidth(value) \in 1 .. 4
           /\ value < 128 => ShortestWidth(value) = 1
           /\ value < 2048 => ShortestWidth(value) <= 2
           /\ value < 65536 => ShortestWidth(value) <= 3
BY SMT DEF ShortestWidth

(* What the leading octet leaves room for is what the value needs.         *)
LEMMA Utf8ValueFits ==
    ASSUME NEW s, NEW n \in Nat \ {0}, \A i \in 1 .. n : s[i] \in Octet,
           NEW width \in 1 .. 4, width = Utf8Width(s[1]), width <= n
    PROVE  Utf8Value(s, width) \in Nat /\ ShortestWidth(Utf8Value(s, width)) <= width
<1> DEFINE first == LeadingBits(s[1])
           value == Utf8Value(s, width)
<1>1. s[1] \in Octet
  OBVIOUS
<1>2. ASSUME NEW i \in 1 .. n PROVE s[i] % 64 \in 0 .. 63
  <2>1. s[i] \in Octet
    OBVIOUS
  <2> QED BY <2>1, SixBits
<1>3. /\ width = 1 => first \in 0 .. 127
      /\ width = 2 => first \in 0 .. 31
      /\ width = 3 => first \in 0 .. 15
      /\ width = 4 => first \in 0 .. 7
  BY <1>1, LeadingBitsFit
<1> HIDE DEF first
<1>4. CASE width = 1
  <2>1. value = first
    BY <1>4 DEF Utf8Value, first
  <2> HIDE DEF value
  <2>2. value \in Nat /\ value < 128
    BY <1>3, <1>4, <2>1
  <2> QED BY <1>4, <2>2, WidthOfValue DEF value
<1>5. CASE width = 2
  <2> DEFINE b == s[2] % 64
  <2>1. value = 64 * first + b
    BY <1>5 DEF Utf8Value, first
  <2>2. b \in 0 .. 63
    BY <1>1, <1>2, <1>5
  <2> HIDE DEF b, value
  <2>3. first \in Nat /\ first + 1 <= 32
    BY <1>3, <1>5
  <2>4. value \in Nat /\ value < 2048
    BY <2>1, <2>2, <2>3, SixBitsMore
  <2> QED BY <1>5, <2>4, WidthOfValue DEF value
<1>6. CASE width = 3
  <2> DEFINE b == s[2] % 64
             c == s[3] % 64
             u == 64 * first + b
  <2>1. value = 64 * u + c
    BY <1>6 DEF Utf8Value, first
  <2>2. b \in 0 .. 63 /\ c \in 0 .. 63
    BY <1>1, <1>2, <1>6
  <2>3. first \in Nat /\ first + 1 <= 16
    BY <1>3, <1>6
  <2> HIDE DEF b, c, value
  <2>4. u \in Nat /\ u + 1 <= 1024
    BY <2>2, <2>3, SixBitsMore
  <2> HIDE DEF u
  <2>5. value \in Nat /\ value < 65536
    BY <2>1, <2>2, <2>4, SixBitsMore, SMT
  <2> QED BY <1>6, <2>5, WidthOfValue, SMT DEF value
<1>7. CASE width = 4
  <2> DEFINE b == s[2] % 64
             c == s[3] % 64
             d == s[4] % 64
             u == 64 * first + b
             v == 64 * u + c
  <2>1. value = 64 * v + d
    BY <1>7 DEF Utf8Value, first
  <2>2. b \in 0 .. 63 /\ c \in 0 .. 63 /\ d \in 0 .. 63 /\ first \in Nat
    BY <1>1, <1>2, <1>3, <1>7
  <2> HIDE DEF b, c, d, value
  <2>3. u \in Nat
    BY <2>2, SixBitsMore
  <2> HIDE DEF u
  <2>4. v \in Nat
    BY <2>2, <2>3, SixBitsMore
  <2> HIDE DEF v
  <2>5. value \in Nat
    BY <2>1, <2>2, <2>4, SixBitsMore
  <2> QED BY <1>7, <2>5, AnyWidth DEF value
<1> QED BY <1>4, <1>5, <1>6, <1>7

LEMMA ProblemOutcome ==
    ASSUME NEW problem \in Problems, NEW at \in Nat, NEW n, NEW eof
    PROVE  Outcome(Problem(problem, at), n, eof)
BY DEF Outcome

LEMMA IncompleteOutcome ==
    ASSUME NEW problem \in Problems, NEW n \in 0 .. 3, NEW eof \in BOOLEAN
    PROVE  Outcome(Incomplete(eof, problem), n, eof)
<1>1. CASE eof
  <2>1. Incomplete(eof, problem) = Problem(problem, 0)
    BY <1>1 DEF Incomplete, Problem
  <2> QED BY <2>1, ProblemOutcome DEF Problems
<1>2. CASE ~eof
  BY <1>2 DEF Outcome, Incomplete
<1> QED BY <1>1, <1>2

LEMMA CharacterOutcome ==
    ASSUME NEW value \in CodePoint, NEW width \in 1 .. 4, NEW n \in Nat, width <= n,
           ShortestWidth(value) <= width, NEW eof
    PROVE  Outcome(Character(value, width), n, eof)
<1>1. ShortestWidth(value) \in 1 .. 4
  BY WidthOfValue DEF CodePoint
<1>2. 2 * ShortestWidth(value) <= 3 * width
  BY <1>1
<1> QED BY <1>2 DEF Outcome

(* The tests of yaml_parser_update_buffer, in their order. *)
LEMMA DecodeUtf8Outcome ==
    ASSUME NEW s, NEW n \in Nat \ {0}, Len(s) = n, \A i \in 1 .. n : s[i] \in Octet,
           NEW eof \in BOOLEAN
    PROVE  Outcome(DecodeUtf8(s, eof), n, eof)
<1> DEFINE width == Utf8Width(s[1])
           value == Utf8Value(s, width)
           bad == BadTrailing(s, width)
           d == DecodeUtf8(s, eof)
           foreign == value \in HighSurrogate \cup LowSurrogate \/ value > LastCodePoint
           overlong == ShortestWidth(value) < width
           character == Character(value, width)
<1>1. width \in 0 .. 4
  <2>1. s[1] \in Octet
    OBVIOUS
  <2> QED BY <2>1, LeadingBitsFit
<1>2. bad \in Nat
  <2> HIDE DEF width
  <2> QED BY <1>1, BadTrailingTyped
<1>3. width \in 1 .. n => value \in Nat /\ ShortestWidth(value) <= width
  <2> SUFFICES ASSUME NEW w \in 1 .. 4, w = width, w <= n
               PROVE  Utf8Value(s, w) \in Nat /\ ShortestWidth(Utf8Value(s, w)) <= w
    BY <1>1
  <2> QED BY Utf8ValueFits
<1>4. d = CASE width = 0 -> Problem("LeadingOctet", 0)
            [] width > n -> Incomplete(eof, "IncompleteSequence")
            [] width \in 1 .. n /\ bad # 0 -> Problem("TrailingOctet", bad)
            [] OTHER -> IF overlong THEN Problem("SequenceLength", 0)
                        ELSE IF foreign THEN Problem("UnicodeCharacter", 0)
                        ELSE character
  BY SMT DEF DecodeUtf8
<1>5. width \in 1 .. n /\ ~overlong /\ ~foreign => Outcome(character, n, eof)
  <2> SUFFICES ASSUME width \in 1 .. n, ~overlong, ~foreign
               PROVE  Outcome(Character(value, width), n, eof)
    OBVIOUS
  <2>1. value \in CodePoint
    BY <1>3, SMT DEF CodePoint, LastCodePoint
  <2> HIDE DEF width, value
  <2> QED BY <1>1, <1>3, <2>1, CharacterOutcome
<1> SUFFICES Outcome(d, n, eof)
  OBVIOUS
<1> HIDE DEF width, value, bad, d, foreign, overlong, character
<1>6. overlong \in BOOLEAN /\ foreign \in BOOLEAN
  BY DEF overlong, foreign
<1> DEFINE e == IF overlong THEN Problem("SequenceLength", 0)
                ELSE IF foreign THEN Problem("UnicodeCharacter", 0) ELSE character
<1>7. CASE width = 0
  <2>1. d = Problem("LeadingOctet", 0)
    BY <1>4, <1>7
  <2> QED BY <2>1, ProblemOutcome DEF Problems
<1>8. CASE width > n
  <2>1. d = Incomplete(eof, "IncompleteSequence")
    BY <1>4, <1>8
  <2>2. n \in 0 .. 3
    BY <1>1, <1>8
  <2> QED BY <2>1, <2>2, IncompleteOutcome DEF Problems
<1>9. CASE width \in 1 .. n /\ bad # 0
  <2>1. d = Problem("TrailingOctet", bad)
    BY <1>4, <1>9
  <2> QED BY <2>1, <1>2, ProblemOutcome DEF Problems
<1>10. CASE width \in 1 .. n /\ bad = 0
  <2>1. d = e
    BY <1>4, <1>10
  <2>2. CASE overlong
    <3>1. e = Problem("SequenceLength", 0)
      BY <2>2
    <3> QED BY <2>1, <3>1, ProblemOutcome DEF Problems
  <2>3. CASE foreign /\ ~overlong
    <3>1. e = Problem("UnicodeCharacter", 0)
      BY <2>3
    <3> QED BY <2>1, <3>1, ProblemOutcome DEF Problems
  <2>4. CASE ~overlong /\ ~foreign
    <3>1. e = character
      BY <2>4
    <3> QED BY <1>5, <1>10, <2>1, <2>4, <3>1
  <2> QED BY <2>2, <2>3, <2>4
<1> QED BY <1>1, <1>2, <1>7, <1>8, <1>9, <1>10

LEMMA UnitTyped ==
    ASSUME NEW s, NEW i, NEW j, j = i + 1, s[i] \in Octet, s[j] \in Octet, NEW encoding
    PROVE  Unit16(s, i, encoding) \in Nat /\ Unit16(s, i, encoding) < 65536
<1>1. ASSUME NEW a \in Octet, NEW b \in Octet
      PROVE  /\ a + 256 * b \in Nat /\ a + 256 * b < 65536
             /\ 256 * a + b \in Nat /\ 256 * a + b < 65536
  BY SMT DEF Octet
<1>2. Unit16(s, i, encoding) = IF encoding = "UTF-16LE" THEN s[i] + 256 * s[j]
                                                       ELSE 256 * s[i] + s[j]
  BY DEF Unit16
<1> QED BY <1>1, <1>2

LEMMA PairTyped ==
    ASSUME NEW first \in Nat, NEW second \in Nat
    PROVE  PairValue(first, second) \in CodePoint
<1>1. first % 1024 \in 0 .. 1023 /\ second % 1024 \in 0 .. 1023
  OBVIOUS
<1> QED BY <1>1, SMT DEF PairValue, CodePoint, LastCodePoint

(* The same of UTF-16, where a pair of units may be cut after the first.   *)
LEMMA DecodeUtf16Outcome ==
    ASSUME NEW s, NEW n \in Nat \ {0}, Len(s) = n, \A i \in 1 .. n : s[i] \in Octet,
           NEW encoding, NEW eof \in BOOLEAN
    PROVE  Outcome(DecodeUtf16(s, encoding, eof), n, eof)
<1> DEFINE first == Unit16(s, 1, encoding)
           second == Unit16(s, 3, encoding)
           pair == PairValue(first, second)
           d == DecodeUtf16(s, encoding, eof)
           e == CASE n < 4 -> Incomplete(eof, "IncompletePair")
                  [] n >= 4 /\ second \notin LowSurrogate -> Problem("ExpectedLow", 2)
                  [] OTHER -> Character(pair, 4)
<1>1. d = CASE n < 2 -> Incomplete(eof, "IncompleteCharacter")
            [] n >= 2 /\ first \in LowSurrogate -> Problem("UnexpectedLow", 0)
            [] n >= 2 /\ first \in HighSurrogate -> e
            [] OTHER -> Character(first, 2)
  BY DEF DecodeUtf16
<1>2. n >= 2 => first \in Nat /\ first < 65536
  <2> SUFFICES ASSUME n >= 2
               PROVE  Unit16(s, 1, encoding) \in Nat /\ Unit16(s, 1, encoding) < 65536
    OBVIOUS
  <2>1. s[1] \in Octet /\ s[2] \in Octet /\ 2 = 1 + 1
    OBVIOUS
  <2> QED BY <2>1, UnitTyped
<1>3. n >= 4 => second \in Nat
  <2> SUFFICES ASSUME n >= 4
               PROVE  Unit16(s, 3, encoding) \in Nat
    OBVIOUS
  <2>1. s[3] \in Octet /\ s[4] \in Octet /\ 4 = 3 + 1
    OBVIOUS
  <2> QED BY <2>1, UnitTyped, SMTT(30)
<1>4. n >= 4 => pair \in CodePoint
  <2> HIDE DEF first, second
  <2> QED BY <1>2, <1>3, PairTyped
<1>5. LowSurrogate \cap HighSurrogate = {}
  BY DEF LowSurrogate, HighSurrogate
<1> SUFFICES Outcome(d, n, eof)
  OBVIOUS
<1> HIDE DEF first, second, pair, d, e
<1>6. CASE n < 2
  <2>1. d = Incomplete(eof, "IncompleteCharacter")
    BY <1>1, <1>6
  <2> QED BY <1>6, <2>1, IncompleteOutcome DEF Problems
<1>7. CASE n >= 2 /\ first \in LowSurrogate
  <2>1. d = Problem("UnexpectedLow", 0)
    BY <1>1, <1>7, <1>5
  <2> QED BY <2>1, ProblemOutcome DEF Problems
<1>8. CASE n >= 2 /\ first \in HighSurrogate
  <2>1. d = e
    BY <1>1, <1>8, <1>5
  <2>2. CASE n < 4
    <3>1. e = Incomplete(eof, "IncompletePair")
      BY <2>2 DEF e
    <3> QED BY <2>1, <2>2, <3>1, IncompleteOutcome DEF Problems
  <2>3. CASE n >= 4 /\ second \notin LowSurrogate
    <3>1. e = Problem("ExpectedLow", 2)
      BY <2>3 DEF e
    <3> QED BY <2>1, <3>1, ProblemOutcome DEF Problems
  <2>4. CASE n >= 4 /\ second \in LowSurrogate
    <3>1. e = Character(pair, 4)
      BY <2>4 DEF e
    <3>2. 2 * ShortestWidth(pair) <= 3 * 4
      BY AnyWidth
    <3> QED BY <1>4, <2>1, <2>4, <3>1, <3>2 DEF Outcome
  <2> QED BY <2>2, <2>3, <2>4
<1>9. CASE n >= 2 /\ first \notin LowSurrogate /\ first \notin HighSurrogate
  <2>1. d = Character(first, 2)
    BY <1>1, <1>9
  <2>2. first \in CodePoint
    BY <1>2, <1>9, SMT DEF CodePoint, LastCodePoint
  <2>3. 2 * ShortestWidth(first) <= 3 * 2
    BY <1>2, <1>9, WidthOfValue
  <2> QED BY <1>9, <2>1, <2>2, <2>3 DEF Outcome
<1> QED BY <1>6, <1>7, <1>8, <1>9

-----------------------------------------------------------------------------
(***************************************************************************)
(* The characters in the buffer behind the pointer, counted by their       *)
(* leading octets.                                                         *)
(***************************************************************************)
StartsIn(b, p) == {i \in p + 1 .. Len(b) : b[i] \notin Trailing}

CharacterAt(b, i) ==
    /\ Utf8Width(b[i]) \in 1 .. 4 /\ i + Utf8Width(b[i]) <= Len(b) + 1
    /\ \A j \in i + 1 .. i + Utf8Width(b[i]) - 1 : b[j] \in Trailing
    /\ i + Utf8Width(b[i]) <= Len(b) => b[i + Utf8Width(b[i])] \notin Trailing

(* There is nothing but whole characters.                                  *)
Formed(b, p) ==
    /\ \A i \in StartsIn(b, p) : CharacterAt(b, i)
    /\ p < Len(b) => b[p + 1] \notin Trailing

LEMMA StartsCounted ==
    ASSUME NEW b \in Seq(Octet), NEW p \in 0 .. Len(b)
    PROVE  /\ IsFiniteSet(StartsIn(b, p)) /\ Cardinality(StartsIn(b, p)) \in Nat
           /\ p = Len(b) => Cardinality(StartsIn(b, p)) = 0
<1>1. Len(b) \in Nat /\ p \in Nat
  BY LenProperties
<1>2. IsFiniteSet(p + 1 .. Len(b))
  <2>1. p + 1 \in Int /\ Len(b) \in Int
    BY <1>1
  <2> QED BY <2>1, FS_Interval
<1>3. StartsIn(b, p) \in SUBSET (p + 1 .. Len(b))
  BY DEF StartsIn
<1>4. IsFiniteSet(StartsIn(b, p))
  BY <1>2, <1>3, FS_Subset
<1>5. Cardinality(StartsIn(b, p)) \in Nat
  BY <1>4, FS_CardinalityType
<1>6. p = Len(b) => StartsIn(b, p) = {}
  BY <1>1 DEF StartsIn
<1> QED BY <1>4, <1>5, <1>6, FS_EmptySet

(* SKIP takes one character off.                                           *)
LEMMA SkipFormed ==
    ASSUME NEW b \in Seq(Octet), NEW p \in 0 .. Len(b), p < Len(b), Formed(b, p),
           NEW w, w = Utf8Width(b[p + 1])
    PROVE  /\ w \in 1 .. 4 /\ p + w \in 0 .. Len(b)
           /\ Formed(b, p + w)
           /\ Cardinality(StartsIn(b, p + w)) = Cardinality(StartsIn(b, p)) - 1
<1>1. Len(b) \in Nat /\ p \in Nat
  BY LenProperties
<1>2. p + 1 \in StartsIn(b, p)
  BY <1>1 DEF StartsIn, Formed
<1>3. CharacterAt(b, p + 1)
  BY <1>2 DEF Formed
<1>4. /\ w \in 1 .. 4 /\ p + 1 + w <= Len(b) + 1
      /\ \A j \in p + 2 .. p + w : b[j] \in Trailing
      /\ p + 1 + w <= Len(b) => b[p + 1 + w] \notin Trailing
  BY <1>1, <1>3 DEF CharacterAt
<1>5. p + w \in 0 .. Len(b)
  BY <1>1, <1>4
<1>6. StartsIn(b, p + w) = StartsIn(b, p) \ {p + 1}
  <2>1. ASSUME NEW i \in p + 1 .. Len(b), i \notin p + w + 1 .. Len(b), b[i] \notin Trailing
        PROVE  i = p + 1
    BY <1>1, <1>4, <2>1
  <2> QED BY <1>1, <1>4, <2>1 DEF StartsIn
<1>7. Formed(b, p + w)
  BY <1>1, <1>4, <1>5, <1>6 DEF Formed
<1>8. Cardinality(StartsIn(b, p) \ {p + 1}) = Cardinality(StartsIn(b, p)) - 1
  BY <1>2, StartsCounted, FS_RemoveElement
<1> QED BY <1>4, <1>5, <1>6, <1>7, <1>8

(* A character more, behind the others.                                    *)
LEMMA AppendFormed ==
    ASSUME NEW b \in Seq(Octet), NEW p \in 0 .. Len(b), Formed(b, p),
           NEW u, IsCharacter(u)
    PROVE  /\ b \o u \in Seq(Octet) /\ Len(b \o u) = Len(b) + Len(u)
           /\ Formed(b \o u, p)
           /\ Cardinality(StartsIn(b \o u, p)) = Cardinality(StartsIn(b, p)) + 1
<1> DEFINE c == b \o u
           n == Len(b)
           m == Len(u)
<1>1. n \in Nat /\ p \in Nat /\ m \in 1 .. 4
  BY LenProperties DEF IsCharacter
<1>2. /\ c \in Seq(Octet) /\ Len(c) = n + m
      /\ \A i \in 1 .. n : c[i] = b[i]
      /\ \A i \in n + 1 .. n + m : c[i] = u[i - n]
  BY ConcatProperties DEF IsCharacter
<1> HIDE DEF c
<1>3. /\ c[n + 1] \notin Trailing /\ Utf8Width(c[n + 1]) = m
      /\ \A i \in n + 2 .. n + m : c[i] \in Trailing
  <2>1. /\ u[1] \notin Trailing /\ Utf8Width(u[1]) = m
        /\ \A i \in 2 .. m : u[i] \in Trailing
    BY DEF IsCharacter
  <2>2. c[n + 1] = u[1]
    BY <1>1, <1>2
  <2>3. ASSUME NEW i \in n + 2 .. n + m PROVE c[i] \in Trailing
    <3>1. i - n \in 2 .. m /\ c[i] = u[i - n]
      BY <1>1, <1>2
    <3> QED BY <2>1, <3>1
  <2> QED BY <2>1, <2>2, <2>3
<1>4. StartsIn(c, p) = StartsIn(b, p) \cup {n + 1}
  <2>1. ASSUME NEW i \in p + 1 .. n + m, c[i] \notin Trailing
        PROVE  i \in StartsIn(b, p) \/ i = n + 1
    BY <1>1, <1>2, <1>3, <2>1 DEF StartsIn
  <2>2. ASSUME NEW i \in StartsIn(b, p)
        PROVE  i \in p + 1 .. n + m /\ c[i] \notin Trailing
    BY <1>1, <1>2 DEF StartsIn
  <2> QED BY <1>1, <1>2, <1>3, <2>1, <2>2 DEF StartsIn
<1>5. ASSUME NEW i \in StartsIn(b, p) PROVE CharacterAt(c, i)
  <2> DEFINE w == Utf8Width(b[i])
  <2>1. /\ i \in 1 .. n /\ w \in 1 .. 4 /\ i + w <= n + 1
        /\ \A j \in i + 1 .. i + w - 1 : b[j] \in Trailing
        /\ i + w <= n => b[i + w] \notin Trailing
    BY <1>1, <1>5 DEF Formed, CharacterAt, StartsIn
  <2>2. c[i] = b[i]
    BY <1>2, <2>1
  <2> HIDE DEF w
  <2>3. \A j \in i + 1 .. i + w - 1 : c[j] \in Trailing
    BY <1>1, <1>2, <2>1
  <2>4. i + w <= n + m /\ c[i + w] \notin Trailing
    BY <1>1, <1>2, <1>3, <2>1, SMTT(30)
  <2>5. Utf8Width(c[i]) = w
    BY <2>2 DEF w
  <2> QED BY <1>1, <1>2, <2>1, <2>3, <2>4, <2>5 DEF CharacterAt
<1>6. CharacterAt(c, n + 1)
  <2>1. /\ m \in 1 .. 4 /\ n + 1 + m <= Len(c) + 1 /\ ~(n + 1 + m <= Len(c))
        /\ \A j \in n + 1 + 1 .. n + 1 + m - 1 : c[j] \in Trailing
    <3>1. /\ m \in 1 .. 4 /\ n + 1 + m <= Len(c) + 1 /\ ~(n + 1 + m <= Len(c))
          /\ n + 1 + 1 = n + 2 /\ n + 1 + m - 1 = n + m
      BY <1>1, <1>2
    <3> QED BY <1>3, <3>1
  <2> QED BY <1>3, <2>1 DEF CharacterAt
<1>7. p < n + m => c[p + 1] \notin Trailing
  <2>1. CASE p < n
    BY <1>1, <1>2, <2>1 DEF Formed
  <2>2. CASE p = n
    BY <1>3, <2>2
  <2> QED BY <1>1, <2>1, <2>2
<1>8. Formed(c, p)
  BY <1>2, <1>4, <1>5, <1>6, <1>7 DEF Formed
<1>9. n + 1 \notin StartsIn(b, p)
  BY <1>1 DEF StartsIn
<1>10. Cardinality(StartsIn(b, p) \cup {n + 1}) = Cardinality(StartsIn(b, p)) + 1
  BY <1>9, StartsCounted, FS_AddElement
<1> QED BY <1>2, <1>4, <1>8, <1>10 DEF c

(* What is unread moves to the beginning of the buffer.                    *)
LEMMA ShiftFormed ==
    ASSUME NEW b \in Seq(Octet), NEW p \in 0 .. Len(b), Formed(b, p),
           NEW c, c = SubSeq(b, p + 1, Len(b))
    PROVE  /\ c \in Seq(Octet) /\ Len(c) = Len(b) - p
           /\ Formed(c, 0)
           /\ Cardinality(StartsIn(c, 0)) = Cardinality(StartsIn(b, p))
<1> DEFINE n == Len(b)
<1>1. n \in Nat /\ p \in Nat /\ p <= n
  BY LenProperties
<1>2. /\ c \in Seq(Octet) /\ Len(c) = n - p
      /\ \A i \in 1 .. n - p : c[i] = b[p + i]
  <2>1. /\ c \in Seq(Octet) /\ Len(c) = n - p
        /\ \A i \in 1 .. n - p : c[i] = b[p + 1 + i - 1]
    BY <1>1, SubSeqProperties
  <2> QED BY <1>1, <2>1
<1> HIDE DEF n
<1>3. StartsIn(b, p) = {i \in p + 1 .. n : b[i] \notin Trailing}
  BY DEF StartsIn, n
<1>4. StartsIn(c, 0) = {i \in 1 .. n - p : c[i] \notin Trailing}
  BY <1>2 DEF StartsIn
<1>5. ASSUME NEW i \in StartsIn(c, 0) PROVE CharacterAt(c, i)
  <2> DEFINE w == Utf8Width(b[p + i])
  <2>0. i \in 1 .. n - p /\ c[i] \notin Trailing
    BY <1>4
  <2>1. i \in 1 .. n - p /\ p + i \in StartsIn(b, p)
    <3>1. p + i \in p + 1 .. n
      BY <1>1, <2>0
    <3>2. c[i] = b[p + i]
      BY <1>2, <2>0
    <3> QED BY <1>3, <2>0, <3>1, <3>2
  <2>2. /\ w \in 1 .. 4 /\ p + i + w <= n + 1
        /\ \A j \in p + i + 1 .. p + i + w - 1 : b[j] \in Trailing
        /\ p + i + w <= n => b[p + i + w] \notin Trailing
    BY <2>1 DEF Formed, CharacterAt, n
  <2>3. w = Utf8Width(c[i])
    BY <1>2, <2>1
  <2> HIDE DEF w
  <2>4. ASSUME NEW j \in i + 1 .. i + w - 1 PROVE c[j] \in Trailing
    <3>1. j \in 1 .. n - p /\ p + j \in p + i + 1 .. p + i + w - 1
      BY <1>1, <2>1, <2>2
    <3> QED BY <1>2, <2>2, <3>1
  <2>5. ASSUME i + w <= n - p PROVE c[i + w] \notin Trailing
    <3>1. i + w \in 1 .. n - p /\ p + (i + w) = p + i + w
      BY <1>1, <2>1, <2>2, <2>5
    <3> QED BY <1>1, <1>2, <2>2, <3>1
  <2>6. i + w <= n - p + 1
    BY <1>1, <2>1, <2>2
  <2> QED BY <1>2, <2>2, <2>3, <2>4, <2>5, <2>6 DEF CharacterAt
<1>6. 0 < n - p => c[1] \notin Trailing
  BY <1>1, <1>2 DEF Formed, n
<1>7. Formed(c, 0)
  BY <1>2, <1>5, <1>6 DEF Formed
<1>8. ExistsBijection(StartsIn(c, 0), StartsIn(b, p))
  <2> DEFINE f == [i \in StartsIn(c, 0) |-> p + i]
  <2>1. ASSUME NEW i \in StartsIn(c, 0) PROVE p + i \in StartsIn(b, p)
    <3>1. i \in 1 .. n - p /\ c[i] \notin Trailing
      BY <1>4
    <3>2. c[i] = b[p + i] /\ p + i \in p + 1 .. n
      BY <1>1, <1>2, <3>1
    <3> QED BY <1>3, <3>1, <3>2
  <2>2. ASSUME NEW j \in StartsIn(b, p) PROVE j - p \in StartsIn(c, 0) /\ p + (j - p) = j
    <3>1. j \in p + 1 .. n /\ b[j] \notin Trailing
      BY <1>3
    <3>2. j - p \in 1 .. n - p /\ p + (j - p) = j
      BY <1>1, <3>1
    <3>3. c[j - p] = b[j]
      BY <1>2, <3>2
    <3> QED BY <1>4, <3>1, <3>2, <3>3
  <2>3. \A i, j \in StartsIn(c, 0) : p + i = p + j => i = j
    BY <1>1, <1>4
  <2>4. f \in [StartsIn(c, 0) -> StartsIn(b, p)]
    BY <2>1
  <2>5. \A i, j \in StartsIn(c, 0) : f[i] = f[j] => i = j
    BY <2>3
  <2>6. \A j \in StartsIn(b, p) : \E i \in StartsIn(c, 0) : f[i] = j
    BY <2>2
  <2> HIDE DEF f
  <2> QED BY <2>4, <2>5, <2>6 DEF ExistsBijection, Bijection, Injection, Surjection, IsInjective
<1>9. IsFiniteSet(StartsIn(c, 0))
  <2>1. 0 \in 0 .. Len(c)
    BY <1>1, <1>2
  <2> QED BY <1>2, <2>1, StartsCounted
<1>10. Cardinality(StartsIn(c, 0)) = Cardinality(StartsIn(b, p))
  BY <1>8, <1>9, FS_Bijection
<1> QED BY <1>2, <1>7, <1>10 DEF n

(* No character is longer than four octets.                                *)
LEMMA FormedLength ==
    ASSUME NEW b \in Seq(Octet), NEW p \in 0 .. Len(b), Formed(b, p)
    PROVE  Len(b) - p <= 4 * Cardinality(StartsIn(b, p))
<1> DEFINE Bounded(k) == \A q \in 0 .. Len(b) :
                            Formed(b, q) /\ Cardinality(StartsIn(b, q)) = k
                               => Len(b) - q <= 4 * k
           T == {k \in Nat : Bounded(k)}
<1>1. Len(b) \in Nat
  BY LenProperties
<1>2. 0 \in T
  <2> SUFFICES ASSUME NEW q \in 0 .. Len(b), Formed(b, q), Cardinality(StartsIn(b, q)) = 0
               PROVE  Len(b) - q <= 0
    OBVIOUS
  <2>1. StartsIn(b, q) = {}
    BY StartsCounted, FS_EmptySet
  <2>2. q < Len(b) => q + 1 \in StartsIn(b, q)
    BY <1>1 DEF Formed, StartsIn
  <2> QED BY <1>1, <2>1, <2>2
<1>3. ASSUME NEW k \in T PROVE k + 1 \in T
  <2> SUFFICES ASSUME NEW q \in 0 .. Len(b), Formed(b, q), Cardinality(StartsIn(b, q)) = k + 1
               PROVE  Len(b) - q <= 4 * (k + 1)
    OBVIOUS
  <2> DEFINE w == Utf8Width(b[q + 1])
  <2>1. q < Len(b)
    BY <1>1, StartsCounted
  <2>2. /\ w \in 1 .. 4 /\ q + w \in 0 .. Len(b) /\ Formed(b, q + w)
        /\ Cardinality(StartsIn(b, q + w)) = k + 1 - 1
    BY <2>1, SkipFormed
  <2> HIDE DEF w
  <2>3. Len(b) - (q + w) <= 4 * k
    BY <2>2
  <2> QED BY <1>1, <2>2, <2>3
<1>4. T = Nat
  <2> HIDE DEF T
  <2>1. T \in SUBSET Nat
    BY DEF T
  <2> QED BY <1>2, <1>3, <2>1, SetInduction
<1>5. Cardinality(StartsIn(b, p)) \in T
  BY <1>4, StartsCounted
<1> QED BY <1>5

-----------------------------------------------------------------------------
(***************************************************************************)
(* Decoding what is in the raw buffer.                                     *)
(***************************************************************************)
Encodings == {"any", "UTF-8", "UTF-16LE", "UTF-16BE"}
Phases == {"idle", "encoding", "filling", "failed"}

Reading == [encoding : Encodings, eof : BOOLEAN, raw : Seq(Octet), rawPointer : Nat,
            offset : Nat, buffer : Seq(Octet), pointer : Nat, unread : Nat,
            phase : Phases, length : Nat, error : Problems \cup {"none"}, at : Nat]

(* The pointers stay within their buffers, and "unread" counts characters. *)
Good(r) ==
    /\ r \in Reading
    /\ r.rawPointer \in 0 .. Len(r.raw) /\ r.pointer \in 0 .. Len(r.buffer)
    /\ Formed(r.buffer, r.pointer)
    /\ r.unread = Cardinality(StartsIn(r.buffer, r.pointer))

(* Decoding goes on from r to c: it takes octets, and writes at most half  *)
(* as many again.                                                          *)
Decoded(r, c) ==
    /\ c.raw = r.raw /\ c.eof = r.eof /\ c.pointer = r.pointer /\ c.length = r.length
    /\ c.phase \in {r.phase, "failed"} /\ r.rawPointer <= c.rawPointer
    /\ 2 * (Len(c.buffer) - Len(r.buffer)) <= 3 * (c.rawPointer - r.rawPointer)

(* Nothing more can be done with what is in the raw buffer.                *)
Stuck(r) ==
    \/ r.phase = "failed" \/ r.rawPointer = Len(r.raw)
    \/ Len(r.raw) - r.rawPointer <= 3 /\ ~r.eof

LEMMA GoodRest ==
    ASSUME NEW r, Good(r)
    PROVE  /\ Rest(r) \in Seq(Octet)
           /\ Len(Rest(r)) = Len(r.raw) - r.rawPointer /\ Len(Rest(r)) \in Nat
           /\ Rest(r) = <<>> <=> r.rawPointer = Len(r.raw)
           /\ \A i \in 1 .. Len(Rest(r)) : Rest(r)[i] \in Octet
           /\ r.rawPointer \in Nat /\ Len(r.raw) \in Nat /\ r.rawPointer <= Len(r.raw)
<1> DEFINE raw == r.raw
           p == r.rawPointer
           s == Rest(r)
<1>1. raw \in Seq(Octet) /\ p \in 0 .. Len(raw)
  BY DEF Good, Reading
<1>2. s = SubSeq(raw, p + 1, Len(raw))
  BY DEF Rest
<1> HIDE DEF raw, p, s
<1>3. Len(raw) \in Nat /\ p \in Nat /\ p <= Len(raw)
  BY <1>1, LenProperties
<1>4. s \in Seq(Octet) /\ Len(s) = Len(raw) - p
  <2>1. SubSeq(raw, p + 1, Len(raw)) \in Seq(Octet)
    BY <1>1, <1>3, SubSeqProperties
  <2>2. Len(SubSeq(raw, p + 1, Len(raw))) = Len(raw) - p
    BY <1>1, <1>3, SubSeqProperties
  <2> QED BY <1>2, <2>1, <2>2
<1>5. s = <<>> <=> Len(s) = 0
  BY <1>4, EmptySeq
<1>6. \A i \in 1 .. Len(s) : s[i] \in Octet
  BY <1>4, ElementOfSeq
<1> QED BY <1>3, <1>4, <1>5, <1>6 DEF raw, p, s

LEMMA DecodeOutcome ==
    ASSUME NEW r, Good(r), NEW n, n = Len(r.raw) - r.rawPointer, n # 0
    PROVE  Outcome(Decode(r), n, r.eof)
<1> DEFINE s == Rest(r)
           d == IF r.encoding = "UTF-8" THEN DecodeUtf8(s, r.eof)
                                        ELSE DecodeUtf16(s, r.encoding, r.eof)
<1>1. Len(s) = n /\ n \in Nat \ {0} /\ \A i \in 1 .. n : s[i] \in Octet
  BY GoodRest
<1>2. r.eof \in BOOLEAN
  BY DEF Good, Reading
<1>3. Decode(r) = IF d.is = "character" /\ ~Allowed(d.value)
                  THEN Problem("ControlCharacter", 0) ELSE d
  BY DEF Decode
<1> HIDE DEF s
<1>4. Outcome(DecodeUtf8(s, r.eof), n, r.eof)
  BY <1>1, <1>2, DecodeUtf8Outcome
<1>5. Outcome(DecodeUtf16(s, r.encoding, r.eof), n, r.eof)
  BY <1>1, <1>2, DecodeUtf16Outcome
<1>6. Outcome(d, n, r.eof)
  BY <1>4, <1>5
<1> HIDE DEF d
<1>7. Outcome(Problem("ControlCharacter", 0), n, r.eof)
  BY ProblemOutcome DEF Problems
<1> QED BY <1>3, <1>6, <1>7

LEMMA DecodedSelf ==
    ASSUME NEW r, Good(r)
    PROVE  Decoded(r, r)
<1>1. r.rawPointer \in Nat /\ Len(r.buffer) \in Nat
  BY LenProperties DEF Good, Reading
<1> QED BY <1>1 DEF Decoded

LEMMA StoreGood ==
    ASSUME NEW r, Good(r), NEW value \in CodePoint, NEW width \in Nat \ {0},
           width <= Len(r.raw) - r.rawPointer, 2 * ShortestWidth(value) <= 3 * width,
           NEW c, c = Store(r, Character(value, width))
    PROVE  Good(c) /\ Decoded(r, c) /\ c.rawPointer = r.rawPointer + width
<1> DEFINE u == Utf8(value)
           a == r.buffer
           p == r.pointer
           b == a \o u
<1>1. /\ r \in Reading /\ a \in Seq(Octet) /\ p \in 0 .. Len(a)
      /\ r.rawPointer \in 0 .. Len(r.raw) /\ r.rawPointer \in Nat /\ r.offset \in Nat
      /\ r.unread \in Nat /\ Formed(a, p)
      /\ r.unread = Cardinality(StartsIn(a, p))
  BY DEF Good, Reading
<1>2. IsCharacter(u) /\ Len(u) = ShortestWidth(value) /\ ShortestWidth(value) \in 1 .. 4
  BY Utf8Forms, AnyWidth
<1>3. c = [r EXCEPT !.rawPointer = @ + width, !.offset = @ + width,
                    !.buffer = b, !.unread = @ + 1]
  BY DEF Store, Character
<1> HIDE DEF u, a, p
<1>4. /\ b \in Seq(Octet) /\ Len(b) = Len(a) + Len(u) /\ Formed(b, p)
      /\ Cardinality(StartsIn(b, p)) = r.unread + 1
  BY <1>1, <1>2, AppendFormed
<1> HIDE DEF b
<1>5. /\ c \in Reading /\ c.rawPointer = r.rawPointer + width /\ c.buffer = b
      /\ c.unread = r.unread + 1 /\ c.pointer = r.pointer /\ c.raw = r.raw
      /\ c.eof = r.eof /\ c.length = r.length /\ c.phase = r.phase
  <2>1. r.rawPointer + width \in Nat /\ r.offset + width \in Nat /\ r.unread + 1 \in Nat
    BY <1>1
  <2>2. r \in Reading
    BY <1>1
  <2> QED BY <1>3, <1>4, <2>1, <2>2, ZenonT(30) DEF Reading
<1>6. Len(r.raw) \in Nat /\ Len(a) \in Nat
  BY <1>1, LenProperties DEF Good, Reading
<1>9. r.buffer = a /\ r.pointer = p
  BY DEF a, p
<1>7. Good(c)
  <2>1. c.rawPointer \in 0 .. Len(c.raw)
    <3>1. r.rawPointer + width \in 0 .. Len(r.raw)
      BY <1>1, <1>6
    <3> QED BY <1>5, <3>1
  <2>2. c.pointer \in 0 .. Len(c.buffer)
    <3>1. p \in 0 .. Len(b)
      BY <1>1, <1>2, <1>4, <1>6
    <3> QED BY <1>5, <1>9, <3>1
  <2> QED BY <1>4, <1>5, <1>9, <2>1, <2>2 DEF Good
<1>8. Decoded(r, c)
  <2>1. 2 * (Len(c.buffer) - Len(r.buffer)) <= 3 * (c.rawPointer - r.rawPointer)
    <3>1. Len(c.buffer) = Len(r.buffer) + ShortestWidth(value)
      BY <1>2, <1>4, <1>5, <1>9
    <3>2. SUFFICES ASSUME NEW i \in Nat, NEW j \in Nat, NEW k \in Nat, NEW w \in 1 .. 4,
                          j = i + w, NEW m \in Nat, m = k + width, 2 * w <= 3 * width
                   PROVE  2 * (j - i) <= 3 * (m - k)
      BY <1>1, <1>2, <1>5, <1>6, <1>9, <3>1, SMTT(30)
    <3> QED BY <3>2
  <2>2. r.rawPointer <= c.rawPointer
    <3>1. c.rawPointer = r.rawPointer + width /\ r.rawPointer \in Nat
      BY <1>1, <1>5
    <3> QED BY <3>1
  <2>3. c.phase \in {r.phase, "failed"}
    BY <1>5
  <2> QED BY <1>5, <2>1, <2>2, <2>3 DEF Decoded
<1> QED BY <1>5, <1>7, <1>8

LEMMA FailGood ==
    ASSUME NEW r, Good(r), NEW problem \in Problems, NEW at \in Nat,
           NEW c, c = Fail(r, problem, at)
    PROVE  Good(c) /\ Decoded(r, c) /\ c.phase = "failed"
<1>1. r \in Reading
  BY DEF Good
<1>2. /\ c \in Reading /\ c.rawPointer = r.rawPointer /\ c.buffer = r.buffer
      /\ c.unread = r.unread /\ c.pointer = r.pointer /\ c.raw = r.raw
      /\ c.eof = r.eof /\ c.length = r.length /\ c.phase = "failed"
  BY <1>1 DEF Fail, Reading, Phases
<1>3. Good(c)
  BY <1>2 DEF Good
<1>4. r.rawPointer \in Nat /\ Len(r.buffer) \in Nat
  BY LenProperties DEF Good, Reading
<1>5. Decoded(r, c)
  BY <1>2, <1>4 DEF Decoded
<1> QED BY <1>2, <1>3, <1>5

(* One turn of the loop of yaml_parser_update_buffer.                      *)
LEMMA DecodeNextGood ==
    ASSUME NEW r, Good(r), NEW c, c = DecodeNext(r)
    PROVE  Good(c) /\ Decoded(r, c) /\ (Stuck(c) \/ c.rawPointer > r.rawPointer)
<1> DEFINE d == Decode(r)
           n == Len(r.raw) - r.rawPointer
<1>1. c = IF r.phase = "failed" \/ Rest(r) = <<>> THEN r ELSE Resolve(r, d)
  BY DEF DecodeNext
<1>2. /\ Rest(r) = <<>> <=> r.rawPointer = Len(r.raw)
      /\ n \in Nat /\ r.rawPointer \in Nat /\ r.offset \in Nat
  <2>1. r.offset \in Nat
    BY DEF Good, Reading
  <2> QED BY <2>1, GoodRest
<1> HIDE DEF d
<1>3. CASE r.phase = "failed" \/ Rest(r) = <<>>
  <2>1. c = r
    BY <1>1, <1>3
  <2> QED BY <1>2, <1>3, <2>1, DecodedSelf DEF Stuck
<1>4. CASE ~(r.phase = "failed" \/ Rest(r) = <<>>)
  <2>5. c = Resolve(r, d)
    BY <1>1, <1>4
  <2>1. Outcome(d, n, r.eof)
    <3>1. n # 0
      BY <1>2, <1>4
    <3> QED BY <3>1, DecodeOutcome DEF d
  <2>2. ASSUME NEW value \in CodePoint, NEW width \in 1 .. n, d = Character(value, width),
               2 * ShortestWidth(value) <= 3 * width
        PROVE  Good(c) /\ Decoded(r, c) /\ (Stuck(c) \/ c.rawPointer > r.rawPointer)
    <3>1. c = Store(r, Character(value, width))
      <4>1. d.is = "character"
        BY <2>2 DEF Character
      <4> QED BY <2>5, <2>2, <4>1 DEF Resolve
    <3>2. width \in Nat \ {0} /\ width <= n
      BY <1>2
    <3>3. Good(c) /\ Decoded(r, c) /\ c.rawPointer = r.rawPointer + width
      BY <2>2, <3>1, <3>2, StoreGood
    <3> QED BY <1>2, <3>2, <3>3
  <2>3. ASSUME NEW problem \in Problems, NEW at \in Nat, d = Problem(problem, at)
        PROVE  Good(c) /\ Decoded(r, c) /\ Stuck(c)
    <3> DEFINE where == r.offset + at
    <3>1. c = Fail(r, problem, where)
      <4>1. d.is = "error" /\ d.problem = problem /\ d.at = at
        BY <2>3 DEF Problem
      <4> QED BY <2>5, <4>1 DEF Resolve
    <3>2. where \in Nat
      BY <1>2
    <3> HIDE DEF where
    <3> QED BY <3>1, <3>2, FailGood DEF Stuck
  <2>4. ASSUME d = [is |-> "incomplete"], n <= 3, ~r.eof
        PROVE  Good(c) /\ Decoded(r, c) /\ Stuck(c)
    <3>1. c = r
      <4>1. d.is = "incomplete"
        BY <2>4
      <4> QED BY <2>5, <4>1 DEF Resolve
    <3> QED BY <2>4, <3>1, DecodedSelf DEF Stuck
  <2> QED BY <2>1, <2>2, <2>3, <2>4 DEF Outcome
<1> QED BY <1>3, <1>4

LEMMA DecodedOn ==
    ASSUME NEW r, Good(r), NEW c, Good(c), NEW d, Good(d), Decoded(r, c), Decoded(c, d)
    PROVE  Decoded(r, d) /\ (Stuck(c) => Stuck(d))
<1>1. /\ r.rawPointer \in Nat /\ c.rawPointer \in Nat /\ d.rawPointer \in Nat
      /\ Len(r.buffer) \in Nat /\ Len(c.buffer) \in Nat /\ Len(d.buffer) \in Nat
  BY LenProperties DEF Good, Reading
<1>2. /\ c.raw = r.raw /\ c.eof = r.eof /\ c.pointer = r.pointer /\ c.length = r.length
      /\ d.raw = c.raw /\ d.eof = c.eof /\ d.pointer = c.pointer /\ d.length = c.length
      /\ c.phase \in {r.phase, "failed"} /\ d.phase \in {c.phase, "failed"}
  BY DEF Decoded
<1>3. r.rawPointer <= c.rawPointer /\ c.rawPointer <= d.rawPointer
  BY DEF Decoded
<1>4. /\ 2 * (Len(c.buffer) - Len(r.buffer)) <= 3 * (c.rawPointer - r.rawPointer)
      /\ 2 * (Len(d.buffer) - Len(c.buffer)) <= 3 * (d.rawPointer - c.rawPointer)
  BY DEF Decoded
<1>5. 2 * (Len(d.buffer) - Len(r.buffer)) <= 3 * (d.rawPointer - r.rawPointer)
  <2> SUFFICES ASSUME NEW i \in Nat, NEW j \in Nat, NEW k \in Nat,
                      NEW x \in Nat, NEW y \in Nat, NEW z \in Nat,
                      2 * (y - x) <= 3 * (j - i), 2 * (z - y) <= 3 * (k - j)
               PROVE  2 * (z - x) <= 3 * (k - i)
    BY <1>1, <1>4
  <2> QED OBVIOUS
<1>6. Decoded(r, d)
  <2>1. r.rawPointer <= d.rawPointer
    BY <1>1, <1>3
  <2>2. /\ d.raw = r.raw /\ d.eof = r.eof /\ d.pointer = r.pointer /\ d.length = r.length
        /\ d.phase \in {r.phase, "failed"}
    BY <1>2
  <2> QED BY <1>5, <2>1, <2>2 DEF Decoded
<1>7. Len(d.raw) \in Nat /\ d.rawPointer <= Len(d.raw)
  BY GoodRest
<1>8. Stuck(c) => Stuck(d)
  BY <1>1, <1>2, <1>3, <1>7 DEF Stuck
<1> QED BY <1>6, <1>8

(* What the loop has after each of its turns.                              *)
Turns(f, r, n) == f = [i \in 0 .. n |-> IF i = 0 THEN r ELSE DecodeNext(f[i - 1])]

LEMMA TurnsExist ==
    ASSUME NEW r, NEW n \in Nat
    PROVE  \E f : Turns(f, r, n)
<1> DEFINE T == {k \in Nat : \E f : Turns(f, r, k)}
<1>1. 0 \in T
  <2> DEFINE f == [i \in 0 .. 0 |-> r]
  <2>1. Turns(f, r, 0)
    BY DEF Turns
  <2> QED BY <2>1
<1>2. ASSUME NEW k \in T PROVE k + 1 \in T
  <2>1. PICK f : Turns(f, r, k)
    OBVIOUS
  <2> DEFINE g == [i \in 0 .. k + 1 |-> IF i \in 0 .. k THEN f[i] ELSE DecodeNext(f[k])]
  <2>2. ASSUME NEW i \in 0 .. k + 1
        PROVE  g[i] = IF i = 0 THEN r ELSE DecodeNext(g[i - 1])
    <3>1. CASE i = 0
      BY <2>1, <3>1 DEF Turns
    <3>2. CASE i \in 0 .. k /\ i # 0
      <4>1. i - 1 \in 0 .. k /\ i - 1 \in 0 .. k + 1
        BY <3>2
      <4>2. g[i] = f[i] /\ g[i - 1] = f[i - 1]
        BY <3>2, <4>1
      <4>3. f[i] = DecodeNext(f[i - 1])
        BY <2>1, <3>2 DEF Turns
      <4> QED BY <3>2, <4>2, <4>3
    <3>3. CASE i \notin 0 .. k
      <4>1. i - 1 = k /\ k \in 0 .. k /\ k \in 0 .. k + 1 /\ i # 0
        BY <3>3
      <4>2. g[i] = DecodeNext(f[k]) /\ g[k] = f[k]
        BY <3>3, <4>1
      <4> QED BY <4>1, <4>2
    <3> QED BY <3>1, <3>2, <3>3
  <2>3. g = [i \in 0 .. k + 1 |-> g[i]]
    OBVIOUS
  <2> HIDE DEF g
  <2>4. Turns(g, r, k + 1)
    BY <2>2, <2>3 DEF Turns
  <2> QED BY <2>4
<1>3. T = Nat
  <2> HIDE DEF T
  <2>1. T \in SUBSET Nat
    BY DEF T
  <2> QED BY <1>1, <1>2, <2>1, SetInduction
<1> QED BY <1>3

(* Every turn takes an octet, or nothing more can be done.                 *)
LEMMA TurnsGood ==
    ASSUME NEW r, Good(r), NEW n \in Nat, NEW f, Turns(f, r, n)
    PROVE  Good(f[n]) /\ Decoded(r, f[n])
           /\ (Stuck(f[n]) \/ f[n].rawPointer >= r.rawPointer + n)
<1> DEFINE Reached(c, k) == /\ Good(c) /\ Decoded(r, c)
                            /\ Stuck(c) \/ c.rawPointer >= r.rawPointer + k
           T == {k \in Nat : k <= n => Reached(f[k], k)}
<1>1. 0 \in T
  <2>1. f[0] = r
    BY DEF Turns
  <2>2. r.rawPointer >= r.rawPointer + 0
    BY GoodRest
  <2> QED BY <2>1, <2>2, DecodedSelf
<1>2. ASSUME NEW k \in T PROVE k + 1 \in T
  <2> SUFFICES ASSUME k + 1 <= n PROVE Reached(f[k + 1], k + 1)
    OBVIOUS
  <2>1. f[k + 1] = DecodeNext(f[k])
    <3>1. k + 1 \in 0 .. n /\ k + 1 # 0 /\ k + 1 - 1 = k
      OBVIOUS
    <3> QED BY <3>1 DEF Turns
  <2>2. Reached(f[k], k)
    OBVIOUS
  <2> SUFFICES ASSUME NEW c, c = f[k], NEW d, d = f[k + 1], d = DecodeNext(c), Reached(c, k)
               PROVE  Reached(d, k + 1)
    BY <2>1, <2>2
  <2>3. Good(d) /\ Decoded(c, d) /\ (Stuck(d) \/ d.rawPointer > c.rawPointer)
    BY DecodeNextGood
  <2>4. r.rawPointer \in Nat /\ c.rawPointer \in Nat /\ d.rawPointer \in Nat
    BY <2>3, GoodRest
  <2>5. Decoded(r, d) /\ (Stuck(c) => Stuck(d))
    BY <2>3, DecodedOn
  <2>7. Stuck(d) \/ d.rawPointer >= r.rawPointer + (k + 1)
    BY <2>3, <2>4, <2>5
  <2> QED BY <2>3, <2>5, <2>7
<1>3. T = Nat
  <2> HIDE DEF T
  <2>1. T \in SUBSET Nat
    BY DEF T
  <2> QED BY <1>1, <1>2, <2>1, SetInduction
<1> QED BY <1>3

(* When DecodeRaw is through, all is decoded that can be.                  *)
LEMMA DecodeRawGood ==
    ASSUME NEW r, Good(r), NEW c, c = DecodeRaw(r)
    PROVE  Good(c) /\ Decoded(r, c) /\ Stuck(c)
<1> DEFINE n == Len(Rest(r))
           f == CHOOSE f : Turns(f, r, n)
<1>1. /\ n \in Nat /\ n = Len(r.raw) - r.rawPointer
      /\ r.rawPointer \in Nat /\ Len(r.raw) \in Nat
  BY GoodRest
<1>2. c = f[n]
  BY DEF DecodeRaw, Turns
<1>3. Turns(f, r, n)
  <2> HIDE DEF n
  <2> QED BY <1>1, TurnsExist
<1> HIDE DEF f, n
<1>4. Good(c) /\ Decoded(r, c) /\ (Stuck(c) \/ c.rawPointer >= r.rawPointer + n)
  BY <1>1, <1>2, <1>3, TurnsGood
<1>5. c.rawPointer >= r.rawPointer + n => Stuck(c)
  BY <1>1, <1>4, GoodRest DEF Decoded, Stuck
<1> QED BY <1>4, <1>5

-----------------------------------------------------------------------------
(***************************************************************************)
(* A call, from one read to the next.                                      *)
(***************************************************************************)

(* A call that waits for the read handler waits for what it can use: the   *)
(* input is not known to end, and there is room in the raw buffer.         *)
WaitsRightly(r) ==
    /\ r.phase \in {"encoding", "filling"} =>
          ~r.eof /\ r.unread < r.length /\ Len(r.raw) - r.rawPointer <= 3
    /\ r.phase = "filling" => r.pointer = 0

Fits(r) ==
    /\ Good(r) /\ WaitsRightly(r)
    /\ Len(r.raw) <= RawSize /\ Len(r.buffer) <= BufferSize
    /\ r.length <= MaxLength

Returns(r) ==
    r.phase = "idle" => \/ r.unread >= r.length
                        \/ r.buffer # <<>> /\ Last(r.buffer) = 0

(* What a call that goes on starts from. *)
Asked(r) ==
    /\ Good(r) /\ Len(r.raw) <= RawSize /\ Len(r.buffer) <= BufferSize
    /\ r.length <= MaxLength /\ r.unread < r.length

LEMMA SizesSuffice ==
    ASSUME NEW unread \in Nat, NEW length \in Nat, unread < length, length <= MaxLength,
           NEW before \in Nat, before <= 4 * unread,
           NEW from \in Nat, NEW to \in Nat, from <= to, to <= RawSize,
           NEW behind \in Nat, 2 * (behind - before) <= 3 * (to - from)
    PROVE  behind + 1 <= BufferSize /\ before <= BufferSize
<1>1. /\ RawSize \in Nat /\ MaxLength \in Nat
      /\ 8 * (MaxLength - 1) + 2 <= 3 * RawSize
  BY ReaderAssumption
<1>2. 8 * unread <= 8 * (MaxLength - 1)
  BY <1>1
<1>3. 2 * before + 2 <= 3 * RawSize
  BY <1>1, <1>2
<1>4. 2 * behind <= 2 * before + 3 * RawSize
  BY <1>1
<1> QED BY <1>1, <1>3, <1>4 DEF BufferSize

LEMMA GoodTypes ==
    ASSUME NEW r, Good(r)
    PROVE  /\ r \in Reading /\ r.raw \in Seq(Octet) /\ r.buffer \in Seq(Octet)
           /\ r.rawPointer \in Nat /\ r.pointer \in Nat /\ r.unread \in Nat /\ r.length \in Nat
           /\ Len(r.raw) \in Nat /\ Len(r.buffer) \in Nat
           /\ r.rawPointer <= Len(r.raw) /\ r.pointer <= Len(r.buffer)
           /\ r.phase \in Phases /\ r.eof \in BOOLEAN
<1>1. /\ r \in Reading /\ r.rawPointer \in 0 .. Len(r.raw) /\ r.pointer \in 0 .. Len(r.buffer)
  BY DEF Good
<1>2. /\ r.raw \in Seq(Octet) /\ r.buffer \in Seq(Octet)
      /\ r.rawPointer \in Nat /\ r.pointer \in Nat /\ r.unread \in Nat /\ r.length \in Nat
      /\ r.phase \in Phases /\ r.eof \in BOOLEAN
  BY <1>1 DEF Reading
<1>3. Len(r.raw) \in Nat /\ Len(r.buffer) \in Nat
  BY <1>2, LenProperties
<1> QED BY <1>1, <1>2, <1>3

LEMMA GoodLength ==
    ASSUME NEW r, Good(r)
    PROVE  Len(r.buffer) - r.pointer <= 4 * r.unread
<1> DEFINE b == r.buffer
           p == r.pointer
<1>1. /\ b \in Seq(Octet) /\ p \in 0 .. Len(b) /\ Formed(b, p)
      /\ r.unread = Cardinality(StartsIn(b, p))
  BY DEF Good, Reading
<1> HIDE DEF b, p
<1>2. Len(b) - p <= 4 * r.unread
  BY <1>1, FormedLength
<1> QED BY <1>2 DEF b, p

(* The end of the input, which stands in the buffer as a character.        *)
Ended(r) == [r EXCEPT !.buffer = Append(@, 0), !.unread = @ + 1, !.phase = "idle"]

LEMMA EndGood ==
    ASSUME NEW r, Good(r), NEW c, c = Ended(r)
    PROVE  /\ Good(c) /\ Len(c.buffer) = Len(r.buffer) + 1 /\ Last(c.buffer) = 0
           /\ c.phase = "idle" /\ c.length = r.length /\ c.raw = r.raw /\ c.buffer # <<>>
<1> DEFINE a == r.buffer
           p == r.pointer
           u == <<0>>
           b == Append(a, 0)
<1>1. /\ a \in Seq(Octet) /\ p \in 0 .. Len(a) /\ Formed(a, p) /\ Len(a) \in Nat
      /\ r \in Reading /\ r.unread \in Nat
      /\ r.unread = Cardinality(StartsIn(a, p)) /\ r.rawPointer \in 0 .. Len(r.raw)
  BY GoodTypes DEF Good
<1>2. IsCharacter(u) /\ Len(u) = 1
  BY DEF IsCharacter, Utf8Width, Octet, Trailing
<1>3. c = [r EXCEPT !.buffer = b, !.unread = @ + 1, !.phase = "idle"]
  BY DEF Ended
<1>4. r.buffer = a /\ r.pointer = p
  OBVIOUS
<1> HIDE DEF a, p
<1>5. b = a \o u
  BY <1>1
<1>6. b[Len(b)] = 0 /\ Len(b) = Len(a) + 1 /\ b # <<>>
  BY <1>1
<1> HIDE DEF u, b
<1>7. /\ b \in Seq(Octet) /\ Formed(b, p)
      /\ Cardinality(StartsIn(b, p)) = r.unread + 1
  BY <1>1, <1>2, <1>5, AppendFormed
<1>8. /\ c \in Reading /\ c.buffer = b /\ c.unread = r.unread + 1 /\ c.phase = "idle"
      /\ c.pointer = p /\ c.raw = r.raw /\ c.rawPointer = r.rawPointer /\ c.length = r.length
  <2>1. r \in Reading /\ r.unread + 1 \in Nat
    BY <1>1
  <2> QED BY <1>3, <1>4, <1>7, <2>1, ZenonT(30) DEF Reading, Phases
<1>9. Good(c)
  <2>1. c.pointer \in 0 .. Len(c.buffer)
    BY <1>1, <1>6, <1>8
  <2> QED BY <1>1, <1>7, <1>8, <2>1 DEF Good
<1> QED BY <1>4, <1>6, <1>8, <1>9 DEF Last

LEMMA PhaseGood ==
    ASSUME NEW r, Good(r), NEW phase \in Phases, NEW c, c = [r EXCEPT !.phase = phase]
    PROVE  /\ Good(c) /\ c.phase = phase /\ c.length = r.length /\ c.raw = r.raw
           /\ c.rawPointer = r.rawPointer /\ c.buffer = r.buffer /\ c.pointer = r.pointer
           /\ c.unread = r.unread /\ c.eof = r.eof
<1>1. r \in Reading
  BY DEF Good
<1>2. /\ c \in Reading /\ c.phase = phase /\ c.length = r.length /\ c.raw = r.raw
      /\ c.rawPointer = r.rawPointer /\ c.buffer = r.buffer /\ c.pointer = r.pointer
      /\ c.unread = r.unread /\ c.eof = r.eof
  BY <1>1 DEF Reading
<1> QED BY <1>2 DEF Good

(* A turn of the loop that fills the buffer.                               *)
LEMMA FillFits ==
    ASSUME NEW r, Asked(r), r.pointer = 0, r.phase # "failed", NEW c, c = Fill(r)
    PROVE  Fits(c) /\ Returns(c)
<1> DEFINE d == DecodeRaw(r)
<1>1. Good(r) /\ Len(r.raw) <= RawSize /\ r.length <= MaxLength /\ r.unread < r.length
  BY DEF Asked
<1>2. Good(d) /\ Decoded(r, d) /\ Stuck(d)
  BY <1>1, DecodeRawGood
<1>3. c = CASE d.phase = "failed" -> d
            [] d.phase # "failed" /\ d.eof -> Ended(d)
            [] d.phase # "failed" /\ ~d.eof /\ d.unread >= d.length -> [d EXCEPT !.phase = "idle"]
            [] OTHER -> [d EXCEPT !.phase = "filling"]
  BY DEF Fill, Ended
<1> HIDE DEF d
<1>4. /\ d.raw = r.raw /\ d.length = r.length /\ d.pointer = 0 /\ r.rawPointer <= d.rawPointer
      /\ 2 * (Len(d.buffer) - Len(r.buffer)) <= 3 * (d.rawPointer - r.rawPointer)
  BY <1>2 DEF Decoded
<1>5. Len(d.buffer) + 1 <= BufferSize
  <2>1. /\ r.unread \in Nat /\ r.length \in Nat /\ r.rawPointer \in Nat /\ Len(r.buffer) \in Nat
        /\ r.rawPointer <= Len(r.raw) /\ Len(r.raw) \in Nat
    BY <1>1, GoodTypes
  <2>2. d.rawPointer \in Nat /\ Len(d.buffer) \in Nat /\ d.rawPointer <= Len(r.raw)
    BY <1>2, <1>4, GoodTypes
  <2>3. Len(r.buffer) <= 4 * r.unread
    BY <1>1, <2>1, GoodLength
  <2>4. d.rawPointer <= RawSize
    BY <1>1, <2>1, <2>2, ReaderAssumption
  <2> QED BY <1>1, <1>4, <2>1, <2>2, <2>3, <2>4, SizesSuffice
<1>6. Len(d.buffer) \in Nat /\ BufferSize \in Nat /\ d.eof \in BOOLEAN
  BY <1>2, GoodTypes, ReaderAssumption DEF BufferSize
<1>7. CASE d.phase = "failed"
  <2>1. c = d
    BY <1>3, <1>7
  <2> QED BY <1>1, <1>2, <1>4, <1>5, <1>6, <1>7, <2>1 DEF Fits, WaitsRightly, Returns
<1>8. CASE d.phase # "failed" /\ d.eof
  <2>1. c = Ended(d)
    BY <1>3, <1>8
  <2>2. /\ Good(c) /\ Len(c.buffer) = Len(d.buffer) + 1 /\ Last(c.buffer) = 0
        /\ c.phase = "idle" /\ c.length = d.length /\ c.raw = d.raw /\ c.buffer # <<>>
    BY <1>2, <2>1, EndGood
  <2> QED BY <1>1, <1>4, <1>5, <2>2 DEF Fits, WaitsRightly, Returns
<1>9. CASE d.phase # "failed" /\ ~d.eof /\ d.unread >= d.length
  <2>1. c = [d EXCEPT !.phase = "idle"]
    BY <1>3, <1>9
  <2>2. /\ Good(c) /\ c.phase = "idle" /\ c.length = d.length /\ c.raw = d.raw
        /\ c.buffer = d.buffer /\ c.unread = d.unread
    BY <1>2, <2>1, PhaseGood DEF Phases
  <2>3. c.unread >= c.length
    BY <1>9, <2>2
  <2>4. Len(c.buffer) <= BufferSize
    BY <1>5, <1>6, <2>2
  <2>5. WaitsRightly(c) /\ Returns(c)
    BY <2>2, <2>3 DEF WaitsRightly, Returns
  <2>6. Len(c.raw) <= RawSize /\ c.length <= MaxLength
    BY <1>1, <1>4, <2>2
  <2> QED BY <2>2, <2>4, <2>5, <2>6 DEF Fits
<1>10. CASE d.phase # "failed" /\ ~d.eof /\ ~(d.unread >= d.length)
  <2>1. c = [d EXCEPT !.phase = "filling"]
    BY <1>3, <1>10
  <2>2. /\ Good(c) /\ c.phase = "filling" /\ c.length = d.length /\ c.raw = d.raw
        /\ c.rawPointer = d.rawPointer /\ c.buffer = d.buffer /\ c.pointer = d.pointer
        /\ c.unread = d.unread /\ c.eof = d.eof
    BY <1>2, <2>1, PhaseGood DEF Phases
  <2>3. d.unread < d.length
    <3>1. d.unread \in Nat /\ d.length \in Nat
      BY <1>2, GoodTypes
    <3> QED BY <1>10, <3>1
  <2>4. Len(d.raw) - d.rawPointer <= 3
    <3>1. d.rawPointer \in Nat /\ Len(d.raw) \in Nat
      BY <1>2, GoodTypes
    <3> QED BY <1>2, <1>10, <3>1 DEF Stuck
  <2> QED BY <1>1, <1>4, <1>5, <1>6, <1>10, <2>2, <2>3, <2>4 DEF Fits, WaitsRightly, Returns
<1> QED BY <1>6, <1>7, <1>8, <1>9, <1>10

(* What is unread moves to the beginning of the buffer, and the loop       *)
(* begins.                                                                 *)
LEMMA FillFromStartFits ==
    ASSUME NEW r, Asked(r), r.phase # "failed", NEW c, c = FillFromStart(r)
    PROVE  Fits(c) /\ Returns(c)
<1> DEFINE a == r.buffer
           p == r.pointer
           b == SubSeq(a, p + 1, Len(a))
           d == [r EXCEPT !.buffer = b, !.pointer = 0]
<1>1. /\ Good(r) /\ Len(r.raw) <= RawSize /\ Len(r.buffer) <= BufferSize
      /\ r.length <= MaxLength /\ r.unread < r.length
  BY DEF Asked
<1>2. /\ a \in Seq(Octet) /\ p \in 0 .. Len(a) /\ Formed(a, p) /\ Len(a) \in Nat
      /\ r \in Reading /\ r.unread = Cardinality(StartsIn(a, p)) /\ r.rawPointer \in 0 .. Len(r.raw)
  BY <1>1, GoodTypes DEF Good
<1>3. c = IF Rest(d) # <<>> \/ d.eof THEN Fill(d) ELSE [d EXCEPT !.phase = "filling"]
  BY DEF FillFromStart
<1>4. a = r.buffer /\ p = r.pointer
  OBVIOUS
<1> HIDE DEF a, p
<1>5. /\ b \in Seq(Octet) /\ Len(b) = Len(a) - p /\ Formed(b, 0)
      /\ Cardinality(StartsIn(b, 0)) = r.unread
  BY <1>2, ShiftFormed
<1> HIDE DEF b
<1>6. /\ d \in Reading /\ d.buffer = b /\ d.pointer = 0 /\ d.unread = r.unread /\ d.raw = r.raw
      /\ d.rawPointer = r.rawPointer /\ d.length = r.length /\ d.phase = r.phase
  BY <1>2, <1>5 DEF Reading
<1> HIDE DEF d
<1>7. Good(d)
  <2>1. d.pointer \in 0 .. Len(d.buffer)
    BY <1>2, <1>5, <1>6
  <2> QED BY <1>2, <1>5, <1>6, <2>1 DEF Good
<1>8. Len(d.buffer) <= BufferSize
  <2>1. BufferSize \in Nat /\ p \in Nat
    BY <1>2, ReaderAssumption DEF BufferSize
  <2> QED BY <1>1, <1>2, <1>4, <1>5, <1>6, <2>1
<1>9. Asked(d)
  BY <1>1, <1>6, <1>7, <1>8 DEF Asked
<1>10. CASE Rest(d) # <<>> \/ d.eof
  <2>1. c = Fill(d)
    BY <1>3, <1>10
  <2> QED BY <1>6, <1>9, <2>1, FillFits
<1>11. CASE ~(Rest(d) # <<>> \/ d.eof)
  <2>1. c = [d EXCEPT !.phase = "filling"]
    BY <1>3, <1>11
  <2>2. /\ Good(c) /\ c.phase = "filling" /\ c.length = d.length /\ c.raw = d.raw
        /\ c.rawPointer = d.rawPointer /\ c.buffer = d.buffer /\ c.pointer = d.pointer
        /\ c.unread = d.unread /\ c.eof = d.eof
    BY <1>7, <2>1, PhaseGood DEF Phases
  <2>3. Len(d.raw) - d.rawPointer <= 3
    BY <1>7, <1>11, GoodRest
  <2> QED BY <1>1, <1>6, <1>8, <1>11, <2>2, <2>3 DEF Fits, WaitsRightly, Returns
<1> QED BY <1>10, <1>11

LEMMA SkipBomAsked ==
    ASSUME NEW r, Asked(r), NEW encoding \in Encodings, NEW bom, Len(bom) \in Nat,
           StartsWith(r, bom), NEW c, c = SkipBom(r, encoding, bom)
    PROVE  Asked(c) /\ c.phase = r.phase
<1> DEFINE n == Len(bom)
<1>0. n \in Nat /\ n <= Len(Rest(r))
  BY GoodRest DEF Asked, StartsWith
<1>1. Good(r)
  BY DEF Asked
<1>2. /\ r \in Reading /\ r.rawPointer \in Nat /\ r.offset \in Nat /\ Len(r.raw) \in Nat
      /\ n <= Len(r.raw) - r.rawPointer
  BY <1>0, <1>1, GoodTypes, GoodRest DEF Reading
<1>3. c = [r EXCEPT !.encoding = encoding, !.rawPointer = @ + n, !.offset = @ + n]
  BY DEF SkipBom
<1> HIDE DEF n
<1>4. /\ c \in Reading /\ c.rawPointer = r.rawPointer + n /\ c.raw = r.raw
      /\ c.buffer = r.buffer /\ c.pointer = r.pointer /\ c.unread = r.unread
      /\ c.length = r.length /\ c.phase = r.phase
  <2>1. r.rawPointer + n \in Nat /\ r.offset + n \in Nat
    BY <1>0, <1>2
  <2> QED BY <1>2, <1>3, <2>1 DEF Reading
<1>5. c.rawPointer \in 0 .. Len(c.raw)
  BY <1>0, <1>2, <1>4
<1> QED BY <1>1, <1>4, <1>5 DEF Asked, Good

(* The encoding is determined: a mark is passed over only if all of it is  *)
(* in the raw buffer.                                                      *)
LEMMA DetermineEncodingAsked ==
    ASSUME NEW r, Asked(r), NEW c, c = DetermineEncoding(r)
    PROVE  Asked(c) /\ c.phase = r.phase
<1>1. {"UTF-16LE", "UTF-16BE", "UTF-8"} \subseteq Encodings
  BY DEF Encodings
<1>2. Len(BomUtf16LE) \in Nat /\ Len(BomUtf16BE) \in Nat /\ Len(BomUtf8) \in Nat
  BY DEF BomUtf16LE, BomUtf16BE, BomUtf8
<1>3. Good(r)
  BY DEF Asked
<1>4. \/ c = SkipBom(r, "UTF-16LE", BomUtf16LE) /\ StartsWith(r, BomUtf16LE)
      \/ c = SkipBom(r, "UTF-16BE", BomUtf16BE) /\ StartsWith(r, BomUtf16BE)
      \/ c = SkipBom(r, "UTF-8", BomUtf8) /\ StartsWith(r, BomUtf8)
      \/ c = [r EXCEPT !.encoding = "UTF-8"]
  BY DEF DetermineEncoding
<1>5. CASE c = SkipBom(r, "UTF-16LE", BomUtf16LE) /\ StartsWith(r, BomUtf16LE)
  BY <1>1, <1>2, <1>5, SkipBomAsked
<1>6. CASE c = SkipBom(r, "UTF-16BE", BomUtf16BE) /\ StartsWith(r, BomUtf16BE)
  BY <1>1, <1>2, <1>6, SkipBomAsked
<1>7. CASE c = SkipBom(r, "UTF-8", BomUtf8) /\ StartsWith(r, BomUtf8)
  BY <1>1, <1>2, <1>7, SkipBomAsked
<1>8. CASE c = [r EXCEPT !.encoding = "UTF-8"]
  <2>1. r \in Reading
    BY <1>3 DEF Good
  <2>2. /\ c \in Reading /\ c.rawPointer = r.rawPointer /\ c.raw = r.raw
        /\ c.buffer = r.buffer /\ c.pointer = r.pointer /\ c.unread = r.unread
        /\ c.length = r.length /\ c.phase = r.phase
    BY <1>8, <2>1 DEF Reading, Encodings
  <2> QED BY <1>3, <2>2 DEF Asked, Good
<1> QED BY <1>4, <1>5, <1>6, <1>7, <1>8

LEMMA ContinueFits ==
    ASSUME NEW r, Asked(r), r.phase = "encoding" \/ (r.phase = "filling" /\ r.pointer = 0),
           NEW c, c = Continue(r)
    PROVE  Fits(c) /\ Returns(c)
<1>1. /\ Good(r) /\ Len(r.raw) <= RawSize /\ Len(r.buffer) <= BufferSize
      /\ r.length <= MaxLength /\ r.unread < r.length
  BY DEF Asked
<1>2. c = CASE r.phase = "encoding" /\ (r.eof \/ Len(Rest(r)) >= 3) ->
                  FillFromStart(DetermineEncoding(r))
            [] r.phase = "encoding" /\ ~(r.eof \/ Len(Rest(r)) >= 3) -> r
            [] r.phase = "filling" -> Fill(r)
  BY DEF Continue
<1>3. CASE r.phase = "encoding" /\ (r.eof \/ Len(Rest(r)) >= 3)
  <2> DEFINE d == DetermineEncoding(r)
  <2>1. c = FillFromStart(d)
    BY <1>2, <1>3
  <2>2. Asked(d) /\ d.phase = r.phase
    BY DetermineEncodingAsked
  <2> HIDE DEF d
  <2> QED BY <1>3, <2>1, <2>2, FillFromStartFits
<1>4. CASE r.phase = "encoding" /\ ~(r.eof \/ Len(Rest(r)) >= 3)
  <2>1. c = r
    BY <1>2, <1>4
  <2>2. Len(r.raw) - r.rawPointer <= 3
    BY <1>1, <1>4, GoodRest
  <2> QED BY <1>1, <1>4, <2>1, <2>2 DEF Fits, WaitsRightly, Returns
<1>5. CASE r.phase = "filling" /\ r.pointer = 0
  <2>1. c = Fill(r)
    BY <1>2, <1>5
  <2> QED BY <1>5, <2>1, FillFits
<1> QED BY <1>3, <1>4, <1>5

-----------------------------------------------------------------------------
(***************************************************************************)
(* The inductive invariant.                                                *)
(***************************************************************************)
Inv == Fits(reader) /\ input \in Seq(Octet)

(* The only step that is no part of a call, and takes a character.         *)
Taken == reader'.unread < reader.unread

LEMMA InitInv ==
    ASSUME ReaderInit, input \in Seq(0 .. 255)
    PROVE  Inv
<1>1. reader = Empty
  BY DEF ReaderInit
<1>2. /\ reader \in Reading /\ reader.raw = <<>> /\ reader.buffer = <<>> /\ reader.rawPointer = 0
      /\ reader.pointer = 0 /\ reader.unread = 0 /\ reader.phase = "idle" /\ reader.length = 0
  BY <1>1 DEF Empty, Reading, Encodings, Phases
<1> SUFFICES ASSUME NEW b, b = <<>>, reader.buffer = b, reader.raw = b
             PROVE  Inv
  BY <1>2
<1>3. b \in Seq(Octet) /\ Len(b) = 0 /\ 0 \in 0 .. Len(b)
  OBVIOUS
<1>4. StartsIn(b, 0) = {} /\ Formed(b, 0)
  BY <1>3 DEF StartsIn, Formed
<1>5. Good(reader)
  BY <1>2, <1>3, <1>4, FS_EmptySet DEF Good
<1>6. 0 <= RawSize /\ 0 <= BufferSize /\ 0 <= MaxLength
  BY ReaderAssumption DEF BufferSize
<1>7. WaitsRightly(reader)
  BY <1>2 DEF WaitsRightly
<1> QED BY <1>2, <1>3, <1>5, <1>6, <1>7 DEF Inv, Fits, Octet

LEMMA RequestInv ==
    ASSUME Inv, NEW length \in 1 .. MaxLength, Request(length)
    PROVE  Fits(reader') /\ Returns(reader')
<1> SUFFICES ASSUME NEW c, c = reader' PROVE Fits(c) /\ Returns(c)
  OBVIOUS
<1> DEFINE r == [reader EXCEPT !.length = length]
           q == [reader EXCEPT !.length = length, !.phase = "encoding"]
<1>1. /\ Good(reader) /\ Len(reader.raw) <= RawSize /\ Len(reader.buffer) <= BufferSize
      /\ reader.phase = "idle" /\ reader.unread < length
      /\ length \in Nat /\ length <= MaxLength
  BY ReaderAssumption DEF Inv, Fits, Request
<1>2. [r EXCEPT !.phase = "encoding"] = q
  BY <1>1 DEF Good, Reading
<1>3. c = IF r.encoding = "any" THEN Continue(q) ELSE FillFromStart(r)
  BY <1>2 DEF Request
<1>4. reader \in Reading
  BY <1>1 DEF Good
<1>5. /\ r \in Reading /\ r.buffer = reader.buffer /\ r.pointer = reader.pointer
      /\ r.raw = reader.raw /\ r.rawPointer = reader.rawPointer /\ r.unread = reader.unread
      /\ r.length = length /\ r.phase = "idle"
  BY <1>1, <1>4 DEF Reading
<1>6. /\ q \in Reading /\ q.buffer = reader.buffer /\ q.pointer = reader.pointer
      /\ q.raw = reader.raw /\ q.rawPointer = reader.rawPointer /\ q.unread = reader.unread
      /\ q.length = length /\ q.phase = "encoding"
  BY <1>1, <1>4 DEF Reading, Phases
<1> HIDE DEF r, q
<1>7. Asked(r)
  BY <1>1, <1>5 DEF Asked, Good
<1>8. Asked(q)
  BY <1>1, <1>6 DEF Asked, Good
<1>9. CASE r.encoding = "any"
  <2>1. c = Continue(q)
    BY <1>3, <1>9
  <2> QED BY <1>6, <1>8, <2>1, ContinueFits
<1>10. CASE r.encoding # "any"
  <2>1. c = FillFromStart(r)
    BY <1>3, <1>10
  <2> QED BY <1>5, <1>7, <2>1, FillFromStartFits
<1> QED BY <1>9, <1>10

LEMMA SkipInv ==
    ASSUME Inv, Skip
    PROVE  Fits(reader') /\ Taken
<1> DEFINE b == reader.buffer
           p == reader.pointer
           w == Utf8Width(b[p + 1])
<1>1. /\ Good(reader) /\ Len(reader.raw) <= RawSize /\ Len(reader.buffer) <= BufferSize
      /\ reader.length <= MaxLength
      /\ reader.phase = "idle" /\ reader.unread > 0
      /\ reader' = [reader EXCEPT !.pointer = p + w, !.unread = @ - 1]
  BY DEF Inv, Fits, Skip
<1>2. /\ b \in Seq(Octet) /\ p \in 0 .. Len(b) /\ Formed(b, p) /\ Len(b) \in Nat /\ p \in Nat
      /\ reader \in Reading /\ reader.unread \in Nat
      /\ reader.unread = Cardinality(StartsIn(b, p)) /\ reader.rawPointer \in 0 .. Len(reader.raw)
  BY <1>1, GoodTypes DEF Good
<1> HIDE DEF b, p
<1>3. p < Len(b)
  <2>1. p = Len(b) => Cardinality(StartsIn(b, p)) = 0
    BY <1>2, StartsCounted
  <2> QED BY <1>1, <1>2, <2>1
<1>4. /\ w \in 1 .. 4 /\ p + w \in 0 .. Len(b) /\ Formed(b, p + w)
      /\ Cardinality(StartsIn(b, p + w)) = reader.unread - 1
  BY <1>2, <1>3, SkipFormed
<1> HIDE DEF w
<1>5. /\ reader' \in Reading /\ reader'.pointer = p + w /\ reader'.unread = reader.unread - 1
      /\ reader'.raw = reader.raw /\ reader'.buffer = b /\ reader'.length = reader.length
      /\ reader'.phase = "idle" /\ reader'.rawPointer = reader.rawPointer
  <2>1. p + w \in Nat /\ reader.unread - 1 \in Nat
    BY <1>1, <1>2, <1>4
  <2>2. b = reader.buffer
    BY DEF b
  <2> QED BY <1>1, <1>2, <2>1, <2>2 DEF Reading
<1>6. Good(reader')
  BY <1>2, <1>4, <1>5 DEF Good
<1>7. WaitsRightly(reader')
  BY <1>5 DEF WaitsRightly
<1>8. Fits(reader')
  BY <1>1, <1>5, <1>6, <1>7 DEF Fits, b
<1> QED BY <1>2, <1>5, <1>8 DEF Taken

(* What is left in the raw buffer and what is read fit into it.            *)
LEMMA ReadInv ==
    ASSUME Inv, Read
    PROVE  Fits(reader') /\ Returns(reader') /\ input' \in Seq(Octet)
<1>1. PICK n \in 0 .. RawSize - Len(Rest(reader)) :
          /\ n <= Len(input)
          /\ input' = SubSeq(input, n + 1, Len(input))
          /\ reader' = Continue([reader EXCEPT !.raw = Rest(reader) \o SubSeq(input, 1, n),
                                               !.rawPointer = 0, !.eof = (n = 0)])
  BY DEF Read
<1> DEFINE s == Rest(reader)
           t == SubSeq(input, 1, n)
           raw == s \o t
           q == [reader EXCEPT !.raw = raw, !.rawPointer = 0, !.eof = (n = 0)]
<1>2. /\ Good(reader) /\ Len(reader.raw) <= RawSize /\ Len(reader.buffer) <= BufferSize
      /\ reader.length <= MaxLength /\ WaitsRightly(reader) /\ input \in Seq(Octet)
      /\ reader.phase = "encoding" \/ reader.phase = "filling"
  BY DEF Inv, Fits, Read, Waiting
<1>3. s \in Seq(Octet) /\ Len(s) \in Nat
  BY <1>2, GoodRest
<1>4. n \in Nat /\ Len(input) \in Nat /\ n <= Len(input) /\ Len(s) + n <= RawSize
  BY <1>1, <1>2, <1>3, LenProperties, ReaderAssumption
<1>5. t \in Seq(Octet) /\ Len(t) = n
  <2>1. n \in 0 .. Len(input)
    BY <1>4
  <2> QED BY <1>2, <2>1, PrefixProperties
<1>6. input' \in Seq(Octet)
  BY <1>1, <1>2, <1>4, SubSeqProperties
<1>7. reader' = Continue(q)
  BY <1>1
<1> HIDE DEF s, t
<1>8. raw \in Seq(Octet) /\ Len(raw) = Len(s) + n
  BY <1>3, <1>5, ConcatProperties
<1> HIDE DEF raw
<1>9. /\ q \in Reading /\ q.buffer = reader.buffer /\ q.pointer = reader.pointer
      /\ q.raw = raw /\ q.rawPointer = 0 /\ q.unread = reader.unread
      /\ q.length = reader.length /\ q.phase = reader.phase
  <2>1. reader \in Reading
    BY <1>2 DEF Good
  <2>2. (n = 0) \in BOOLEAN
    OBVIOUS
  <2> QED BY <1>8, <2>1, <2>2 DEF Reading
<1> HIDE DEF q
<1>10. 0 \in 0 .. Len(raw) /\ Len(raw) <= RawSize
  BY <1>3, <1>4, <1>8
<1>11. Asked(q)
  <2>1. reader.unread < reader.length
    BY <1>2 DEF WaitsRightly
  <2> QED BY <1>2, <1>9, <1>10, <2>1 DEF Asked, Good
<1>12. q.phase = "encoding" \/ (q.phase = "filling" /\ q.pointer = 0)
  BY <1>2, <1>9 DEF WaitsRightly
<1>13. Fits(reader') /\ Returns(reader')
  <2> SUFFICES ASSUME NEW c, c = Continue(q) PROVE Fits(c) /\ Returns(c)
    BY <1>7
  <2> QED BY <1>11, <1>12, ContinueFits
<1> QED BY <1>6, <1>13

LEMMA ReadFailsInv ==
    ASSUME Inv, ReadFails
    PROVE  Fits(reader') /\ reader'.phase = "failed"
<1> DEFINE s == Rest(reader)
           q == [reader EXCEPT !.raw = s, !.rawPointer = 0]
<1>1. /\ Good(reader) /\ Len(reader.raw) <= RawSize /\ Len(reader.buffer) <= BufferSize
      /\ reader.length <= MaxLength
      /\ reader' = Fail(q, "InputError", reader.offset)
  BY DEF Inv, Fits, ReadFails
<1>2. s \in Seq(Octet) /\ Len(s) \in Nat /\ Len(s) <= Len(reader.raw) /\ Len(reader.raw) \in Nat
  BY <1>1, GoodRest
<1> HIDE DEF s
<1>3. /\ q \in Reading /\ q.buffer = reader.buffer /\ q.pointer = reader.pointer
      /\ q.raw = s /\ q.rawPointer = 0 /\ q.unread = reader.unread
      /\ q.length = reader.length
  <2>1. reader \in Reading
    BY <1>1 DEF Good
  <2> QED BY <1>2, <2>1 DEF Reading
<1> HIDE DEF q
<1>4. Good(q)
  <2>1. 0 \in 0 .. Len(s)
    BY <1>2
  <2> QED BY <1>1, <1>3, <2>1 DEF Good
<1>5. reader.offset \in Nat
  BY <1>1 DEF Good, Reading
<1> SUFFICES ASSUME NEW c, c = Fail(q, "InputError", reader.offset)
             PROVE  Fits(c) /\ c.phase = "failed"
  BY <1>1
<1>6. Good(c) /\ Decoded(q, c) /\ c.phase = "failed"
  BY <1>4, <1>5, FailGood DEF Problems
<1>7. c.buffer = q.buffer /\ c.raw = q.raw /\ c.length = q.length
  <2>1. q \in Reading
    BY <1>3
  <2> QED BY <2>1 DEF Fail, Reading
<1>8. Len(s) <= RawSize
  BY <1>1, <1>2, ReaderAssumption
<1> QED BY <1>1, <1>3, <1>6, <1>7, <1>8 DEF Fits, WaitsRightly

LEMMA NextInv ==
    ASSUME Inv, ReaderNext
    PROVE  /\ Fits(reader') /\ input' \in Seq(Octet)
           /\ Returns(reader') \/ Taken
<1>1. input \in Seq(Octet)
  BY DEF Inv
<1>2. ASSUME NEW length \in 1 .. MaxLength, Request(length)
      PROVE  Fits(reader') /\ input' \in Seq(Octet) /\ Returns(reader')
  BY <1>1, <1>2, RequestInv DEF Request
<1>3. CASE Skip
  BY <1>1, <1>3, SkipInv DEF Skip
<1>4. CASE Read
  BY <1>4, ReadInv
<1>5. CASE ReadFails
  BY <1>1, <1>5, ReadFailsInv DEF ReadFails, Returns
<1> QED BY <1>2, <1>3, <1>4, <1>5 DEF ReaderNext

LEMMA InvHolds ==
    ReaderSpec => []Inv
<1>1. ReaderInit /\ input \in Seq(0 .. 255) => Inv
  BY InitInv
<1>2. Inv /\ [ReaderNext]_<<reader, input>> => Inv'
  <2> SUFFICES ASSUME Inv, [ReaderNext]_<<reader, input>> PROVE Inv'
    OBVIOUS
  <2>1. CASE ReaderNext
    BY <2>1, NextInv DEF Inv
  <2>2. CASE UNCHANGED <<reader, input>>
    BY <2>2 DEF Inv, Fits, Good, WaitsRightly
  <2> QED BY <2>1, <2>2
<1> QED BY <1>1, <1>2, PTL DEF ReaderSpec

(* For every size of the buffers that leaves room for the longest look     *)
(* ahead, every input and every way to cut it into portions: neither       *)
(* buffer overflows, although reader.c compares no size when it stores an  *)
(* octet, and "unread" is the number of characters behind the pointer.     *)
THEOREM ReaderTyped ==
    ReaderSpec => []TypeOK
<1>1. Inv => TypeOK
  <2> SUFFICES ASSUME Inv PROVE TypeOK
    OBVIOUS
  <2>1. /\ Good(reader) /\ Len(reader.raw) <= RawSize /\ Len(reader.buffer) <= BufferSize
    BY DEF Inv, Fits
  <2>2. /\ reader.phase \in Phases /\ reader.encoding \in Encodings
        /\ reader.raw \in Seq(Octet) /\ reader.buffer \in Seq(Octet)
        /\ reader.rawPointer \in 0 .. Len(reader.raw)
        /\ reader.pointer \in 0 .. Len(reader.buffer)
        /\ reader.unread = Cardinality(StartsIn(reader.buffer, reader.pointer))
    BY <2>1 DEF Good, Reading
  <2> QED BY <2>1, <2>2 DEF TypeOK, Phases, Encodings, Octet, StartsIn
<1> QED BY <1>1, InvHolds, PTL

(* A call never waits for the read handler in vain, which would be an      *)
(* endless loop, and it does not return with too few characters.           *)
THEOREM CallsOfReaderReturn ==
    ReaderSpec => CallsReturn
<1> DEFINE Right == /\ Waiting' => ~reader'.eof /\ ~RawBufferFull(reader')
                    /\ reader'.phase = "idle" /\ reader' # reader /\ reader'.unread >= reader.unread
                          => \/ reader'.unread >= reader'.length
                             \/ reader'.buffer # <<>> /\ Last(reader'.buffer) = 0
<1>1. Inv /\ [ReaderNext]_<<reader, input>> => [Right]_<<reader, input>>
  <2> SUFFICES ASSUME Inv, ReaderNext PROVE Right
    OBVIOUS
  <2>1. Fits(reader') /\ (Returns(reader') \/ Taken)
    BY NextInv
  <2>2. ASSUME reader'.phase \in {"encoding", "filling"}
        PROVE  ~reader'.eof /\ ~RawBufferFull(reader')
    <3>1. ~reader'.eof /\ Len(reader'.raw) - reader'.rawPointer <= 3
      BY <2>1, <2>2 DEF Fits, WaitsRightly
    <3>2. RawSize \in Nat /\ RawSize >= 4
      BY ReaderAssumption
    <3> QED BY <3>1, <3>2 DEF RawBufferFull
  <2>3. ASSUME reader'.phase = "idle", reader'.unread >= reader.unread
        PROVE  Returns(reader')
    <3>1. reader.unread \in Nat /\ reader'.unread \in Nat
      BY <2>1, GoodTypes DEF Inv, Fits
    <3> QED BY <2>1, <2>3, <3>1 DEF Taken
  <2> QED BY <2>2, <2>3 DEF Waiting, Returns
<1> QED BY <1>1, InvHolds, PTL DEF ReaderSpec, CallsReturn

=============================================================================
