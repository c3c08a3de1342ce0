---------------------------- MODULE InteropProofs ----------------------------
(***************************************************************************)
(* Proofs about MCInterop, for any number of threads, addresses and calls: *)
(* calls of Yaml.Parse and Yaml.Dump that interleave, over one heap whose  *)
(* addresses come again, do not take each other's builders and writers.    *)
(***************************************************************************)
EXTENDS MCInterop, SequenceTheorems, TLAPS

-----------------------------------------------------------------------------
(***************************************************************************)
(* The inductive invariant.                                                *)
(***************************************************************************)
Parsing(c) == call[c].pc # "idle"

Writing(c) == dump[c].pc # "idle"

(* The native parsers and emitters of the calls in progress are allocated, *)
(* each for one call only.                                                 *)
Owned ==
    /\ \A c \in Callers : /\ Parsing(c) => call[c].address \in allocated
                          /\ Writing(c) => dump[c].address \in allocated
    /\ \A c, d \in Callers :
          /\ c # d /\ Parsing(c) /\ Parsing(d) => call[c].address # call[d].address
          /\ c # d /\ Writing(c) /\ Writing(d) => dump[c].address # dump[d].address
          /\ Parsing(c) /\ Writing(d) => call[c].address # dump[d].address

(* Calls of Parse in progress are numbered apart from each other and from  *)
(* those that have ended.                                                  *)
ParsesNumbered ==
    /\ \A c \in Callers : Parsing(c) => /\ call[c].number <= calls
                                        /\ call[c].number \notin DOMAIN finished
    /\ \A c, d \in Callers :
          c # d /\ Parsing(c) /\ Parsing(d) => call[c].number # call[d].number
    /\ \A n \in DOMAIN finished : n <= calls

(* Where a call of Parse is says what it has done.                         *)
ParsePlace(c) ==
    /\ call[c].pc = "idle" => call[c].address = Null
    /\ call[c].pc \in {"register", "parse", "collect", "remove"} => call[c].exception = "none"
    /\ call[c].pc \in {"parse", "collect", "remove"} =>
          call[c].address \in DOMAIN parsers /\ parsers[call[c].address] = call[c].number
    /\ call[c].pc = "remove" \/ (call[c].pc = "destroy" /\ call[c].exception = "none") =>
          call[c].documents = call[c].number

(* The entry at p is that of the call of c, which has added it and not     *)
(* removed it.                                                             *)
Registered(c, p) ==
    /\ call[c].number = parsers[p] /\ call[c].address = p
    /\ \/ call[c].pc \in {"parse", "collect", "remove"}
       \/ call[c].pc = "destroy" /\ call[c].exception = "Error parsing YAML"

ParseEntries ==
    \A p \in DOMAIN parsers :
       \/ \E c \in Callers : Registered(c, p)
       \/ /\ parsers[p] \in DOMAIN finished
          /\ finished[parsers[p]].exception = "Error parsing YAML"

ParsesReturnTheirOwn ==
    \A n \in DOMAIN finished : finished[n].exception = "none" => finished[n].documents = n

ParseInv == /\ TypeOK
            /\ ParsesNumbered
            /\ \A c \in Callers : ParsePlace(c)
            /\ ParseEntries
            /\ ParsesReturnTheirOwn

-----------------------------------------------------------------------------
Chunk == Nat \X Nat

DumpException == {"none", "Failed to create a native emitter", "ArgumentException",
                  "Failed to initialize YAML serialization event"}

DumpRecord == [pc : Dumping!DumpPC, number : 0 .. MaxDumps, documents : 0 .. MaxDocuments,
               bad : 0 .. MaxDocuments, address : Addresses \cup {Null},
               next : 1 .. MaxDocuments + 1, started : BOOLEAN, lost : BOOLEAN,
               buffer : Seq(Chunk), exception : DumpException]

DumpOutcome == [address : Addresses \cup {Null}, documents : 0 .. MaxDocuments, lost : BOOLEAN,
                exception : DumpException]

DumpTypeOK == /\ DOMAIN emitters \subseteq Addresses
              /\ \A p \in DOMAIN emitters : emitters[p] \in 1 .. MaxDumps
              /\ dump \in [Callers -> DumpRecord]
              /\ dumps \in 0 .. MaxDumps
              /\ writers \in [1 .. MaxDumps -> Seq(Chunk)]
              /\ DOMAIN dumped \subseteq 1 .. MaxDumps
              /\ \A n \in DOMAIN dumped : dumped[n] \in DumpOutcome
              /\ aborted \in Addresses \cup {Null}

DumpsNumbered ==
    /\ \A c \in Callers : Writing(c) => /\ dump[c].number \in 1 .. dumps
                                        /\ dump[c].number \notin DOMAIN dumped
    /\ \A c, d \in Callers :
          c # d /\ Writing(c) /\ Writing(d) => dump[c].number # dump[d].number
    /\ \A n \in DOMAIN dumped : n <= dumps

(* Every writer holds text of its own call.                                *)
WritersOwn ==
    /\ \A n \in 1 .. MaxDumps : \A i \in 1 .. Len(writers[n]) : writers[n][i][1] = n
    /\ \A n \in 1 .. MaxDumps : n > dumps => writers[n] = <<>>

InOrder(n, w) == \A i \in 1 .. Len(w) : w[i] = <<n, i>>

(* Unless an Emit has failed: the text of document i of the call of c is   *)
(* in the buffer, that of the documents before it with the writer.         *)
Buffers(c, i) == ~dump[c].lost => /\ dump[c].buffer = << <<dump[c].number, i>> >>
                                  /\ Len(writers[dump[c].number]) = i - 1
                                  /\ InOrder(dump[c].number, writers[dump[c].number])

Flushed(c, i) == ~dump[c].lost => /\ dump[c].buffer = <<>>
                                  /\ Len(writers[dump[c].number]) = i
                                  /\ InOrder(dump[c].number, writers[dump[c].number])

OwnBuffer(c) == \A i \in 1 .. Len(dump[c].buffer) : dump[c].buffer[i][1] = dump[c].number

(* Where a call of Dump is says what it has done.                          *)
DumpPlace(c) ==
    /\ dump[c].pc = "idle" => dump[c].address = Null
    /\ dump[c].pc \in {"add", "stream"} => ~dump[c].started /\ dump[c].next = 1 /\ Flushed(c, 0)
    /\ dump[c].pc \in {"document", "flush", "remove"} => dump[c].started
    /\ dump[c].pc \in {"add", "stream", "document", "flush", "remove"} => dump[c].exception = "none"
    /\ dump[c].pc \in {"stream", "document", "flush", "remove"}
          \/ (dump[c].pc = "destroy" /\ dump[c].started /\ dump[c].exception # "none") =>
             dump[c].address \in DOMAIN emitters /\ emitters[dump[c].address] = dump[c].number
    /\ dump[c].pc = "destroy" /\ dump[c].started /\ dump[c].exception = "none" =>
          dump[c].address \notin DOMAIN emitters
    /\ Writing(c) => dump[c].next <= dump[c].documents + 1 /\ OwnBuffer(c)
    /\ dump[c].pc = "document" => Flushed(c, dump[c].next - 1)
    /\ dump[c].pc = "flush" => dump[c].next >= 2 /\ Buffers(c, dump[c].next - 1)
    /\ dump[c].pc = "remove" => Flushed(c, dump[c].documents)
    /\ dump[c].pc = "destroy" =>
          IF dump[c].started
          THEN IF dump[c].exception = "none" THEN Flushed(c, dump[c].documents)
                                             ELSE Buffers(c, dump[c].next)
          ELSE /\ \E n \in DOMAIN dumped : /\ dumped[n].address = dump[c].address
                                           /\ dumped[n].exception # "none"

Added(c, p) ==
    /\ dump[c].number = emitters[p] /\ dump[c].address = p
    /\ \/ dump[c].pc \in {"stream", "document", "flush", "remove"}
       \/ dump[c].pc = "destroy" /\ dump[c].started /\ dump[c].exception # "none"

DumpEntries ==
    \A p \in DOMAIN emitters :
       \/ \E c \in Callers : Added(c, p)
       \/ \E n \in DOMAIN dumped : dumped[n].address = p /\ dumped[n].exception # "none"

DumpsReturnAll ==
    \A n \in DOMAIN dumped :
       ~dumped[n].lost => /\ InOrder(n, writers[n])
                          /\ dumped[n].exception = "none" => Len(writers[n]) = dumped[n].documents

DumpInv == /\ DumpTypeOK
           /\ DumpsNumbered
           /\ WritersOwn
           /\ \A c \in Callers : DumpPlace(c)
           /\ DumpEntries
           /\ DumpsReturnAll
           /\ AbortsFollowFailures

Inv == Owned /\ ParseInv /\ DumpInv

-----------------------------------------------------------------------------
(***************************************************************************)
(* Calls of Parse.                                                         *)
(***************************************************************************)

(* A call goes on: its place changes and nothing else.                     *)
LEMMA GoToFields ==
    ASSUME call \in [Callers -> Call], NEW c \in Callers, NEW q \in PC, GoTo(c, q)
    PROVE  /\ call' \in [Callers -> Call]
           /\ \A d \in Callers : d # c => call'[d] = call[d]
           /\ call'[c].pc = q
           /\ call'[c].number = call[c].number
           /\ call'[c].address = call[c].address
           /\ call'[c].documents = call[c].documents
           /\ call'[c].exception = call[c].exception
<1>1. call'[c] = [call[c] EXCEPT !.pc = q]
  BY DEF GoTo
<1>2. call[c] \in Call
  OBVIOUS
<1>3. [call[c] EXCEPT !.pc = q] \in Call
  BY <1>2 DEF Call
<1> QED BY <1>1, <1>2, <1>3 DEF GoTo, Call

(* An exception: the call is at its finally block.                         *)
LEMMA ThrowFields ==
    ASSUME call \in [Callers -> Call], NEW c \in Callers, NEW e \in Exception, Throw(c, e)
    PROVE  /\ call' \in [Callers -> Call]
           /\ \A d \in Callers : d # c => call'[d] = call[d]
           /\ call'[c].pc = "destroy"
           /\ call'[c].number = call[c].number
           /\ call'[c].address = call[c].address
           /\ call'[c].documents = call[c].documents
           /\ call'[c].exception = e
<1>1. call'[c] = [call[c] EXCEPT !.pc = "destroy", !.exception = e]
  BY DEF Throw
<1>2. call[c] \in Call
  OBVIOUS
<1>3. [call[c] EXCEPT !.pc = "destroy", !.exception = e] \in Call
  BY <1>2 DEF Call, PC
<1> QED BY <1>1, <1>2, <1>3 DEF Throw, Call

LEMMA IdleCall == /\ Idle \in Call /\ Idle.pc = "idle" /\ Idle.address = Null
                  /\ Idle.exception = "none"
BY BoundsAssumption DEF Idle, Call, PC, Text, Exception

(* A call that begins.                                                     *)
LEMMA NewCallFields ==
    ASSUME NEW text \in Text, NEW events \in 0..MaxEvents, NEW p \in Addresses \cup {Null},
           calls \in 0..MaxCalls, calls < MaxCalls
    PROVE  LET k == NewCall(text, events, p)
           IN  /\ k \in Call /\ k.pc = "register" /\ k.number = calls + 1 /\ k.address = p
               /\ k.exception = "none"
<1>1. calls + 1 \in 1..MaxCalls /\ "register" \in PC
  BY BoundsAssumption DEF PC
<1> QED BY <1>1, IdleCall DEF NewCall, Call

(* Create: the new call's number and address are its own.                  *)
LEMMA CreateParse ==
    ASSUME ParseInv, Owned, NEW c \in Callers, Create(c)
    PROVE  ParseInv'
<1> USE BoundsAssumption, NullAssumption
<1>1. PICK text \in Text, events \in 1..MaxEvents, p \in Addresses \ allocated :
          /\ allocated' = allocated \cup {p}
          /\ call' = [call EXCEPT ![c] = NewCall(text, events, p)]
  BY DEF Create
<1>2. call[c].pc = "idle" /\ calls < MaxCalls /\ calls' = calls + 1
      /\ parsers' = parsers /\ finished' = finished
  BY DEF Create
<1> DEFINE k == NewCall(text, events, p)
<1>3. /\ k \in Call /\ k.pc = "register" /\ k.number = calls + 1 /\ k.address = p
      /\ k.exception = "none"
  BY <1>2, NewCallFields DEF ParseInv, TypeOK
<1>4. call'[c] = k /\ \A d \in Callers : d # c => call'[d] = call[d]
  BY <1>1 DEF ParseInv, TypeOK
<1> HIDE DEF k
<1>5. TypeOK'
  BY <1>1, <1>2, <1>3 DEF ParseInv, TypeOK, k
<1>6. ParsesNumbered'
  <2>1. calls \in Nat /\ calls' = calls + 1
    BY <1>2 DEF ParseInv, TypeOK
  <2>2. \A n \in DOMAIN finished : n \in Nat /\ n <= calls
    BY DEF ParseInv, ParsesNumbered, TypeOK
  <2>3. \A d \in Callers : /\ call[d].number \in Nat
                           /\ Parsing(d) => /\ call[d].number <= calls
                                            /\ call[d].number \notin DOMAIN finished
    BY DEF ParseInv, ParsesNumbered, TypeOK, Call
  <2>4. \A d, e \in Callers : d # e /\ Parsing(d) /\ Parsing(e) => call[d].number # call[e].number
    BY DEF ParseInv, ParsesNumbered
  <2>5. k.number > calls /\ k.number <= calls' /\ k.number \notin DOMAIN finished
    BY <1>3, <2>1, <2>2
  <2>6. \A d \in Callers : Parsing(d)' => /\ call'[d].number <= calls'
                                          /\ call'[d].number \notin DOMAIN finished'
    BY <1>2, <1>4, <2>1, <2>3, <2>5 DEF Parsing
  <2>7. \A d, e \in Callers :
           d # e /\ Parsing(d)' /\ Parsing(e)' => call'[d].number # call'[e].number
    BY <1>4, <2>1, <2>3, <2>4, <2>5 DEF Parsing
  <2>8. \A n \in DOMAIN finished : n <= calls'
    BY <2>1, <2>2
  <2> QED BY <1>2, <2>6, <2>7, <2>8 DEF ParsesNumbered
<1>7. ASSUME NEW d \in Callers PROVE ParsePlace(d)'
  BY <1>2, <1>3, <1>4 DEF ParseInv, ParsePlace
<1>8. ParseEntries'
  <2> SUFFICES ASSUME NEW q \in DOMAIN parsers,
                      ~(/\ parsers[q] \in DOMAIN finished
                        /\ finished[parsers[q]].exception = "Error parsing YAML")
               PROVE  \E d \in Callers : Registered(d, q)'
    BY <1>2 DEF ParseEntries
  <2>1. PICK d \in Callers : Registered(d, q)
    BY DEF ParseInv, ParseEntries
  <2>2. d # c
    BY <2>1, <1>2 DEF Registered
  <2> QED BY <2>1, <2>2, <1>2, <1>4 DEF Registered
<1>9. ParsesReturnTheirOwn'
  BY <1>2 DEF ParseInv, ParsesReturnTheirOwn
<1> QED BY <1>5, <1>6, <1>7, <1>8, <1>9 DEF ParseInv

(* CreateFails: the call ends at once, with the exception.                 *)
LEMMA CreateFailsParse ==
    ASSUME ParseInv, NEW c \in Callers, CreateFails(c), allocated' \subseteq Addresses
    PROVE  ParseInv'
<1>1. PICK text \in Text : Finish(c, [NewCall(text, 0, Null) EXCEPT
                                         !.exception = "Failed to create a native parser"])
  BY DEF CreateFails
<1> DEFINE r == [NewCall(text, 0, Null) EXCEPT !.exception = "Failed to create a native parser"]
<1>2. /\ call[c].pc = "idle" /\ calls < MaxCalls /\ calls' = calls + 1 /\ parsers' = parsers
      /\ calls \in Nat /\ calls + 1 \in 0..MaxCalls /\ calls + 1 \in 1..MaxCalls
  <2>1. call[c].pc = "idle" /\ calls < MaxCalls /\ calls' = calls + 1 /\ parsers' = parsers
    BY DEF CreateFails
  <2> QED BY <2>1, BoundsAssumption DEF ParseInv, TypeOK
<1>3. r \in Call /\ r.number = calls + 1 /\ r.exception = "Failed to create a native parser"
  <2>1. NewCall(text, 0, Null) \in Call /\ NewCall(text, 0, Null).number = calls + 1
    BY <1>2, NewCallFields, BoundsAssumption DEF ParseInv, TypeOK
  <2>2. "Failed to create a native parser" \in Exception
    BY DEF Exception
  <2> HIDE DEF NewCall
  <2> QED BY <2>1, <2>2 DEF Call
<1> HIDE DEF r
<1>4. /\ call' = [call EXCEPT ![c] = Idle]
      /\ finished' = [n \in DOMAIN finished \cup {calls + 1} |->
                         IF n = calls + 1 THEN r ELSE finished[n]]
  BY <1>1, <1>3 DEF Finish, r
<1>5. /\ call' \in [Callers -> Call] /\ call'[c].pc = "idle" /\ call'[c].address = Null
      /\ \A d \in Callers : d # c => call'[d] = call[d]
  BY <1>4, IdleCall DEF ParseInv, TypeOK
<1>6. \A n \in DOMAIN finished : n \in Nat /\ n <= calls
  BY DEF ParseInv, ParsesNumbered, TypeOK
<1>7. /\ DOMAIN finished' = DOMAIN finished \cup {calls + 1}
      /\ \A n \in DOMAIN finished : finished'[n] = finished[n]
      /\ finished'[calls + 1] = r
  BY <1>2, <1>4, <1>6
<1>8. TypeOK'
  <2>1. DOMAIN finished' \subseteq 1..MaxCalls /\ \A n \in DOMAIN finished' : finished'[n] \in Call
    BY <1>2, <1>3, <1>7 DEF ParseInv, TypeOK
  <2> QED BY <1>2, <1>5, <2>1 DEF ParseInv, TypeOK
<1>9. ParsesNumbered'
  <2>1. \A d \in Callers : /\ call[d].number \in Nat
                           /\ Parsing(d) => /\ call[d].number <= calls
                                            /\ call[d].number \notin DOMAIN finished
    BY DEF ParseInv, ParsesNumbered, TypeOK, Call
  <2>2. \A d \in Callers : Parsing(d)' => /\ call'[d].number <= calls'
                                          /\ call'[d].number \notin DOMAIN finished'
    BY <1>2, <1>5, <1>7, <2>1 DEF Parsing
  <2>3. \A d, e \in Callers :
           d # e /\ Parsing(d)' /\ Parsing(e)' => call'[d].number # call'[e].number
    BY <1>5 DEF Parsing, ParseInv, ParsesNumbered
  <2>4. \A n \in DOMAIN finished' : n <= calls'
    BY <1>2, <1>6, <1>7
  <2> QED BY <2>2, <2>3, <2>4 DEF ParsesNumbered
<1>10. ASSUME NEW d \in Callers PROVE ParsePlace(d)'
  BY <1>2, <1>5 DEF ParseInv, ParsePlace
<1>11. ParseEntries'
  <2> SUFFICES ASSUME NEW q \in DOMAIN parsers
               PROVE  \/ \E d \in Callers : Registered(d, q)'
                      \/ /\ parsers[q] \in DOMAIN finished'
                         /\ finished'[parsers[q]].exception = "Error parsing YAML"
    BY <1>2 DEF ParseEntries
  <2>1. \A d \in Callers : Registered(d, q) => Registered(d, q)'
    BY <1>2, <1>5 DEF Registered
  <2> QED BY <2>1, <1>7 DEF ParseInv, ParseEntries
<1>12. ParsesReturnTheirOwn'
  BY <1>3, <1>7 DEF ParseInv, ParsesReturnTheirOwn
<1> QED BY <1>8, <1>9, <1>10, <1>11, <1>12 DEF ParseInv

(* A step inside a call keeps its number.                                  *)
LEMMA NumbersStay ==
    ASSUME ParsesNumbered, NEW c \in Callers, Parsing(c),
           \A d \in Callers : d # c => call'[d] = call[d],
           call'[c].number = call[c].number,
           UNCHANGED <<calls, finished>>
    PROVE  ParsesNumbered'
BY DEF ParsesNumbered, Parsing

(* A step inside a call leaves the entries of other calls and of calls     *)
(* that have ended to them.                                                *)
LEMMA OthersEntriesStay ==
    ASSUME ParseEntries, NEW c \in Callers,
           \A d \in Callers : d # c => call'[d] = call[d],
           NEW p \in DOMAIN parsers, parsers'[p] = parsers[p],
           Registered(c, p) => Registered(c, p)',
           UNCHANGED finished
    PROVE  \/ \E d \in Callers : Registered(d, p)'
           \/ /\ parsers'[p] \in DOMAIN finished'
              /\ finished'[parsers'[p]].exception = "Error parsing YAML"
<1>1. ASSUME NEW d \in Callers, Registered(d, p) PROVE Registered(d, p)'
  BY <1>1 DEF Registered
<1> QED BY <1>1 DEF ParseEntries

(* Register: the entry of a new key, or ArgumentException.                 *)
LEMMA RegisterParse ==
    ASSUME ParseInv, Owned, NEW c \in Callers, Register(c)
    PROVE  ParseInv'
<1> DEFINE a == call[c].address
<1>1. /\ call[c].pc = "register" /\ UNCHANGED <<allocated, calls, finished>>
      /\ call \in [Callers -> Call] /\ call[c].exception = "none"
      /\ a \in Addresses /\ call[c].number \in 1..MaxCalls
  BY DEF Register, ParseInv, TypeOK, ParsePlace, Owned, Parsing, Call
<1>2. CASE a \in DOMAIN parsers
  <2>1. Throw(c, "ArgumentException") /\ UNCHANGED parsers
    BY <1>2 DEF Register
  <2>2. /\ call' \in [Callers -> Call]
        /\ \A d \in Callers : d # c => call'[d] = call[d]
        /\ call'[c].pc = "destroy" /\ call'[c].exception = "ArgumentException"
        /\ call'[c].number = call[c].number
    BY <1>1, <2>1, ThrowFields DEF Exception
  <2>3. TypeOK'
    BY <1>1, <2>1, <2>2 DEF ParseInv, TypeOK
  <2>4. ParsesNumbered'
    BY <1>1, <2>2, NumbersStay DEF ParseInv, Parsing
  <2>5. ASSUME NEW d \in Callers PROVE ParsePlace(d)'
    BY <2>1, <2>2 DEF ParseInv, ParsePlace
  <2>6. ParseEntries'
    <3>1. \A p : ~Registered(c, p)
      BY <1>1 DEF Registered
    <3> QED BY <1>1, <2>1, <2>2, <3>1, OthersEntriesStay DEF ParseInv, ParseEntries
  <2> QED BY <1>1, <2>3, <2>4, <2>5, <2>6 DEF ParseInv, ParsesReturnTheirOwn
<1>3. CASE a \notin DOMAIN parsers
  <2>1. /\ GoTo(c, "parse")
        /\ parsers' = [p \in DOMAIN parsers \cup {a} |->
                          IF p = a THEN call[c].number ELSE parsers[p]]
    BY <1>3 DEF Register
  <2>2. /\ call' \in [Callers -> Call]
        /\ \A d \in Callers : d # c => call'[d] = call[d]
        /\ call'[c].pc = "parse" /\ call'[c].exception = "none"
        /\ call'[c].number = call[c].number /\ call'[c].address = a
    BY <1>1, <2>1, GoToFields DEF PC
  <2>3. /\ DOMAIN parsers' = DOMAIN parsers \cup {a}
        /\ parsers'[a] = call[c].number
        /\ \A p \in DOMAIN parsers : parsers'[p] = parsers[p]
    BY <1>3, <2>1
  <2>4. TypeOK'
    BY <1>1, <2>2, <2>3 DEF ParseInv, TypeOK
  <2>5. ParsesNumbered'
    BY <1>1, <2>2, NumbersStay DEF ParseInv, Parsing
  <2>6. ASSUME NEW d \in Callers PROVE ParsePlace(d)'
    BY <2>2, <2>3 DEF ParseInv, ParsePlace
  <2>7. ParseEntries'
    <3>1. \A p : ~Registered(c, p)
      BY <1>1 DEF Registered
    <3>2. ASSUME NEW p, p = a PROVE Registered(c, p)'
      BY <2>2, <2>3, <3>2 DEF Registered
    <3>3. ASSUME NEW p \in DOMAIN parsers
          PROVE  \/ \E d \in Callers : Registered(d, p)'
                 \/ /\ parsers'[p] \in DOMAIN finished'
                    /\ finished'[parsers'[p]].exception = "Error parsing YAML"
      BY <1>1, <2>2, <2>3, <3>1, OthersEntriesStay DEF ParseInv
    <3>4. ASSUME NEW p \in DOMAIN parsers'
          PROVE  \/ \E d \in Callers : Registered(d, p)'
                 \/ /\ parsers'[p] \in DOMAIN finished'
                    /\ finished'[parsers'[p]].exception = "Error parsing YAML"
      BY <2>3, <3>2, <3>3
    <3> QED BY <3>4 DEF ParseEntries
  <2> QED BY <1>1, <2>4, <2>5, <2>6, <2>7 DEF ParseInv, ParsesReturnTheirOwn
<1> QED BY <1>2, <1>3

(* A step between Add and Remove that goes on, or throws.                  *)
LEMMA InsideParse ==
    ASSUME ParseInv, NEW c \in Callers, Parsing(c),
           UNCHANGED <<parsers, calls, finished>>, allocated' \subseteq Addresses,
           call' \in [Callers -> Call],
           \A d \in Callers : d # c => call'[d] = call[d],
           call'[c].number = call[c].number,
           ParsePlace(c)',
           \A p \in DOMAIN parsers : Registered(c, p) => Registered(c, p)'
    PROVE  ParseInv'
<1>1. TypeOK'
  BY DEF ParseInv, TypeOK
<1>2. ParsesNumbered'
  BY NumbersStay DEF ParseInv
<1>3. ASSUME NEW d \in Callers PROVE ParsePlace(d)'
  BY DEF ParseInv, ParsePlace
<1>4. ParseEntries'
  BY OthersEntriesStay DEF ParseInv, ParseEntries
<1> QED BY <1>1, <1>2, <1>3, <1>4 DEF ParseInv, ParsesReturnTheirOwn

(* ParseYamlEvent: the callback finds the builder of its own call.         *)
LEMMA EventParse ==
    ASSUME ParseInv, NEW c \in Callers, ParseYamlEvent(c)
    PROVE  ParseInv'
<1>1. /\ call[c].pc = "parse" /\ UNCHANGED <<allocated, parsers, calls, finished>>
      /\ call \in [Callers -> Call] /\ allocated \subseteq Addresses
      /\ ParsePlace(c)
  BY DEF ParseYamlEvent, ParseInv, TypeOK
<1>2. CASE Throw(c, "Error parsing YAML")
  <2>1. /\ call' \in [Callers -> Call]
        /\ \A d \in Callers : d # c => call'[d] = call[d]
        /\ call'[c].pc = "destroy" /\ call'[c].exception = "Error parsing YAML"
        /\ call'[c].number = call[c].number /\ call'[c].address = call[c].address
    BY <1>1, <1>2, ThrowFields DEF Exception
  <2> QED BY <1>1, <2>1, InsideParse DEF ParsePlace, Registered, Parsing
<1>3. CASE call[c].events > 0 /\ call' = [call EXCEPT ![c].events = @ - 1]
  <2>1. /\ call'[c] = [call[c] EXCEPT !.events = @ - 1]
        /\ \A d \in Callers : d # c => call'[d] = call[d]
    BY <1>1, <1>3
  <2>2. call[c].events - 1 \in 0..MaxEvents /\ call[c] \in Call
    BY <1>1, <1>3, BoundsAssumption DEF Call
  <2>3. /\ call' \in [Callers -> Call]
        /\ call'[c].pc = "parse" /\ call'[c].exception = call[c].exception
        /\ call'[c].number = call[c].number /\ call'[c].address = call[c].address
    <3>1. [call[c] EXCEPT !.events = @ - 1] \in Call
      BY <2>2 DEF Call
    <3>2. call' \in [Callers -> Call]
      BY <1>1, <1>3, <3>1
    <3> QED BY <1>1, <2>1, <2>2, <3>2 DEF Call
  <2>4. ParsePlace(c)' /\ \A p \in DOMAIN parsers : Registered(c, p) => Registered(c, p)'
    BY <1>1, <2>3 DEF ParsePlace, Registered
  <2> QED BY <1>1, <2>1, <2>3, <2>4, InsideParse DEF Parsing
<1> QED BY <1>2, <1>3 DEF ParseYamlEvent

(* ParseEnds: on to the documents, or the exception.                       *)
LEMMA EndsParse ==
    ASSUME ParseInv, NEW c \in Callers, ParseEnds(c)
    PROVE  ParseInv'
<1>1. /\ call[c].pc = "parse" /\ UNCHANGED <<allocated, parsers, calls, finished>>
      /\ call \in [Callers -> Call] /\ allocated \subseteq Addresses
      /\ ParsePlace(c)
      /\ GoTo(c, "collect") \/ Throw(c, "Error parsing YAML")
  BY DEF ParseEnds, ParseInv, TypeOK
<1>2. /\ call' \in [Callers -> Call]
      /\ \A d \in Callers : d # c => call'[d] = call[d]
      /\ \/ call'[c].pc = "collect" /\ call'[c].exception = call[c].exception
         \/ call'[c].pc = "destroy" /\ call'[c].exception = "Error parsing YAML"
      /\ call'[c].number = call[c].number /\ call'[c].address = call[c].address
  BY <1>1, GoToFields, ThrowFields DEF PC, Exception
<1>3. ParsePlace(c)' /\ \A p \in DOMAIN parsers : Registered(c, p) => Registered(c, p)'
  BY <1>1, <1>2 DEF ParsePlace, Registered
<1> QED BY <1>1, <1>2, <1>3, InsideParse DEF Parsing

(* Collect: the key is there, and the builder is that of the call.         *)
LEMMA CollectParse ==
    ASSUME ParseInv, NEW c \in Callers, Collect(c)
    PROVE  ParseInv'
<1>1. /\ call[c].pc = "collect" /\ UNCHANGED <<allocated, parsers, calls, finished>>
      /\ call \in [Callers -> Call] /\ allocated \subseteq Addresses
      /\ ParsePlace(c)
  BY DEF Collect, ParseInv, TypeOK
<1>2. call[c].address \in DOMAIN parsers /\ parsers[call[c].address] = call[c].number
  BY <1>1 DEF ParsePlace
<1>3. call' = [call EXCEPT ![c].pc = "remove", ![c].documents = parsers[call[c].address]]
  BY <1>2 DEF Collect
<1>4. /\ call'[c] = [call[c] EXCEPT !.pc = "remove", !.documents = call[c].number]
      /\ \A d \in Callers : d # c => call'[d] = call[d]
  BY <1>1, <1>2, <1>3
<1>5. call[c] \in Call /\ call[c].number \in 0..MaxCalls
  BY <1>1, BoundsAssumption DEF Call
<1>6. [call[c] EXCEPT !.pc = "remove", !.documents = call[c].number] \in Call
  BY <1>5 DEF Call, PC
<1>7. /\ call' \in [Callers -> Call]
      /\ call'[c].pc = "remove" /\ call'[c].exception = call[c].exception
      /\ call'[c].number = call[c].number /\ call'[c].address = call[c].address
      /\ call'[c].documents = call[c].number
  <2>1. call' \in [Callers -> Call]
    BY <1>1, <1>2, <1>3, <1>6
  <2> QED BY <1>4, <1>5, <2>1 DEF Call
<1>8. ParsePlace(c)' /\ \A p \in DOMAIN parsers : Registered(c, p) => Registered(c, p)'
  BY <1>1, <1>7 DEF ParsePlace, Registered
<1> QED BY <1>1, <1>4, <1>7, <1>8, InsideParse DEF Parsing

(* Remove: the entry that goes is the call's own.                          *)
LEMMA RemoveParse ==
    ASSUME ParseInv, Owned, NEW c \in Callers, Remove(c)
    PROVE  ParseInv'
<1> DEFINE a == call[c].address
<1>1. /\ call[c].pc = "remove" /\ UNCHANGED <<allocated, calls, finished>>
      /\ call \in [Callers -> Call] /\ GoTo(c, "destroy")
      /\ parsers' = [q \in DOMAIN parsers \ {a} |-> parsers[q]]
      /\ call[c].exception = "none" /\ call[c].documents = call[c].number
  BY DEF Remove, ParseInv, TypeOK, ParsePlace, Without
<1>2. /\ call' \in [Callers -> Call]
      /\ \A d \in Callers : d # c => call'[d] = call[d]
      /\ call'[c].pc = "destroy" /\ call'[c].exception = "none"
      /\ call'[c].number = call[c].number /\ call'[c].documents = call[c].number
  BY <1>1, GoToFields DEF PC
<1>3. DOMAIN parsers' = DOMAIN parsers \ {a} /\ \A p \in DOMAIN parsers' : parsers'[p] = parsers[p]
  BY <1>1
<1>4. \A d \in Callers : d # c /\ Parsing(d) => call[d].address # a
  BY <1>1 DEF Owned, Parsing
<1>5. TypeOK'
  BY <1>1, <1>2, <1>3 DEF ParseInv, TypeOK
<1>6. ParsesNumbered'
  BY <1>1, <1>2, NumbersStay DEF ParseInv, Parsing
<1>7. ASSUME NEW d \in Callers PROVE ParsePlace(d)'
  BY <1>2, <1>3, <1>4 DEF ParseInv, ParsePlace, Parsing
<1>8. ParseEntries'
  <2>1. ASSUME NEW p \in DOMAIN parsers'
        PROVE  \/ \E d \in Callers : Registered(d, p)'
               \/ /\ parsers'[p] \in DOMAIN finished'
                  /\ finished'[parsers'[p]].exception = "Error parsing YAML"
    <3>1. p \in DOMAIN parsers /\ parsers'[p] = parsers[p] /\ ~Registered(c, p)
      BY <1>3 DEF Registered
    <3> QED BY <1>1, <1>2, <3>1, OthersEntriesStay DEF ParseInv
  <2> QED BY <2>1 DEF ParseEntries
<1> QED BY <1>1, <1>5, <1>6, <1>7, <1>8 DEF ParseInv, ParsesReturnTheirOwn

(* Destroy: the record of the call takes the place of the call.            *)
LEMMA DestroyParse ==
    ASSUME ParseInv, NEW c \in Callers, Destroy(c)
    PROVE  ParseInv'
<1> DEFINE m == call[c].number
<1>1. /\ call[c].pc = "destroy" /\ UNCHANGED <<parsers, calls>>
      /\ allocated' \subseteq Addresses
      /\ call \in [Callers -> Call] /\ call[c] \in Call
      /\ call' = [call EXCEPT ![c] = Idle]
      /\ finished' = [n \in DOMAIN finished \cup {m} |-> IF n = m THEN call[c] ELSE finished[n]]
  BY DEF Destroy, Finish, ParseInv, TypeOK
<1>2. /\ call' \in [Callers -> Call] /\ call'[c].pc = "idle" /\ call'[c].address = Null
      /\ \A d \in Callers : d # c => call'[d] = call[d]
  BY <1>1, IdleCall
<1>3. m \in 1..MaxCalls /\ m <= calls /\ m \notin DOMAIN finished
  BY <1>1 DEF ParseInv, ParsesNumbered, Parsing, Call
<1>4. /\ DOMAIN finished' = DOMAIN finished \cup {m}
      /\ \A n \in DOMAIN finished : finished'[n] = finished[n]
      /\ finished'[m] = call[c]
  BY <1>1, <1>3
<1>5. TypeOK'
  BY <1>1, <1>2, <1>3, <1>4 DEF ParseInv, TypeOK
<1>6. ParsesNumbered'
  BY <1>1, <1>2, <1>3, <1>4 DEF ParseInv, ParsesNumbered, Parsing
<1>7. ASSUME NEW d \in Callers PROVE ParsePlace(d)'
  BY <1>1, <1>2 DEF ParseInv, ParsePlace
<1>8. ParseEntries'
  <2>1. ASSUME NEW p \in DOMAIN parsers
        PROVE  \/ \E d \in Callers : Registered(d, p)'
               \/ /\ parsers[p] \in DOMAIN finished'
                  /\ finished'[parsers[p]].exception = "Error parsing YAML"
    <3>1. \A d \in Callers : d # c /\ Registered(d, p) => Registered(d, p)'
      BY <1>1, <1>2 DEF Registered
    <3>2. Registered(c, p) => parsers[p] = m /\ call[c].exception = "Error parsing YAML"
      BY <1>1 DEF Registered
    <3> QED BY <1>4, <3>1, <3>2 DEF ParseInv, ParseEntries
  <2> QED BY <1>1, <2>1 DEF ParseEntries
<1>9. ParsesReturnTheirOwn'
  <2>1. call[c].exception = "none" => call[c].documents = m
    BY <1>1 DEF ParseInv, ParsePlace
  <2> QED BY <1>4, <2>1 DEF ParseInv, ParsesReturnTheirOwn
<1> QED BY <1>5, <1>6, <1>7, <1>8, <1>9 DEF ParseInv

-----------------------------------------------------------------------------
(***************************************************************************)
(* Calls of Dump.                                                          *)
(***************************************************************************)

(* A call that begins.                                                     *)
LEMMA DumpCallFields ==
    ASSUME NEW number \in 0 .. MaxDumps, NEW documents \in 0 .. MaxDocuments,
           NEW bad \in 0 .. documents, NEW p \in Addresses \cup {Null}
    PROVE  LET d == Dumping!DumpCall(number, documents, bad, p)
           IN  /\ d \in DumpRecord /\ d.pc = "add" /\ d.number = number /\ d.address = p
               /\ d.next = 1 /\ ~d.started /\ d.buffer = <<>> /\ d.exception = "none"
               /\ d.documents = documents
<1>1. bad \in 0 .. MaxDocuments /\ 1 \in 1 .. MaxDocuments + 1
  BY DumpBoundsAssumption
<1>2. <<>> \in Seq(Chunk)
  BY EmptySeq
<1> QED BY <1>1, <1>2 DEF Dumping!DumpCall, DumpRecord, Dumping!DumpPC, DumpException

LEMMA NoDumpFields == /\ Dumping!NoDump \in DumpRecord
                      /\ Dumping!NoDump.pc = "idle" /\ Dumping!NoDump.address = Null
<1> DEFINE d == Dumping!DumpCall(0, 0, 0, Null)
<1>1. d \in DumpRecord /\ d.address = Null
  <2>1. 0 \in 0 .. MaxDumps /\ 0 \in 0 .. MaxDocuments /\ 0 \in 0 .. 0
    BY DumpBoundsAssumption
  <2> QED BY <2>1, DumpCallFields
<1>2. Dumping!NoDump = [d EXCEPT !.pc = "idle"]
  BY DEF Dumping!NoDump
<1> HIDE DEF d
<1> QED BY <1>1, <1>2 DEF DumpRecord, Dumping!DumpPC

(* A call goes on, or throws: its place changes and little else.           *)
LEMMA DumpGoesFields ==
    ASSUME dump \in [Callers -> DumpRecord], NEW c \in Callers, NEW q \in Dumping!DumpPC,
           NEW e \in DumpException,
           dump' = [dump EXCEPT ![c].pc = q, ![c].exception = e]
    PROVE  /\ dump' \in [Callers -> DumpRecord]
           /\ \A d \in Callers : d # c => dump'[d] = dump[d]
           /\ dump'[c] = [dump[c] EXCEPT !.pc = q, !.exception = e]
           /\ dump'[c].pc = q /\ dump'[c].exception = e
           /\ dump'[c].number = dump[c].number /\ dump'[c].address = dump[c].address
           /\ dump'[c].documents = dump[c].documents /\ dump'[c].next = dump[c].next
           /\ dump'[c].started = dump[c].started /\ dump'[c].buffer = dump[c].buffer
           /\ dump'[c].lost = dump[c].lost
<1>1. dump'[c] = [dump[c] EXCEPT !.pc = q, !.exception = e]
  OBVIOUS
<1>2. dump[c] \in DumpRecord
  OBVIOUS
<1>3. [dump[c] EXCEPT !.pc = q, !.exception = e] \in DumpRecord
  BY <1>2 DEF DumpRecord
<1> QED BY <1>1, <1>2, <1>3 DEF DumpRecord

LEMMA DumpGoesToFields ==
    ASSUME dump \in [Callers -> DumpRecord], NEW c \in Callers, NEW q \in Dumping!DumpPC,
           Dumping!DumpGoesTo(c, q)
    PROVE  /\ dump' \in [Callers -> DumpRecord]
           /\ \A d \in Callers : d # c => dump'[d] = dump[d]
           /\ dump'[c].pc = q /\ dump'[c].exception = dump[c].exception
           /\ dump'[c].number = dump[c].number /\ dump'[c].address = dump[c].address
           /\ dump'[c].documents = dump[c].documents /\ dump'[c].next = dump[c].next
           /\ dump'[c].started = dump[c].started /\ dump'[c].buffer = dump[c].buffer
           /\ dump'[c].lost = dump[c].lost
<1>1. dump'[c] = [dump[c] EXCEPT !.pc = q] /\ \A d \in Callers : d # c => dump'[d] = dump[d]
  BY DEF Dumping!DumpGoesTo
<1>2. dump[c] \in DumpRecord
  OBVIOUS
<1>3. [dump[c] EXCEPT !.pc = q] \in DumpRecord
  BY <1>2 DEF DumpRecord
<1>4. dump' \in [Callers -> DumpRecord]
  BY <1>3 DEF Dumping!DumpGoesTo
<1> QED BY <1>1, <1>2, <1>4 DEF DumpRecord

(* What another thread does leaves a call in its place: the call's writer  *)
(* and entry are its own, and ended calls stay ended.                      *)
LEMMA OtherPlaceStays ==
    ASSUME NEW d \in Callers, DumpPlace(d), dump'[d] = dump[d],
           Writing(d) =>
              /\ writers'[dump[d].number] = writers[dump[d].number]
              /\ dump[d].address \in DOMAIN emitters =>
                    /\ dump[d].address \in DOMAIN emitters'
                    /\ emitters'[dump[d].address] = emitters[dump[d].address]
              /\ dump[d].address \notin DOMAIN emitters => dump[d].address \notin DOMAIN emitters',
           \A n \in DOMAIN dumped : n \in DOMAIN dumped' /\ dumped'[n] = dumped[n]
    PROVE  DumpPlace(d)'
<1>1. CASE dump[d].pc = "idle"
  BY <1>1 DEF DumpPlace, Writing
<1>2. CASE dump[d].pc # "idle"
  <2>1. \A i : /\ Flushed(d, i) => Flushed(d, i)'
               /\ Buffers(d, i) => Buffers(d, i)'
    BY <1>2 DEF Flushed, Buffers, InOrder, Writing
  <2>2. OwnBuffer(d) => OwnBuffer(d)'
    BY DEF OwnBuffer
  <2> QED BY <1>2, <2>1, <2>2 DEF DumpPlace, Writing
<1> QED BY <1>1, <1>2

(* So it leaves the entry at p.                                            *)
LEMMA OtherAddedStays ==
    ASSUME DumpEntries, NEW c \in Callers,
           \A d \in Callers : d # c => dump'[d] = dump[d],
           NEW p \in DOMAIN emitters, emitters'[p] = emitters[p],
           Added(c, p) => \/ Added(c, p)'
                          \/ \E n \in DOMAIN dumped' : /\ dumped'[n].address = p
                                                       /\ dumped'[n].exception # "none",
           \A n \in DOMAIN dumped : n \in DOMAIN dumped' /\ dumped'[n] = dumped[n]
    PROVE  \/ \E d \in Callers : Added(d, p)'
           \/ \E n \in DOMAIN dumped' : dumped'[n].address = p /\ dumped'[n].exception # "none"
<1>1. ASSUME NEW d \in Callers, d # c, Added(d, p) PROVE Added(d, p)'
  BY <1>1 DEF Added
<1> QED BY <1>1 DEF DumpEntries

(* A step inside a call keeps its number.                                  *)
LEMMA DumpNumbersStay ==
    ASSUME DumpsNumbered, NEW c \in Callers, Writing(c),
           \A d \in Callers : d # c => dump'[d] = dump[d],
           dump'[c].number = dump[c].number,
           UNCHANGED <<dumps, dumped>>
    PROVE  DumpsNumbered'
BY DEF DumpsNumbered, Writing

(* A step of Parse disturbs no call of Dump.                               *)
LEMMA DumpInvFrame ==
    ASSUME DumpInv, UNCHANGED dumpVars
    PROVE  DumpInv'
<1>1. \A c \in Callers : DumpPlace(c)'
  BY OtherPlaceStays DEF DumpInv, dumpVars
<1>2. AbortsFollowFailures'
  BY DEF DumpInv, AbortsFollowFailures, Dumping!AbortsFollowFailures, dumpVars
<1> QED BY <1>1, <1>2
        DEF DumpInv, DumpTypeOK, DumpsNumbered, WritersOwn, DumpEntries, DumpsReturnAll, InOrder,
            dumpVars, Writing, Added

(* Nor the other way round.                                                *)
LEMMA ParseInvFrame ==
    ASSUME ParseInv, UNCHANGED <<parsers, call, calls, finished>>, allocated' \subseteq Addresses
    PROVE  ParseInv'
BY DEF ParseInv, TypeOK, ParsesNumbered, ParsePlace, ParseEntries, ParsesReturnTheirOwn, Parsing,
       Registered

(* A step inside a call, of which the other calls see nothing.             *)
LEMMA InsideDump ==
    ASSUME DumpInv, NEW c \in Callers, Writing(c),
           UNCHANGED <<emitters, dumps, writers, dumped, aborted>>,
           dump' \in [Callers -> DumpRecord],
           \A d \in Callers : d # c => dump'[d] = dump[d],
           dump'[c].number = dump[c].number,
           DumpPlace(c)',
           \A p \in DOMAIN emitters : Added(c, p) => Added(c, p)'
    PROVE  DumpInv'
<1>1. DumpTypeOK'
  BY DEF DumpInv, DumpTypeOK
<1>2. DumpsNumbered'
  BY DumpNumbersStay DEF DumpInv
<1>3. ASSUME NEW d \in Callers PROVE DumpPlace(d)'
  BY OtherPlaceStays DEF DumpInv
<1>4. DumpEntries'
  BY OtherAddedStays DEF DumpInv, DumpEntries
<1> QED BY <1>1, <1>2, <1>3, <1>4
        DEF DumpInv, WritersOwn, DumpsReturnAll, InOrder, AbortsFollowFailures,
            Dumping!AbortsFollowFailures

(* emitter_create: the call's number, address and writer are its own.      *)
LEMMA CreateDump ==
    ASSUME DumpInv, NEW c \in Callers, Dumping!CreateEmitter(c)
    PROVE  DumpInv'
<1> USE DumpBoundsAssumption, NullAssumption
<1>1. PICK documents \in 0 .. MaxDocuments, p \in Addresses \ allocated :
         \E bad \in 0 .. documents :
            /\ allocated' = allocated \cup {p}
            /\ dump' = [dump EXCEPT ![c] = Dumping!DumpCall(dumps + 1, documents, bad, p)]
  BY DEF Dumping!CreateEmitter
<1>2. PICK bad \in 0 .. documents :
         dump' = [dump EXCEPT ![c] = Dumping!DumpCall(dumps + 1, documents, bad, p)]
  BY <1>1
<1>3. dump[c].pc = "idle" /\ dumps < MaxDumps /\ dumps' = dumps + 1
      /\ UNCHANGED <<emitters, writers, dumped, aborted>>
  BY DEF Dumping!CreateEmitter, Dumping!At
<1>4. dumps \in Nat /\ dumps + 1 \in 1 .. MaxDumps /\ dumps + 1 \in 0 .. MaxDumps
  BY <1>3 DEF DumpInv, DumpTypeOK
<1> DEFINE k == Dumping!DumpCall(dumps + 1, documents, bad, p)
<1>5. /\ k \in DumpRecord /\ k.pc = "add" /\ k.number = dumps + 1 /\ k.address = p
      /\ k.next = 1 /\ ~k.started /\ k.buffer = <<>> /\ k.exception = "none"
      /\ k.documents = documents
  BY <1>4, DumpCallFields
<1> HIDE DEF k
<1>6. dump'[c] = k /\ \A d \in Callers : d # c => dump'[d] = dump[d]
  BY <1>2 DEF DumpInv, DumpTypeOK, k
<1>7. DumpTypeOK'
  BY <1>2, <1>3, <1>4, <1>5 DEF DumpInv, DumpTypeOK, k
<1>8. DumpsNumbered'
  <2>1. \A n \in DOMAIN dumped : n \in Nat /\ n <= dumps
    BY DEF DumpInv, DumpsNumbered, DumpTypeOK
  <2>2. \A d \in Callers : Writing(d) => /\ dump[d].number \in 1 .. dumps
                                         /\ dump[d].number \notin DOMAIN dumped
    BY DEF DumpInv, DumpsNumbered
  <2>3. \A d \in Callers : Writing(d)' => /\ dump'[d].number \in 1 .. dumps'
                                          /\ dump'[d].number \notin DOMAIN dumped'
    BY <1>3, <1>4, <1>5, <1>6, <2>1, <2>2 DEF Writing
  <2>4. \A d, e \in Callers :
           d # e /\ Writing(d)' /\ Writing(e)' => dump'[d].number # dump'[e].number
    BY <1>4, <1>5, <1>6, <2>2 DEF Writing, DumpInv, DumpsNumbered
  <2>5. \A n \in DOMAIN dumped' : n <= dumps'
    BY <1>3, <1>4, <2>1
  <2> QED BY <2>3, <2>4, <2>5 DEF DumpsNumbered
<1>9. WritersOwn'
  BY <1>3, <1>4 DEF DumpInv, WritersOwn
<1>10. ASSUME NEW d \in Callers PROVE DumpPlace(d)'
  <2>1. CASE d # c
    BY <1>3, <1>6, <2>1, OtherPlaceStays DEF DumpInv
  <2>2. CASE d = c
    <3>1. writers'[dumps + 1] = <<>>
      BY <1>3, <1>4 DEF DumpInv, WritersOwn
    <3>2. Flushed(c, 0)' /\ OwnBuffer(c)'
      BY <1>5, <1>6, <3>1 DEF Flushed, InOrder, OwnBuffer
    <3>3. documents + 1 >= 1
      OBVIOUS
    <3> QED BY <1>5, <1>6, <2>2, <3>2, <3>3 DEF DumpPlace
  <2> QED BY <2>1, <2>2
<1>11. DumpEntries'
  <2>1. \A p_1 \in DOMAIN emitters : ~Added(c, p_1)
    BY <1>3 DEF Added
  <2> QED BY <1>3, <1>6, <2>1, OtherAddedStays DEF DumpInv, DumpEntries
<1> QED BY <1>3, <1>7, <1>8, <1>9, <1>10, <1>11
        DEF DumpInv, DumpsReturnAll, InOrder, AbortsFollowFailures, Dumping!AbortsFollowFailures

(* StartStream: the emitter of the call is in the dictionary from now on.  *)
LEMMA StartStreamDump ==
    ASSUME DumpInv, NEW c \in Callers, Dumping!StartStream(c)
    PROVE  DumpInv'
<1>1. /\ dump[c].pc = "stream" /\ UNCHANGED <<emitters, dumps, writers, dumped, aborted>>
      /\ dump' = [dump EXCEPT ![c].started = TRUE, ![c].pc = "document"]
      /\ dump \in [Callers -> DumpRecord] /\ dump[c] \in DumpRecord /\ DumpPlace(c)
  BY DEF Dumping!StartStream, Dumping!At, DumpInv, DumpTypeOK
<1>2. /\ dump'[c] = [dump[c] EXCEPT !.started = TRUE, !.pc = "document"]
      /\ \A d \in Callers : d # c => dump'[d] = dump[d]
  BY <1>1
<1>3. [dump[c] EXCEPT !.started = TRUE, !.pc = "document"] \in DumpRecord
  BY <1>1 DEF DumpRecord, Dumping!DumpPC
<1>4. /\ dump' \in [Callers -> DumpRecord]
      /\ dump'[c].pc = "document" /\ dump'[c].exception = dump[c].exception
      /\ dump'[c].number = dump[c].number /\ dump'[c].address = dump[c].address
      /\ dump'[c].documents = dump[c].documents /\ dump'[c].next = dump[c].next
      /\ dump'[c].started /\ dump'[c].buffer = dump[c].buffer
      /\ dump'[c].lost = dump[c].lost
  <2>1. dump' \in [Callers -> DumpRecord]
    BY <1>1, <1>3
  <2> QED BY <1>1, <1>2, <2>1 DEF DumpRecord
<1>5. DumpPlace(c)'
  <2>1. dump[c].next = 1 /\ Flushed(c, 0)
    BY <1>1 DEF DumpPlace
  <2>2. Flushed(c, dump[c].next - 1)
    BY <2>1
  <2>3. Flushed(c, dump[c].next - 1)' /\ OwnBuffer(c)'
    BY <1>1, <1>4, <2>2 DEF Flushed, InOrder, OwnBuffer, DumpPlace, Writing
  <2> QED BY <1>1, <1>4, <2>3 DEF DumpPlace, Writing
<1>6. \A p \in DOMAIN emitters : Added(c, p) => Added(c, p)'
  BY <1>1, <1>4 DEF Added
<1> QED BY <1>1, <1>2, <1>4, <1>5, <1>6, InsideDump DEF Writing

(* emitter_create fails: the call ends at once, with the exception.        *)
LEMMA CreateFailsDump ==
    ASSUME DumpInv, NEW c \in Callers, Dumping!CreateEmitterFails(c)
    PROVE  DumpInv'
<1> USE DumpBoundsAssumption
<1> DEFINE failure == "Failed to create a native emitter"
           r == [Dumping!DumpCall(dumps + 1, 0, 0, Null) EXCEPT !.exception = failure]
<1>1. /\ dump[c].pc = "idle" /\ dumps < MaxDumps /\ dumps' = dumps + 1
      /\ UNCHANGED <<emitters, writers, aborted>>
      /\ Dumping!EndDump(c, r)
  BY DEF Dumping!CreateEmitterFails, Dumping!At
<1>2. dumps \in Nat /\ dumps + 1 \in 1 .. MaxDumps /\ dumps + 1 \in 0 .. MaxDumps
  <2>1. dumps < MaxDumps
    BY <1>1
  <2> QED BY <2>1 DEF DumpInv, DumpTypeOK
<1>3. r \in DumpRecord /\ r.number = dumps + 1 /\ r.exception = failure
  <2> DEFINE k == Dumping!DumpCall(dumps + 1, 0, 0, Null)
  <2>1. 0 \in 0 .. MaxDocuments /\ 0 \in 0 .. 0
    OBVIOUS
  <2>2. k \in DumpRecord /\ k.number = dumps + 1
    BY <1>2, <2>1, DumpCallFields
  <2> HIDE DEF k
  <2>3. [k EXCEPT !.exception = failure] \in DumpRecord
    BY <2>2 DEF DumpRecord, DumpException
  <2>4. r = [k EXCEPT !.exception = failure]
    BY DEF k
  <2> QED BY <2>2, <2>3, <2>4 DEF DumpRecord
<1> HIDE DEF r
<1>4. /\ dump' = [dump EXCEPT ![c] = Dumping!NoDump]
      /\ dumped' = [n \in DOMAIN dumped \cup {dumps + 1} |->
                       IF n = dumps + 1 THEN Dumping!Outcome(r) ELSE dumped[n]]
  BY <1>1, <1>3 DEF Dumping!EndDump
<1>a. Dumping!Outcome(r) \in DumpOutcome /\ Dumping!Outcome(r).exception = failure
  BY <1>3 DEF Dumping!Outcome, DumpRecord, DumpOutcome
<1>5. /\ dump' \in [Callers -> DumpRecord] /\ dump'[c].pc = "idle" /\ dump'[c].address = Null
      /\ \A d \in Callers : d # c => dump'[d] = dump[d]
  BY <1>4, NoDumpFields DEF DumpInv, DumpTypeOK
<1>6. \A n \in DOMAIN dumped : n \in Nat /\ n <= dumps
  BY DEF DumpInv, DumpsNumbered, DumpTypeOK
<1>7. /\ DOMAIN dumped' = DOMAIN dumped \cup {dumps + 1}
      /\ \A n \in DOMAIN dumped : dumped'[n] = dumped[n]
      /\ dumped'[dumps + 1] = Dumping!Outcome(r)
  BY <1>2, <1>4, <1>6
<1>8. DumpTypeOK'
  <2>1. DOMAIN dumped' \subseteq 1 .. MaxDumps /\ \A n \in DOMAIN dumped' : dumped'[n] \in DumpOutcome
    BY <1>2, <1>a, <1>7 DEF DumpInv, DumpTypeOK
  <2> QED BY <1>1, <1>2, <1>5, <2>1 DEF DumpInv, DumpTypeOK
<1>9. DumpsNumbered'
  <2>1. \A d \in Callers : Writing(d) => /\ dump[d].number \in 1 .. dumps
                                         /\ dump[d].number \notin DOMAIN dumped
    BY DEF DumpInv, DumpsNumbered
  <2>2. \A d \in Callers : Writing(d)' => /\ dump'[d].number \in 1 .. dumps'
                                          /\ dump'[d].number \notin DOMAIN dumped'
    BY <1>1, <1>2, <1>5, <1>7, <2>1 DEF Writing
  <2>3. \A d, e \in Callers :
           d # e /\ Writing(d)' /\ Writing(e)' => dump'[d].number # dump'[e].number
    BY <1>5 DEF Writing, DumpInv, DumpsNumbered
  <2>4. \A n \in DOMAIN dumped' : n <= dumps'
    BY <1>1, <1>2, <1>6, <1>7
  <2> QED BY <2>2, <2>3, <2>4 DEF DumpsNumbered
<1>10. WritersOwn'
  BY <1>1, <1>2 DEF DumpInv, WritersOwn
<1>11. ASSUME NEW d \in Callers PROVE DumpPlace(d)'
  <2>1. CASE d # c
    BY <1>1, <1>5, <1>7, <2>1, OtherPlaceStays DEF DumpInv
  <2>2. CASE d = c
    BY <1>5, <2>2 DEF DumpPlace, Writing
  <2> QED BY <2>1, <2>2
<1>12. DumpEntries'
  <2>1. \A p \in DOMAIN emitters : ~Added(c, p)
    BY <1>1 DEF Added
  <2> QED BY <1>1, <1>5, <1>7, <2>1, OtherAddedStays DEF DumpInv, DumpEntries
<1>13. DumpsReturnAll'
  <2>1. writers[dumps + 1] = <<>>
    BY <1>2 DEF DumpInv, WritersOwn
  <2>2. InOrder(dumps + 1, writers'[dumps + 1])
    BY <1>1, <2>1 DEF InOrder
  <2> QED BY <1>1, <1>a, <1>7, <2>2 DEF DumpInv, DumpsReturnAll, InOrder
<1>14. AbortsFollowFailures'
  BY <1>1, <1>7 DEF DumpInv, AbortsFollowFailures, Dumping!AbortsFollowFailures
<1> QED BY <1>8, <1>9, <1>10, <1>11, <1>12, <1>13, <1>14 DEF DumpInv

(* AddEmitter: the entry of a new key; or ArgumentException, when a call   *)
(* that has thrown has left an entry behind.                               *)
LEMMA AddDump ==
    ASSUME DumpInv, Owned, allocated \subseteq Addresses,
           NEW c \in Callers, Dumping!AddEmitter(c)
    PROVE  DumpInv'
<1> DEFINE a == dump[c].address
<1>1. /\ dump[c].pc = "add" /\ UNCHANGED <<dumps, writers, dumped, aborted>>
      /\ dump \in [Callers -> DumpRecord] /\ dump[c] \in DumpRecord /\ DumpPlace(c)
      /\ dump[c].number \in 1 .. MaxDumps
  <2>1. dump[c].pc = "add" /\ UNCHANGED <<dumps, writers, dumped, aborted>>
    BY DEF Dumping!AddEmitter, Dumping!At
  <2>2. dump[c].number \in 1 .. dumps /\ dumps \in 0 .. MaxDumps
    BY <2>1 DEF DumpInv, DumpsNumbered, DumpTypeOK, Writing
  <2>3. dump[c].number \in 1 .. MaxDumps
    BY <2>2, DumpBoundsAssumption
  <2> QED BY <2>1, <2>3 DEF DumpInv, DumpTypeOK
<1>2. a \in Addresses /\ \A p : ~Added(c, p)
  <2>1. a \in Addresses \cup {Null} /\ a \in allocated
    BY <1>1 DEF Owned, Writing, DumpRecord
  <2> QED BY <1>1, <2>1 DEF Added
<1>3. CASE a \in DOMAIN emitters
  <2>1. Dumping!DumpThrows(c, "ArgumentException") /\ UNCHANGED emitters
    BY <1>3 DEF Dumping!AddEmitter
  <2>2. /\ dump' \in [Callers -> DumpRecord]
        /\ \A d \in Callers : d # c => dump'[d] = dump[d]
        /\ dump'[c].pc = "destroy" /\ dump'[c].exception = "ArgumentException"
        /\ dump'[c].number = dump[c].number /\ dump'[c].address = a
        /\ dump'[c].documents = dump[c].documents /\ dump'[c].next = dump[c].next
        /\ dump'[c].started = dump[c].started /\ dump'[c].buffer = dump[c].buffer
    BY <1>1, <2>1, DumpGoesFields DEF Dumping!DumpThrows, Dumping!DumpPC, DumpException
  <2>3. \E n \in DOMAIN dumped : dumped[n].address = a /\ dumped[n].exception # "none"
    <3>1. \A d \in Callers : ~Added(d, a)
      BY <1>1, <1>2 DEF Added, Owned, Writing
    <3> QED BY <1>3, <3>1 DEF DumpInv, DumpEntries
  <2>4. DumpPlace(c)'
    BY <1>1, <2>2, <2>3 DEF DumpPlace, OwnBuffer, Writing
  <2> QED BY <1>1, <1>2, <2>1, <2>2, <2>4, InsideDump DEF Writing
<1>4. CASE a \notin DOMAIN emitters
  <2>1. /\ Dumping!DumpGoesTo(c, "stream")
        /\ emitters' = [p \in DOMAIN emitters \cup {a} |->
                           IF p = a THEN dump[c].number ELSE emitters[p]]
    BY <1>4 DEF Dumping!AddEmitter
  <2>2. /\ dump' \in [Callers -> DumpRecord]
        /\ \A d \in Callers : d # c => dump'[d] = dump[d]
        /\ dump'[c].pc = "stream" /\ dump'[c].exception = dump[c].exception
        /\ dump'[c].number = dump[c].number /\ dump'[c].address = dump[c].address
        /\ dump'[c].documents = dump[c].documents /\ dump'[c].next = dump[c].next
        /\ dump'[c].started = dump[c].started /\ dump'[c].buffer = dump[c].buffer
        /\ dump'[c].lost = dump[c].lost
    BY <1>1, <2>1, DumpGoesToFields DEF Dumping!DumpPC
  <2>3. /\ DOMAIN emitters' = DOMAIN emitters \cup {a}
        /\ emitters'[a] = dump[c].number
        /\ \A p \in DOMAIN emitters : emitters'[p] = emitters[p]
    BY <1>4, <2>1
  <2>4. DumpTypeOK'
    BY <1>1, <1>2, <2>2, <2>3 DEF DumpInv, DumpTypeOK
  <2>5. DumpsNumbered'
    BY <1>1, <2>2, DumpNumbersStay DEF DumpInv, Writing
  <2>6. ASSUME NEW d \in Callers PROVE DumpPlace(d)'
    <3>1. CASE d # c
      <4>1. Writing(d) => dump[d].address # a
        BY <1>1, <3>1 DEF Owned, Writing
      <4> QED BY <1>1, <2>2, <2>3, <3>1, <4>1, OtherPlaceStays DEF DumpInv
    <3>2. CASE d = c
      <4>1. Flushed(c, 0)' /\ OwnBuffer(c)'
        BY <1>1, <2>2 DEF DumpPlace, Flushed, InOrder, OwnBuffer, Writing
      <4> QED BY <1>1, <2>2, <2>3, <3>2, <4>1 DEF DumpPlace, Writing
    <3> QED BY <3>1, <3>2
  <2>7. DumpEntries'
    <3>1. ASSUME NEW p, p = a PROVE Added(c, p)'
      BY <2>2, <2>3, <3>1 DEF Added
    <3>2. ASSUME NEW p \in DOMAIN emitters
          PROVE  \/ \E d \in Callers : Added(d, p)'
                 \/ \E n \in DOMAIN dumped' : dumped'[n].address = p /\ dumped'[n].exception # "none"
      BY <1>1, <1>2, <2>2, <2>3, OtherAddedStays DEF DumpInv
    <3>3. ASSUME NEW p \in DOMAIN emitters'
          PROVE  \/ \E d \in Callers : Added(d, p)'
                 \/ \E n \in DOMAIN dumped' : dumped'[n].address = p /\ dumped'[n].exception # "none"
      <4>1. CASE p = a
        BY <3>1, <4>1
      <4>2. CASE p \in DOMAIN emitters
        BY <3>2, <4>2
      <4> QED BY <2>3, <4>1, <4>2
    <3> QED BY <3>3 DEF DumpEntries
  <2>8. WritersOwn' /\ DumpsReturnAll' /\ AbortsFollowFailures'
    BY <1>1 DEF DumpInv, WritersOwn, DumpsReturnAll, InOrder, AbortsFollowFailures,
                Dumping!AbortsFollowFailures
  <2> QED BY <2>4, <2>5, <2>6, <2>7, <2>8 DEF DumpInv
<1> QED BY <1>3, <1>4

(* GenerateDocument: the text of the next document goes to the buffer, up  *)
(* to its end or to the event that cannot be made; or there is no next.    *)
LEMMA GenerateDump ==
    ASSUME DumpInv, NEW c \in Callers, Dumping!GenerateDocument(c)
    PROVE  DumpInv'
<1> DEFINE d == dump[c]
           chunk == <<d.number, d.next>>
           w == Append(d.buffer, chunk)
<1>1. /\ d.pc = "document" /\ UNCHANGED <<emitters, dumps, writers, dumped, aborted>>
      /\ dump \in [Callers -> DumpRecord] /\ d \in DumpRecord /\ DumpPlace(c)
  BY DEF Dumping!GenerateDocument, Dumping!At, DumpInv, DumpTypeOK
<1>2. /\ d.number \in Nat /\ d.next \in 1 .. MaxDocuments + 1 /\ d.documents \in 0 .. MaxDocuments
      /\ d.buffer \in Seq(Chunk) /\ Flushed(c, d.next - 1) /\ OwnBuffer(c)
      /\ d.next <= d.documents + 1 /\ d.started /\ d.exception = "none"
      /\ d.address \in DOMAIN emitters /\ emitters[d.address] = d.number
  BY <1>1 DEF DumpRecord, DumpPlace, Writing
<1>a. d.next > d.documents <=> ~(d.next <= d.documents)
  BY <1>2, DumpBoundsAssumption
<1>3. CASE d.next > d.documents
  <2>1. Dumping!DumpGoesTo(c, "remove")
    BY <1>a, <1>3, Zenon DEF Dumping!GenerateDocument
  <2>2. /\ dump' \in [Callers -> DumpRecord]
        /\ \A e \in Callers : e # c => dump'[e] = dump[e]
        /\ dump'[c].pc = "remove" /\ dump'[c].exception = d.exception
        /\ dump'[c].number = d.number /\ dump'[c].address = d.address
        /\ dump'[c].documents = d.documents /\ dump'[c].next = d.next
        /\ dump'[c].started = d.started /\ dump'[c].buffer = d.buffer
        /\ dump'[c].lost = d.lost
    BY <1>1, <2>1, DumpGoesToFields DEF Dumping!DumpPC
  <2>3. d.next - 1 = d.documents
    BY <1>2, <1>3, DumpBoundsAssumption, SMTT(30)
  <2>b. Flushed(c, d.documents)' /\ OwnBuffer(c)'
    BY <1>1, <1>2, <2>2, <2>3 DEF Flushed, InOrder, OwnBuffer
  <2>4. DumpPlace(c)'
    BY <1>1, <1>2, <2>2, <2>b DEF DumpPlace, Writing
  <2>5. \A p \in DOMAIN emitters : Added(c, p) => Added(c, p)'
    BY <1>1, <2>2 DEF Added
  <2> QED BY <1>1, <2>2, <2>4, <2>5, InsideDump DEF Writing
<1>4. /\ w \in Seq(Chunk) /\ \A i \in 1 .. Len(w) : w[i][1] = d.number
      /\ ~d.lost => /\ w = <<chunk>> /\ Len(writers[d.number]) = d.next - 1
                    /\ InOrder(d.number, writers[d.number])
  <2>1. chunk \in Chunk
    BY <1>2, DumpBoundsAssumption DEF Chunk
  <2>2. w \in Seq(Chunk) /\ Len(w) = Len(d.buffer) + 1 /\ w[Len(d.buffer) + 1] = chunk
        /\ \A i \in 1 .. Len(d.buffer) : w[i] = d.buffer[i]
    BY <1>2, <2>1, AppendProperties
  <2>3. ASSUME NEW i \in 1 .. Len(w) PROVE w[i][1] = d.number
    <3>1. CASE i \in 1 .. Len(d.buffer)
      BY <1>2, <2>2, <3>1 DEF OwnBuffer
    <3>2. CASE i = Len(d.buffer) + 1
      BY <2>2, <3>2
    <3>3. Len(d.buffer) \in Nat
      BY <1>2, LenProperties
    <3> QED BY <2>2, <3>1, <3>2, <3>3
  <2>4. ~d.lost => /\ w = <<chunk>> /\ Len(writers[d.number]) = d.next - 1
                   /\ InOrder(d.number, writers[d.number])
    <3>1. ASSUME d.buffer = <<>> PROVE w = <<chunk>>
      <4> HIDE DEF chunk
      <4> QED BY <3>1
    <3>2. ~d.lost => /\ d.buffer = <<>> /\ Len(writers[d.number]) = d.next - 1
                     /\ InOrder(d.number, writers[d.number])
      BY <1>2 DEF Flushed
    <3> HIDE DEF w, chunk, d
    <3> QED BY <3>1, <3>2
  <2> QED BY <2>2, <2>3, <2>4
<1>b. \A i : dump'[c].lost = d.lost /\ dump'[c].buffer = w /\ dump'[c].number = d.number =>
                /\ OwnBuffer(c)'
                /\ i = d.next => Buffers(c, i)'
  BY <1>1, <1>4 DEF OwnBuffer, Buffers, InOrder
<1> HIDE DEF w
<1>5. CASE d.next <= d.documents /\ d.next = d.bad
  <2> DEFINE failure == "Failed to initialize YAML serialization event"
             r == [d EXCEPT !.buffer = w, !.pc = "destroy", !.exception = failure]
  <2>1. dump' = [[dump EXCEPT ![c].buffer = Append(@, chunk)]
                    EXCEPT ![c].pc = "destroy", ![c].exception = failure]
    BY <1>a, <1>5, Zenon DEF Dumping!GenerateDocument
  <2>2. dump' = [dump EXCEPT ![c] = r]
    BY <1>1, <2>1 DEF w
  <2>3. r \in DumpRecord
    BY <1>1, <1>4 DEF DumpRecord, Dumping!DumpPC, DumpException
  <2>4. /\ dump' \in [Callers -> DumpRecord] /\ dump'[c] = r
        /\ \A e \in Callers : e # c => dump'[e] = dump[e]
    BY <1>1, <2>2, <2>3
  <2>5. /\ dump'[c].pc = "destroy" /\ dump'[c].exception = failure
        /\ dump'[c].number = d.number /\ dump'[c].address = d.address
        /\ dump'[c].documents = d.documents /\ dump'[c].next = d.next
        /\ dump'[c].started = d.started /\ dump'[c].buffer = w
        /\ dump'[c].lost = d.lost
    BY <1>1, <2>4 DEF DumpRecord
  <2>6. DumpPlace(c)'
    <3>1. OwnBuffer(c)' /\ Buffers(c, d.next)'
      BY <1>b, <2>5
    <3> QED BY <1>1, <1>2, <2>5, <3>1 DEF DumpPlace, Writing
  <2>7. \A p \in DOMAIN emitters : Added(c, p) => Added(c, p)'
    BY <1>1, <1>2, <2>5 DEF Added
  <2> QED BY <1>1, <2>4, <2>5, <2>6, <2>7, InsideDump DEF Writing
<1>6. CASE d.next <= d.documents /\ d.next # d.bad
  <2> DEFINE r == [d EXCEPT !.buffer = w, !.pc = "flush", !.next = d.next + 1]
  <2>1. dump' = [[dump EXCEPT ![c].buffer = Append(@, chunk)]
                    EXCEPT ![c].pc = "flush", ![c].next = @ + 1]
    BY <1>a, <1>6, Zenon DEF Dumping!GenerateDocument
  <2>2. dump' = [dump EXCEPT ![c] = r]
    BY <1>1, <2>1 DEF w
  <2>3. r \in DumpRecord
    <3>1. d.next + 1 \in 1 .. MaxDocuments + 1
      BY <1>2, <1>6, DumpBoundsAssumption
    <3> QED BY <1>1, <1>4, <3>1 DEF DumpRecord, Dumping!DumpPC
  <2>4. /\ dump' \in [Callers -> DumpRecord] /\ dump'[c] = r
        /\ \A e \in Callers : e # c => dump'[e] = dump[e]
    BY <1>1, <2>2, <2>3
  <2>5. /\ dump'[c].pc = "flush" /\ dump'[c].exception = d.exception
        /\ dump'[c].number = d.number /\ dump'[c].address = d.address
        /\ dump'[c].documents = d.documents /\ dump'[c].next = d.next + 1
        /\ dump'[c].started = d.started /\ dump'[c].buffer = w
        /\ dump'[c].lost = d.lost
    BY <1>1, <2>4 DEF DumpRecord
  <2>6. DumpPlace(c)'
    <3>1. /\ (d.next + 1) - 1 = d.next /\ d.next + 1 >= 2
          /\ d.next + 1 <= d.documents + 1
      BY <1>2, <1>6, DumpBoundsAssumption
    <3>2. OwnBuffer(c)' /\ Buffers(c, dump[c].next - 1)'
      <4>1. dump'[c].next - 1 = d.next
        BY <2>5, <3>1
      <4> QED BY <1>b, <2>5, <4>1
    <3> QED BY <1>1, <1>2, <2>5, <3>1, <3>2 DEF DumpPlace, Writing
  <2>7. \A p \in DOMAIN emitters : Added(c, p) => Added(c, p)'
    BY <1>1, <1>2, <2>5 DEF Added
  <2> QED BY <1>1, <2>4, <2>5, <2>6, <2>7, InsideDump DEF Writing
<1> QED BY <1>2, <1>3, <1>5, <1>6, DumpBoundsAssumption

(* What a call flushes goes to its own writer, or nowhere.                 *)
LEMMA WrittenText ==
    ASSUME DumpInv, NEW c \in Callers, Writing(c), DumpPlace(c), dump[c].pc \in {"flush", "destroy"},
           dump[c].started
    PROVE  LET m == dump[c].number
           IN  /\ m \in 1 .. MaxDumps /\ m \in Nat /\ m <= dumps /\ dumps \in Nat
               /\ Dumping!Written(c) = IF dump[c].address \in DOMAIN emitters
                                       THEN [writers EXCEPT ![m] = writers[m] \o dump[c].buffer]
                                       ELSE writers
<1>1. dump[c].number \in 1 .. dumps /\ dumps \in 0 .. MaxDumps
  BY DEF DumpInv, DumpsNumbered, DumpTypeOK
<1>2. dump[c].address \in DOMAIN emitters => emitters[dump[c].address] = dump[c].number
  BY DEF DumpPlace
<1>3. dump[c].number \in 1 .. MaxDumps /\ dump[c].number \in Nat /\ dump[c].number <= dumps
      /\ dumps \in Nat
  BY <1>1, DumpBoundsAssumption
<1>4. CASE dump[c].address \in DOMAIN emitters
  BY <1>2, <1>3, <1>4 DEF Dumping!Written
<1>5. CASE dump[c].address \notin DOMAIN emitters
  BY <1>3, <1>5 DEF Dumping!Written
<1> QED BY <1>4, <1>5

LEMMA WriteOut ==
    ASSUME DumpInv, NEW c \in Callers, Writing(c), DumpPlace(c), dump[c].pc \in {"flush", "destroy"},
           dump[c].started, writers' = Dumping!Written(c) \/ UNCHANGED writers, UNCHANGED dumps
    PROVE  /\ writers' \in [1 .. MaxDumps -> Seq(Chunk)]
           /\ \A n \in 1 .. MaxDumps : n # dump[c].number => writers'[n] = writers[n]
           /\ WritersOwn'
<1> DEFINE m == dump[c].number
           w == writers[m]
           b == dump[c].buffer
           v == w \o b
<1>1. m \in 1 .. MaxDumps /\ m \in Nat /\ m <= dumps /\ dumps \in Nat
  BY WrittenText
<1>2. /\ writers \in [1 .. MaxDumps -> Seq(Chunk)] /\ w \in Seq(Chunk) /\ b \in Seq(Chunk)
      /\ \A j \in 1 .. Len(w) : w[j][1] = m
      /\ \A j \in 1 .. Len(b) : b[j][1] = m
  BY <1>1 DEF DumpInv, DumpTypeOK, WritersOwn, DumpRecord, DumpPlace, OwnBuffer
<1>3. writers' = [writers EXCEPT ![m] = v] \/ UNCHANGED writers
  BY WrittenText
<1>4. v \in Seq(Chunk) /\ \A j \in 1 .. Len(v) : v[j][1] = m
  <2> HIDE DEF m, w, b
  <2>1. /\ v \in Seq(Chunk) /\ Len(v) = Len(w) + Len(b) /\ Len(w) \in Nat /\ Len(b) \in Nat
        /\ \A j \in 1 .. Len(w) + Len(b) : v[j] = IF j <= Len(w) THEN w[j] ELSE b[j - Len(w)]
    BY <1>2, ConcatProperties, LenProperties
  <2> HIDE DEF v
  <2>2. ASSUME NEW j \in 1 .. Len(v) PROVE v[j][1] = m
    <3>1. CASE j <= Len(w)
      BY <1>2, <2>1, <3>1
    <3>2. CASE ~(j <= Len(w))
      <4>1. v[j] = b[j - Len(w)] /\ j - Len(w) \in 1 .. Len(b)
        BY <2>1, <3>2
      <4> QED BY <1>2, <4>1
    <3> QED BY <3>1, <3>2
  <2> QED BY <2>1, <2>2
<1> HIDE DEF v
<1>5. /\ writers' \in [1 .. MaxDumps -> Seq(Chunk)]
      /\ writers'[m] = v \/ writers'[m] = w
      /\ \A n \in 1 .. MaxDumps : n # m => writers'[n] = writers[n]
  BY <1>1, <1>2, <1>3, <1>4
<1>6. WritersOwn'
  <2>1. ASSUME NEW n \in 1 .. MaxDumps
        PROVE  /\ \A j \in 1 .. Len(writers'[n]) : writers'[n][j][1] = n
               /\ n > dumps => writers'[n] = <<>>
    <3> HIDE DEF m, w
    <3>1. CASE n = m
      BY <1>1, <1>2, <1>4, <1>5, <3>1
    <3>2. CASE n # m
      BY <1>5, <3>2 DEF DumpInv, WritersOwn
    <3> QED BY <3>1, <3>2
  <2> QED BY <2>1 DEF WritersOwn
<1> QED BY <1>5, <1>6

(* Unless an Emit has failed it goes there at its place.                   *)
LEMMA WriteInOrder ==
    ASSUME DumpInv, NEW c \in Callers, Writing(c), DumpPlace(c), dump[c].pc \in {"flush", "destroy"},
           dump[c].started, dump[c].address \in DOMAIN emitters,
           NEW i \in Nat \ {0}, Buffers(c, i), ~dump[c].lost, writers' = Dumping!Written(c)
    PROVE  Len(writers'[dump[c].number]) = i /\ InOrder(dump[c].number, writers'[dump[c].number])
<1> DEFINE m == dump[c].number
           w == writers[m]
           b == << <<m, i>> >>
           v == w \o b
<1>1. m \in 1 .. MaxDumps /\ m \in Nat
  BY WrittenText
<1>2. /\ w \in Seq(Chunk) /\ Len(w) = i - 1 /\ \A j \in 1 .. Len(w) : w[j] = <<m, j>>
      /\ b \in Seq(Chunk) /\ Len(b) = 1 /\ b[1] = <<m, i>>
  BY <1>1 DEF DumpInv, DumpTypeOK, Buffers, InOrder, Chunk
<1>3. writers'[m] = v
  <2>1. dump[c].buffer = b
    BY DEF Buffers
  <2>2. writers' = [writers EXCEPT ![m] = w \o dump[c].buffer] /\ m \in DOMAIN writers
    BY <1>1, WrittenText DEF DumpInv, DumpTypeOK
  <2> HIDE DEF b, w, m
  <2> QED BY <2>1, <2>2
<1>4. Len(v) = i /\ \A j \in 1 .. Len(v) : v[j] = <<m, j>>
  <2> HIDE DEF m, w, b
  <2>1. /\ v \in Seq(Chunk) /\ Len(v) = Len(w) + Len(b)
        /\ \A j \in 1 .. Len(w) + Len(b) : v[j] = IF j <= Len(w) THEN w[j] ELSE b[j - Len(w)]
    BY <1>2, ConcatProperties
  <2> HIDE DEF v
  <2>2. Len(v) = i
    BY <1>2, <2>1
  <2>3. ASSUME NEW j \in 1 .. i PROVE v[j] = <<m, j>>
    <3>1. CASE j <= i - 1
      BY <1>2, <2>1, <3>1
    <3>2. CASE j = i
      <4>1. v[j] = b[j - Len(w)] /\ j - Len(w) = 1
        BY <1>2, <2>1, <3>2
      <4> QED BY <1>2, <3>2, <4>1
    <3> QED BY <3>1, <3>2
  <2> QED BY <2>2, <2>3
<1> QED BY <1>3, <1>4 DEF InOrder

(* The call goes on after a flush.                                         *)
LEMMA FlushFields ==
    ASSUME dump \in [Callers -> DumpRecord], NEW c \in Callers, NEW b \in Seq(Chunk),
           NEW l \in BOOLEAN,
           dump' = [dump EXCEPT ![c] = [[dump[c] EXCEPT !.pc = "document"]
                                          EXCEPT !.buffer = b, !.lost = l]]
    PROVE  /\ dump' \in [Callers -> DumpRecord]
           /\ \A d \in Callers : d # c => dump'[d] = dump[d]
           /\ dump'[c].pc = "document" /\ dump'[c].exception = dump[c].exception
           /\ dump'[c].number = dump[c].number /\ dump'[c].address = dump[c].address
           /\ dump'[c].documents = dump[c].documents /\ dump'[c].next = dump[c].next
           /\ dump'[c].started = dump[c].started /\ dump'[c].buffer = b /\ dump'[c].lost = l
<1> DEFINE r == [dump[c] EXCEPT !.pc = "document", !.buffer = b, !.lost = l]
<1>1. dump[c] \in DumpRecord
  OBVIOUS
<1>2. dump' = [dump EXCEPT ![c] = r]
  BY <1>1
<1>3. /\ r \in DumpRecord
      /\ r.pc = "document" /\ r.exception = dump[c].exception
      /\ r.number = dump[c].number /\ r.address = dump[c].address
      /\ r.documents = dump[c].documents /\ r.next = dump[c].next
      /\ r.started = dump[c].started /\ r.buffer = b /\ r.lost = l
  BY <1>1 DEF DumpRecord, Dumping!DumpPC
<1> HIDE DEF r
<1> QED BY <1>2, <1>3

(* FlushDocument: the document goes to the writer of its own call, and a   *)
(* call of which no Emit fails has nothing left to flush.                  *)
LEMMA FlushDump ==
    ASSUME DumpInv, NEW c \in Callers, Dumping!FlushDocument(c)
    PROVE  DumpInv'
<1>1. /\ dump[c].pc = "flush" /\ UNCHANGED <<emitters, dumps, dumped, aborted>>
      /\ dump \in [Callers -> DumpRecord] /\ dump[c] \in DumpRecord /\ DumpPlace(c)
  BY DEF Dumping!FlushDocument, Dumping!At, DumpInv, DumpTypeOK
<1>2. /\ dump[c].address \in DOMAIN emitters /\ emitters[dump[c].address] = dump[c].number
      /\ dump[c].next >= 2 /\ dump[c].next \in Nat /\ dump[c].started
      /\ Buffers(c, dump[c].next - 1)
  BY <1>1, DumpBoundsAssumption DEF DumpPlace, DumpRecord
<1>3. PICK b \in {<<>>, dump[c].buffer}, l \in {dump[c].lost, TRUE} :
         /\ dump' = [dump EXCEPT ![c] = [[dump[c] EXCEPT !.pc = "document"]
                                            EXCEPT !.buffer = b, !.lost = l]]
         /\ \/ writers' = Dumping!Written(c) /\ b = <<>>
            \/ UNCHANGED writers /\ l
  BY DEF Dumping!FlushDocument
<1>4. /\ b \in Seq(Chunk) /\ l \in BOOLEAN
      /\ ~l => ~dump[c].lost /\ writers' = Dumping!Written(c) /\ b = <<>>
  BY <1>1, <1>3, EmptySeq DEF DumpRecord
<1>5. /\ writers' \in [1 .. MaxDumps -> Seq(Chunk)]
      /\ \A n \in 1 .. MaxDumps : n # dump[c].number => writers'[n] = writers[n]
      /\ WritersOwn'
  BY <1>1, <1>2, <1>3, WriteOut DEF Writing
<1>6. /\ dump' \in [Callers -> DumpRecord]
      /\ \A d \in Callers : d # c => dump'[d] = dump[d]
      /\ dump'[c].pc = "document" /\ dump'[c].exception = dump[c].exception
      /\ dump'[c].number = dump[c].number /\ dump'[c].address = dump[c].address
      /\ dump'[c].documents = dump[c].documents /\ dump'[c].next = dump[c].next
      /\ dump'[c].started = dump[c].started /\ dump'[c].buffer = b /\ dump'[c].lost = l
  <2>1. /\ dump \in [Callers -> DumpRecord] /\ b \in Seq(Chunk) /\ l \in BOOLEAN
        /\ dump' = [dump EXCEPT ![c] = [[dump[c] EXCEPT !.pc = "document"]
                                           EXCEPT !.buffer = b, !.lost = l]]
    BY <1>1, <1>3, <1>4
  <2> QED BY <2>1, FlushFields
<1>7. DumpTypeOK'
  <2>1. DumpTypeOK /\ UNCHANGED <<emitters, dumps, dumped, aborted>>
    BY <1>1 DEF DumpInv
  <2>2. dump' \in [Callers -> DumpRecord] /\ writers' \in [1 .. MaxDumps -> Seq(Chunk)]
    BY <1>5, <1>6
  <2> QED BY <2>1, <2>2 DEF DumpTypeOK
<1>8. DumpsNumbered'
  BY <1>1, <1>6, DumpNumbersStay DEF DumpInv, Writing
<1>9. ASSUME NEW d \in Callers PROVE DumpPlace(d)'
  <2>1. CASE d # c
    <3>1. Writing(d) => writers'[dump[d].number] = writers[dump[d].number]
      <4>1. ASSUME Writing(d) PROVE dump[d].number \in 1 .. MaxDumps /\ dump[d].number # dump[c].number
        <5>1. dump[d].number \in 1 .. dumps /\ dumps \in 0 .. MaxDumps
          BY <4>1 DEF DumpInv, DumpsNumbered, DumpTypeOK
        <5>2. dump[d].number # dump[c].number
          BY <1>1, <2>1, <4>1 DEF DumpInv, DumpsNumbered, Writing
        <5> QED BY <5>1, <5>2, DumpBoundsAssumption
      <4> QED BY <1>5, <4>1
    <3> QED BY <1>1, <1>6, <2>1, <3>1, OtherPlaceStays DEF DumpInv
  <2>2. CASE d = c
    <3>1. Flushed(c, dump[c].next - 1)'
      <4>1. ASSUME ~l
            PROVE  /\ Len(writers'[dump[c].number]) = dump[c].next - 1
                   /\ InOrder(dump[c].number, writers'[dump[c].number])
        <5>1. dump[c].next - 1 \in Nat \ {0}
          BY <1>2
        <5> QED BY <1>1, <1>2, <1>4, <4>1, <5>1, WriteInOrder DEF Writing
      <4> QED BY <1>4, <1>6, <4>1 DEF Flushed, InOrder
    <3>2. OwnBuffer(c)'
      BY <1>1, <1>3, <1>6 DEF DumpPlace, OwnBuffer, Writing
    <3>3. dump[c].exception = "none" /\ dump[c].next <= dump[c].documents + 1
      BY <1>1 DEF DumpPlace, Writing
    <3>4. /\ dump'[c].started /\ dump'[c].exception = "none" /\ dump'[c].pc = "document"
          /\ dump'[c].address \in DOMAIN emitters'
          /\ emitters'[dump'[c].address] = dump'[c].number
          /\ dump'[c].next <= dump'[c].documents + 1
      BY <1>1, <1>2, <1>6, <3>3
    <3> QED BY <2>2, <3>1, <3>2, <3>4, Zenon DEF DumpPlace
  <2> QED BY <2>1, <2>2
<1>10. DumpEntries'
  <2>1. \A p \in DOMAIN emitters : Added(c, p) => Added(c, p)'
    BY <1>1, <1>6 DEF Added
  <2> QED BY <1>1, <1>6, <2>1, OtherAddedStays DEF DumpInv, DumpEntries
<1>11. DumpsReturnAll'
  <2>1. dump[c].number \notin DOMAIN dumped /\ DOMAIN dumped \subseteq 1 .. MaxDumps
    BY <1>1 DEF DumpInv, DumpsNumbered, DumpTypeOK, Writing
  <2> QED BY <1>1, <1>5, <2>1 DEF DumpInv, DumpsReturnAll, InOrder
<1>12. AbortsFollowFailures'
  BY <1>1 DEF DumpInv, AbortsFollowFailures, Dumping!AbortsFollowFailures
<1> QED BY <1>5, <1>7, <1>8, <1>9, <1>10, <1>11, <1>12 DEF DumpInv

(* RemoveEmitter: the entry that goes is the call's own.                   *)
LEMMA RemoveDump ==
    ASSUME DumpInv, Owned, NEW c \in Callers, Dumping!RemoveEmitter(c)
    PROVE  DumpInv'
<1> DEFINE a == dump[c].address
<1>1. /\ dump[c].pc = "remove" /\ UNCHANGED <<dumps, writers, dumped, aborted>>
      /\ dump \in [Callers -> DumpRecord] /\ DumpPlace(c)
      /\ Dumping!DumpGoesTo(c, "destroy")
      /\ emitters' = [q \in DOMAIN emitters \ {a} |-> emitters[q]]
  BY DEF Dumping!RemoveEmitter, Dumping!At, DumpInv, DumpTypeOK
<1>2. /\ dump' \in [Callers -> DumpRecord]
      /\ \A d \in Callers : d # c => dump'[d] = dump[d]
      /\ dump'[c].pc = "destroy" /\ dump'[c].exception = dump[c].exception
      /\ dump'[c].number = dump[c].number /\ dump'[c].address = dump[c].address
      /\ dump'[c].documents = dump[c].documents /\ dump'[c].next = dump[c].next
      /\ dump'[c].started = dump[c].started /\ dump'[c].buffer = dump[c].buffer
      /\ dump'[c].lost = dump[c].lost
  BY <1>1, DumpGoesToFields DEF Dumping!DumpPC
<1>3. DOMAIN emitters' = DOMAIN emitters \ {a} /\ \A p \in DOMAIN emitters' : emitters'[p] = emitters[p]
  BY <1>1
<1>4. \A d \in Callers : d # c /\ Writing(d) => dump[d].address # a
  BY <1>1 DEF Owned, Writing
<1>5. DumpTypeOK'
  BY <1>1, <1>2, <1>3 DEF DumpInv, DumpTypeOK
<1>6. DumpsNumbered'
  BY <1>1, <1>2, DumpNumbersStay DEF DumpInv, Writing
<1>7. ASSUME NEW d \in Callers PROVE DumpPlace(d)'
  <2>1. CASE d # c
    BY <1>1, <1>2, <1>3, <1>4, <2>1, OtherPlaceStays DEF DumpInv
  <2>2. CASE d = c
    <3>1. Flushed(c, dump[c].documents)' /\ OwnBuffer(c)'
      BY <1>1, <1>2 DEF DumpPlace, Flushed, InOrder, OwnBuffer, Writing
    <3>2. a \notin DOMAIN emitters'
      BY <1>3
    <3> QED BY <1>1, <1>2, <2>2, <3>1, <3>2 DEF DumpPlace, Writing
  <2> QED BY <2>1, <2>2
<1>8. DumpEntries'
  <2>1. ASSUME NEW p \in DOMAIN emitters'
        PROVE  \/ \E d \in Callers : Added(d, p)'
               \/ \E n \in DOMAIN dumped' : dumped'[n].address = p /\ dumped'[n].exception # "none"
    <3>1. p \in DOMAIN emitters /\ emitters'[p] = emitters[p] /\ ~Added(c, p)
      BY <1>3 DEF Added
    <3> QED BY <1>1, <1>2, <3>1, OtherAddedStays DEF DumpInv
  <2> QED BY <2>1 DEF DumpEntries
<1> QED BY <1>1, <1>5, <1>6, <1>7, <1>8
        DEF DumpInv, WritersOwn, DumpsReturnAll, InOrder, AbortsFollowFailures,
            Dumping!AbortsFollowFailures

(* DestroyEmitter, of an emitter that was given no event: the assertion    *)
(* ends the process.                                                       *)
LEMMA AbortDump ==
    ASSUME DumpInv, Owned, allocated \subseteq Addresses,
           NEW c \in Callers, Dumping!DestroyEmitter(c), ~dump[c].started
    PROVE  DumpInv' /\ UNCHANGED <<allocated, dump>>
<1>1. /\ dump[c].pc = "destroy" /\ UNCHANGED <<allocated, dump, writers, dumped, emitters, dumps>>
      /\ aborted' = dump[c].address
  BY DEF Dumping!DestroyEmitter, Dumping!At
<1>2. /\ dump[c].address \in Addresses
      /\ \E n \in DOMAIN dumped : /\ dumped[n].address = dump[c].address
                                  /\ dumped[n].exception # "none"
  BY <1>1 DEF Owned, Writing, DumpInv, DumpPlace
<1>3. DumpTypeOK'
  BY <1>1, <1>2 DEF DumpInv, DumpTypeOK
<1>4. AbortsFollowFailures'
  BY <1>1, <1>2 DEF AbortsFollowFailures, Dumping!AbortsFollowFailures
<1>5. \A d \in Callers : DumpPlace(d)'
  BY <1>1, OtherPlaceStays DEF DumpInv
<1> QED BY <1>1, <1>3, <1>4, <1>5
        DEF DumpInv, DumpsNumbered, WritersOwn, DumpEntries, DumpsReturnAll, InOrder, Writing, Added

(* DestroyEmitter: what is in the buffer goes to the call's own writer,    *)
(* and the record of the call takes its place.                             *)
LEMMA DestroyDump ==
    ASSUME DumpInv, NEW c \in Callers, Dumping!DestroyEmitter(c), dump[c].started
    PROVE  DumpInv'
<1> DEFINE m == dump[c].number
<1>1. /\ dump[c].pc = "destroy" /\ UNCHANGED <<emitters, dumps, aborted>>
      /\ dump \in [Callers -> DumpRecord] /\ dump[c] \in DumpRecord /\ DumpPlace(c)
  BY DEF Dumping!DestroyEmitter, Dumping!At, DumpInv, DumpTypeOK
<1>a. PICK l \in {dump[c].lost, TRUE} :
         /\ Dumping!EndDump(c, [dump[c] EXCEPT !.lost = l])
         /\ \/ writers' = Dumping!Written(c)
            \/ UNCHANGED writers /\ l
  <2>1. CASE writers' = Dumping!Written(c) /\ Dumping!EndDump(c, dump[c])
    <3>1. dump[c] = [dump[c] EXCEPT !.lost = dump[c].lost]
      BY <1>1 DEF DumpRecord
    <3> QED BY <2>1, <3>1
  <2>2. CASE UNCHANGED writers /\ Dumping!EndDump(c, [dump[c] EXCEPT !.lost = TRUE])
    BY <2>2
  <2> QED BY <2>1, <2>2 DEF Dumping!DestroyEmitter
<1> DEFINE r == [dump[c] EXCEPT !.lost = l]
           o == Dumping!Outcome(r)
<1>b. /\ r.number = m /\ o \in DumpOutcome /\ o.address = dump[c].address
      /\ o.documents = dump[c].documents /\ o.exception = dump[c].exception /\ o.lost = l
  <2>1. r \in DumpRecord /\ r.number = m /\ r.address = dump[c].address
        /\ r.documents = dump[c].documents /\ r.exception = dump[c].exception /\ r.lost = l
    BY <1>1, <1>a DEF DumpRecord
  <2> HIDE DEF r, m
  <2> QED BY <2>1 DEF Dumping!Outcome, DumpRecord, DumpOutcome
<1>c. /\ dump' = [dump EXCEPT ![c] = Dumping!NoDump]
      /\ dumped' = [n \in DOMAIN dumped \cup {m} |-> IF n = m THEN o ELSE dumped[n]]
  <2>1. Dumping!EndDump(c, r)
    BY <1>a
  <2> HIDE DEF r, m
  <2> QED BY <1>b, <2>1 DEF Dumping!EndDump
<1> HIDE DEF o, r
<1>2. /\ dump' \in [Callers -> DumpRecord] /\ dump'[c].pc = "idle" /\ dump'[c].address = Null
      /\ \A d \in Callers : d # c => dump'[d] = dump[d]
  BY <1>1, <1>c, NoDumpFields
<1>3. m \in 1 .. MaxDumps /\ m <= dumps /\ m \notin DOMAIN dumped
  <2>1. m \in 1 .. dumps /\ dumps \in 0 .. MaxDumps /\ m \notin DOMAIN dumped
    BY <1>1 DEF DumpInv, DumpsNumbered, DumpTypeOK, Writing
  <2> QED BY <2>1, DumpBoundsAssumption
<1>4. /\ DOMAIN dumped' = DOMAIN dumped \cup {m}
      /\ \A n \in DOMAIN dumped : dumped'[n] = dumped[n]
      /\ dumped'[m] = o
  BY <1>c, <1>3
<1>5. /\ writers' \in [1 .. MaxDumps -> Seq(Chunk)]
      /\ \A n \in 1 .. MaxDumps : n # m => writers'[n] = writers[n]
      /\ WritersOwn'
  BY <1>1, <1>a, WriteOut DEF Writing
<1>d. ASSUME ~l
      PROVE  /\ InOrder(m, writers'[m])
             /\ dump[c].exception = "none" => Len(writers'[m]) = dump[c].documents
  <2>1. ~dump[c].lost /\ writers' = Dumping!Written(c)
    BY <1>a, <1>d
  <2>2. CASE dump[c].exception = "none"
    <3>1. Flushed(c, dump[c].documents) /\ dump[c].address \notin DOMAIN emitters
      BY <1>1, <2>2 DEF DumpPlace
    <3>2. writers' = writers
      BY <2>1, <3>1 DEF Dumping!Written
    <3> QED BY <2>1, <3>1, <3>2 DEF Flushed, InOrder
  <2>3. CASE dump[c].exception # "none"
    <3>1. /\ Buffers(c, dump[c].next) /\ dump[c].next \in Nat \ {0}
          /\ dump[c].address \in DOMAIN emitters
      BY <1>1, <2>3, DumpBoundsAssumption DEF DumpPlace, DumpRecord
    <3> QED BY <1>1, <2>1, <2>3, <3>1, WriteInOrder DEF Writing
  <2> QED BY <2>2, <2>3
<1>6. DumpTypeOK'
  BY <1>1, <1>b, <1>2, <1>3, <1>4, <1>5 DEF DumpInv, DumpTypeOK
<1>7. DumpsNumbered'
  BY <1>1, <1>2, <1>3, <1>4 DEF DumpInv, DumpsNumbered, Writing
<1>8. ASSUME NEW d \in Callers PROVE DumpPlace(d)'
  <2>1. CASE d # c
    <3>1. Writing(d) => writers'[dump[d].number] = writers[dump[d].number]
      <4>1. ASSUME Writing(d) PROVE dump[d].number \in 1 .. MaxDumps /\ dump[d].number # m
        <5>1. dump[d].number \in 1 .. dumps /\ dumps \in 0 .. MaxDumps
          BY <4>1 DEF DumpInv, DumpsNumbered, DumpTypeOK
        <5>2. dump[d].number # m
          BY <1>1, <2>1, <4>1 DEF DumpInv, DumpsNumbered, Writing
        <5> QED BY <5>1, <5>2, DumpBoundsAssumption
      <4> QED BY <1>5, <4>1
    <3> QED BY <1>1, <1>2, <1>4, <2>1, <3>1, OtherPlaceStays DEF DumpInv
  <2>2. CASE d = c
    BY <1>2, <2>2 DEF DumpPlace, Writing
  <2> QED BY <2>1, <2>2
<1>9. DumpEntries'
  <2>1. ASSUME NEW p \in DOMAIN emitters, Added(c, p)
        PROVE  \E n \in DOMAIN dumped' : dumped'[n].address = p /\ dumped'[n].exception # "none"
    BY <1>1, <1>b, <1>4, <2>1 DEF Added
  <2>2. ASSUME NEW p \in DOMAIN emitters
        PROVE  \/ \E d \in Callers : Added(d, p)'
               \/ \E n \in DOMAIN dumped' : dumped'[n].address = p /\ dumped'[n].exception # "none"
    <3>1. DumpEntries /\ emitters'[p] = emitters[p]
      BY <1>1 DEF DumpInv
    <3>2. Added(c, p) => \E n \in DOMAIN dumped' : dumped'[n].address = p /\ dumped'[n].exception # "none"
      BY <2>1
    <3>3. \A n \in DOMAIN dumped : n \in DOMAIN dumped' /\ dumped'[n] = dumped[n]
      BY <1>4
    <3> HIDE DEF m
    <3> QED BY <1>2, <3>1, <3>2, <3>3, OtherAddedStays
  <2> QED BY <1>1, <2>2 DEF DumpEntries
<1>10. DumpsReturnAll'
  <2>1. DOMAIN dumped \subseteq 1 .. MaxDumps
    BY DEF DumpInv, DumpTypeOK
  <2> HIDE DEF m
  <2>2. ASSUME NEW n \in DOMAIN dumped, ~dumped[n].lost
        PROVE  /\ InOrder(n, writers'[n])
               /\ dumped[n].exception = "none" => Len(writers'[n]) = dumped[n].documents
    BY <1>3, <1>5, <2>1, <2>2 DEF DumpInv, DumpsReturnAll, InOrder
  <2> QED BY <1>b, <1>d, <1>4, <2>2 DEF DumpsReturnAll, InOrder
<1>11. AbortsFollowFailures'
  BY <1>1, <1>4 DEF DumpInv, AbortsFollowFailures, Dumping!AbortsFollowFailures
<1> QED BY <1>5, <1>6, <1>7, <1>8, <1>9, <1>10, <1>11 DEF DumpInv

-----------------------------------------------------------------------------
(***************************************************************************)
(* The heap.                                                               *)
(***************************************************************************)

(* Whoever goes on keeps its address, and it stays allocated.              *)
LEMMA OwnedStays ==
    ASSUME Owned,
           \A c \in Callers : Parsing(c)' => /\ Parsing(c) /\ call'[c].address = call[c].address
                                             /\ call[c].address \in allocated',
           \A c \in Callers : Writing(c)' => /\ Writing(c) /\ dump'[c].address = dump[c].address
                                             /\ dump[c].address \in allocated'
    PROVE  Owned'
BY DEF Owned

(* A new native parser or emitter is at an address nobody has.             *)
LEMMA OwnedGrows ==
    ASSUME Owned, NEW c \in Callers, NEW p, p \notin allocated, allocated' = allocated \cup {p},
           \/ /\ UNCHANGED dump /\ call'[c].address = p
              /\ \A d \in Callers : d # c => call'[d] = call[d]
           \/ /\ UNCHANGED call /\ dump'[c].address = p
              /\ \A d \in Callers : d # c => dump'[d] = dump[d]
    PROVE  Owned'
<1>1. \A d \in Callers : /\ Parsing(d) => call[d].address \in allocated /\ call[d].address # p
                         /\ Writing(d) => dump[d].address \in allocated /\ dump[d].address # p
  BY DEF Owned
<1>2. CASE /\ UNCHANGED dump /\ call'[c].address = p
           /\ \A d \in Callers : d # c => call'[d] = call[d]
  BY <1>1, <1>2 DEF Owned, Parsing, Writing
<1>3. CASE /\ UNCHANGED call /\ dump'[c].address = p
           /\ \A d \in Callers : d # c => dump'[d] = dump[d]
  BY <1>1, <1>3 DEF Owned, Parsing, Writing
<1> QED BY <1>2, <1>3

(* What a step inside a call of Parse does to the heap.                    *)
LEMMA ParseStepOwned ==
    ASSUME TypeOK, Owned, NEW c \in Callers, Step(c), UNCHANGED dump
    PROVE  Owned' /\ allocated' \subseteq Addresses
<1>1. call \in [Callers -> Call] /\ allocated \subseteq Addresses
  BY DEF TypeOK
<1>2. CASE Destroy(c)
  <2>1. /\ call[c].pc = "destroy" /\ allocated' = allocated \ {call[c].address}
        /\ call' = [call EXCEPT ![c] = Idle]
    BY <1>2 DEF Destroy, Finish
  <2>2. call'[c].pc = "idle" /\ \A d \in Callers : d # c => call'[d] = call[d]
    BY <1>1, <2>1, IdleCall
  <2>3. \A d \in Callers : Parsing(d)' => /\ Parsing(d) /\ call'[d].address = call[d].address
                                          /\ call[d].address \in allocated'
    BY <2>1, <2>2 DEF Owned, Parsing
  <2>4. \A d \in Callers : Writing(d)' => /\ Writing(d) /\ dump'[d].address = dump[d].address
                                          /\ dump[d].address \in allocated'
    BY <2>1 DEF Owned, Parsing, Writing
  <2> QED BY <1>1, <2>1, <2>3, <2>4, OwnedStays
<1>3. CASE ~Destroy(c)
  <2>1. UNCHANGED allocated /\ Parsing(c)
    BY <1>3 DEF Step, Register, ParseYamlEvent, ParseEnds, Collect, Remove, Parsing
  <2>2. /\ call'[c].address = call[c].address
        /\ \A d \in Callers : d # c => call'[d] = call[d]
    <3>1. CASE Register(c)
      BY <1>1, <3>1, GoToFields, ThrowFields DEF Register, PC, Exception
    <3>2. CASE ParseYamlEvent(c)
      <4>1. CASE Throw(c, "Error parsing YAML")
        BY <1>1, <4>1, ThrowFields DEF Exception
      <4>2. CASE call' = [call EXCEPT ![c].events = @ - 1]
        <5>1. call'[c] = [call[c] EXCEPT !.events = @ - 1] /\ call[c] \in Call
          BY <1>1, <4>2
        <5> QED BY <1>1, <4>2, <5>1 DEF Call
      <4> QED BY <3>2, <4>1, <4>2 DEF ParseYamlEvent
    <3>3. CASE ParseEnds(c)
      BY <1>1, <3>3, GoToFields, ThrowFields DEF ParseEnds, PC, Exception
    <3>4. CASE Collect(c)
      <4>1. CASE Throw(c, "KeyNotFoundException")
        BY <1>1, <4>1, ThrowFields DEF Exception
      <4>2. CASE call' = [call EXCEPT ![c].pc = "remove", ![c].documents = parsers[call[c].address]]
        <5>1. /\ call'[c] = [call[c] EXCEPT !.pc = "remove", !.documents = parsers[call[c].address]]
              /\ call[c] \in Call
          BY <1>1, <4>2
        <5> QED BY <1>1, <4>2, <5>1 DEF Call
      <4> QED BY <3>4, <4>1, <4>2 DEF Collect
    <3>5. CASE Remove(c)
      BY <1>1, <3>5, GoToFields DEF Remove, PC
    <3> QED BY <1>3, <3>1, <3>2, <3>3, <3>4, <3>5 DEF Step
  <2>3. \A d \in Callers : Parsing(d)' => /\ Parsing(d) /\ call'[d].address = call[d].address
                                          /\ call[d].address \in allocated'
    BY <2>1, <2>2 DEF Owned, Parsing
  <2>4. \A d \in Callers : Writing(d)' => /\ Writing(d) /\ dump'[d].address = dump[d].address
                                          /\ dump[d].address \in allocated'
    BY <2>1 DEF Owned, Writing
  <2> QED BY <1>1, <2>1, <2>3, <2>4, OwnedStays
<1> QED BY <1>2, <1>3

(* The same of Dump.                                                       *)
LEMMA DumpStepOwned ==
    ASSUME TypeOK, DumpInv, Owned, NEW c \in Callers, Dumping!DumpStep(c), UNCHANGED call
    PROVE  Owned' /\ allocated' \subseteq Addresses
<1>1. /\ dump \in [Callers -> DumpRecord] /\ dump[c] \in DumpRecord /\ allocated \subseteq Addresses
  BY DEF TypeOK, DumpInv, DumpTypeOK
<1>2. CASE Dumping!DestroyEmitter(c) /\ dump[c].started
  <2>1. /\ dump[c].pc = "destroy" /\ allocated' = allocated \ {dump[c].address}
        /\ dump' = [dump EXCEPT ![c] = Dumping!NoDump]
    BY <1>2 DEF Dumping!DestroyEmitter, Dumping!At, Dumping!EndDump
  <2>2. dump'[c].pc = "idle" /\ \A d \in Callers : d # c => dump'[d] = dump[d]
    BY <1>1, <2>1, NoDumpFields
  <2>3. \A d \in Callers : Writing(d)' => /\ Writing(d) /\ dump'[d].address = dump[d].address
                                          /\ dump[d].address \in allocated'
    BY <2>1, <2>2 DEF Owned, Writing
  <2>4. \A d \in Callers : Parsing(d)' => /\ Parsing(d) /\ call'[d].address = call[d].address
                                          /\ call[d].address \in allocated'
    BY <2>1 DEF Owned, Parsing, Writing
  <2> QED BY <1>1, <2>1, <2>3, <2>4, OwnedStays
<1>3. CASE Dumping!DestroyEmitter(c) /\ ~dump[c].started
  <2>1. UNCHANGED <<allocated, dump>>
    BY <1>1, <1>3, AbortDump
  <2> QED BY <1>1, <2>1, OwnedStays DEF Owned, Parsing, Writing
<1>4. CASE ~Dumping!DestroyEmitter(c)
  <2>1. UNCHANGED allocated /\ Writing(c)
    BY <1>4 DEF Dumping!DumpStep, Dumping!AddEmitter, Dumping!StartStream, Dumping!GenerateDocument,
                Dumping!FlushDocument, Dumping!RemoveEmitter, Dumping!At, Writing
  <2>2. /\ dump'[c].address = dump[c].address
        /\ \A d \in Callers : d # c => dump'[d] = dump[d]
    <3>1. CASE Dumping!AddEmitter(c)
      BY <1>1, <3>1, DumpGoesToFields, DumpGoesFields
         DEF Dumping!AddEmitter, Dumping!DumpThrows, Dumping!DumpPC, DumpException
    <3>2. CASE Dumping!StartStream(c)
      <4>1. /\ dump'[c] = [dump[c] EXCEPT !.started = TRUE, !.pc = "document"]
            /\ \A d \in Callers : d # c => dump'[d] = dump[d]
        BY <1>1, <3>2 DEF Dumping!StartStream
      <4> QED BY <1>1, <4>1 DEF DumpRecord
    <3>3. CASE Dumping!GenerateDocument(c)
      <4> DEFINE w == Append(dump[c].buffer, <<dump[c].number, dump[c].next>>)
                 e == "Failed to initialize YAML serialization event"
                 f == [dump[c] EXCEPT !.buffer = w, !.pc = "flush", !.next = dump[c].next + 1]
                 g == [dump[c] EXCEPT !.buffer = w, !.pc = "destroy", !.exception = e]
      <4>1. \/ Dumping!DumpGoesTo(c, "remove")
            \/ dump' = [[dump EXCEPT ![c].buffer = Append(@, <<dump[c].number, dump[c].next>>)]
                           EXCEPT ![c].pc = "destroy", ![c].exception = e]
            \/ dump' = [[dump EXCEPT ![c].buffer = Append(@, <<dump[c].number, dump[c].next>>)]
                           EXCEPT ![c].pc = "flush", ![c].next = @ + 1]
        BY <3>3, Zenon DEF Dumping!GenerateDocument
      <4>2. \/ Dumping!DumpGoesTo(c, "remove")
            \/ dump' = [dump EXCEPT ![c] = g]
            \/ dump' = [dump EXCEPT ![c] = f]
        <5>1. ASSUME dump' = [[dump EXCEPT ![c].buffer = Append(@, <<dump[c].number, dump[c].next>>)]
                                 EXCEPT ![c].pc = "destroy", ![c].exception = e]
              PROVE  dump' = [dump EXCEPT ![c] = g]
          BY <1>1, <5>1
        <5>2. ASSUME dump' = [[dump EXCEPT ![c].buffer = Append(@, <<dump[c].number, dump[c].next>>)]
                                 EXCEPT ![c].pc = "flush", ![c].next = @ + 1]
              PROVE  dump' = [dump EXCEPT ![c] = f]
          BY <1>1, <5>2
        <5> HIDE DEF e, f, g
        <5> QED BY <4>1, <5>1, <5>2, Zenon
      <4>3. f.address = dump[c].address /\ g.address = dump[c].address
        BY <1>1 DEF DumpRecord
      <4>4. CASE Dumping!DumpGoesTo(c, "remove")
        BY <1>1, <4>4, DumpGoesToFields DEF Dumping!DumpPC
      <4>5. CASE dump' = [dump EXCEPT ![c] = f] \/ dump' = [dump EXCEPT ![c] = g]
        <5> HIDE DEF f, g
        <5> QED BY <1>1, <4>3, <4>5
      <4> QED BY <4>2, <4>4, <4>5
    <3>4. CASE Dumping!FlushDocument(c)
      <4>1. PICK b \in {<<>>, dump[c].buffer}, l \in {dump[c].lost, TRUE} :
               dump' = [dump EXCEPT ![c] = [[dump[c] EXCEPT !.pc = "document"]
                                              EXCEPT !.buffer = b, !.lost = l]]
        BY <3>4 DEF Dumping!FlushDocument
      <4>2. b \in Seq(Chunk) /\ l \in BOOLEAN
        BY <1>1, <4>1, EmptySeq DEF DumpRecord
      <4> QED BY <1>1, <4>1, <4>2, FlushFields
    <3>5. CASE Dumping!RemoveEmitter(c)
      BY <1>1, <3>5, DumpGoesToFields DEF Dumping!RemoveEmitter, Dumping!DumpPC
    <3> QED BY <1>4, <3>1, <3>2, <3>3, <3>4, <3>5 DEF Dumping!DumpStep
  <2>3. \A d \in Callers : Writing(d)' => /\ Writing(d) /\ dump'[d].address = dump[d].address
                                          /\ dump[d].address \in allocated'
    BY <2>1, <2>2 DEF Owned, Writing
  <2>4. \A d \in Callers : Parsing(d)' => /\ Parsing(d) /\ call'[d].address = call[d].address
                                          /\ call[d].address \in allocated'
    BY <2>1 DEF Owned, Parsing
  <2> QED BY <1>1, <2>1, <2>3, <2>4, OwnedStays
<1> QED BY <1>2, <1>3, <1>4

-----------------------------------------------------------------------------
(***************************************************************************)
(* The invariant of the two together.                                      *)
(***************************************************************************)
LEMMA InitInv == InteropInit => Inv
<1> SUFFICES ASSUME InteropInit PROVE Inv
  OBVIOUS
<1>1. /\ allocated = {} /\ DOMAIN parsers = {} /\ calls = 0 /\ DOMAIN finished = {}
      /\ call \in [Callers -> Call] /\ \A c \in Callers : call[c] = Idle
  BY IdleCall DEF InteropInit, Init
<1>2. /\ DOMAIN emitters = {} /\ dumps = 0 /\ DOMAIN dumped = {} /\ aborted = Null
      /\ dump \in [Callers -> DumpRecord] /\ \A c \in Callers : dump[c] = Dumping!NoDump
      /\ writers = [n \in 1 .. MaxDumps |-> <<>>]
  BY NoDumpFields DEF InteropInit, Dumping!DumpInit
<1>3. ParseInv
  BY <1>1, IdleCall, BoundsAssumption
     DEF ParseInv, TypeOK, ParsesNumbered, Parsing, ParsePlace, ParseEntries, ParsesReturnTheirOwn
<1>4. writers \in [1 .. MaxDumps -> Seq(Chunk)] /\ \A n \in 1 .. MaxDumps : writers[n] = <<>>
  BY <1>2, EmptySeq
<1>5. DumpInv
  <2>1. DumpTypeOK /\ DumpsNumbered /\ DumpEntries /\ DumpsReturnAll /\ AbortsFollowFailures
    BY <1>2, <1>4, NoDumpFields, DumpBoundsAssumption
       DEF DumpTypeOK, DumpsNumbered, DumpEntries, DumpsReturnAll, AbortsFollowFailures,
           Dumping!AbortsFollowFailures, Writing
  <2>2. WritersOwn
    BY <1>4 DEF WritersOwn
  <2>3. \A c \in Callers : DumpPlace(c)
    BY <1>2, NoDumpFields DEF DumpPlace, Writing
  <2> QED BY <2>1, <2>2, <2>3 DEF DumpInv
<1>6. Owned
  BY <1>1, <1>2, IdleCall, NoDumpFields DEF Owned, Parsing, Writing
<1> QED BY <1>3, <1>5, <1>6 DEF Inv

LEMMA ParsesInv ==
    ASSUME Inv, NEW c \in Callers, Parses(c)
    PROVE  Inv'
<1>1. ParseInv /\ DumpInv /\ Owned /\ TypeOK /\ allocated \subseteq Addresses
      /\ call \in [Callers -> Call] /\ UNCHANGED dumpVars
  BY DEF Inv, ParseInv, TypeOK, Parses
<1>2. DumpInv' /\ UNCHANGED dump
  BY <1>1, DumpInvFrame DEF dumpVars
<1>3. CASE Create(c)
  <2>1. PICK text \in Text, events \in 1..MaxEvents, p \in Addresses \ allocated :
          /\ allocated' = allocated \cup {p}
          /\ call' = [call EXCEPT ![c] = NewCall(text, events, p)]
    BY <1>3 DEF Create
  <2>2. NewCall(text, events, p).address = p
    BY <1>1, <1>3, NewCallFields, BoundsAssumption DEF Create, TypeOK
  <2>3. call'[c].address = p /\ \A d \in Callers : d # c => call'[d] = call[d]
    BY <1>1, <2>1, <2>2
  <2>4. Owned'
    BY <1>1, <1>2, <2>1, <2>3, OwnedGrows
  <2> QED BY <1>1, <1>2, <1>3, <2>4, CreateParse DEF Inv
<1>4. CASE CreateFails(c)
  <2>1. allocated \subseteq allocated' /\ allocated' \subseteq Addresses
    BY <1>1, <1>4 DEF CreateFails
  <2>2. call' = [call EXCEPT ![c] = Idle]
    BY <1>4 DEF CreateFails, Finish
  <2>3. call'[c].pc = "idle" /\ \A d \in Callers : d # c => call'[d] = call[d]
    BY <1>1, <2>2, IdleCall
  <2>4. Owned'
    BY <1>1, <1>2, <2>1, <2>3, OwnedStays DEF Owned, Parsing, Writing
  <2> QED BY <1>1, <1>2, <1>4, <2>1, <2>4, CreateFailsParse DEF Inv
<1>5. CASE Step(c)
  <2>1. Owned' /\ allocated' \subseteq Addresses
    BY <1>1, <1>2, <1>5, ParseStepOwned
  <2>2. ParseInv'
    BY <1>1, <1>5, RegisterParse, EventParse, EndsParse, CollectParse, RemoveParse, DestroyParse
       DEF Step
  <2> QED BY <1>2, <2>1, <2>2 DEF Inv
<1> QED BY <1>3, <1>4, <1>5 DEF Parses

LEMMA DumpsInv ==
    ASSUME Inv, NEW c \in Callers, Dumps(c)
    PROVE  Inv'
<1>1. ParseInv /\ DumpInv /\ Owned /\ TypeOK /\ allocated \subseteq Addresses
      /\ dump \in [Callers -> DumpRecord] /\ UNCHANGED <<parsers, call, calls, finished>>
  BY DEF Inv, ParseInv, TypeOK, DumpInv, DumpTypeOK, Dumps
<1>2. CASE Dumping!CreateEmitter(c)
  <2>1. PICK documents \in 0 .. MaxDocuments, p \in Addresses \ allocated :
           \E bad \in 0 .. documents :
              /\ allocated' = allocated \cup {p}
              /\ dump' = [dump EXCEPT ![c] = Dumping!DumpCall(dumps + 1, documents, bad, p)]
    BY <1>2 DEF Dumping!CreateEmitter
  <2>2. PICK bad \in 0 .. documents :
           /\ allocated' = allocated \cup {p}
           /\ dump' = [dump EXCEPT ![c] = Dumping!DumpCall(dumps + 1, documents, bad, p)]
    BY <2>1
  <2>3. dumps + 1 \in 0 .. MaxDumps
    BY <1>1, <1>2, DumpBoundsAssumption DEF Dumping!CreateEmitter, DumpInv, DumpTypeOK
  <2>4. Dumping!DumpCall(dumps + 1, documents, bad, p).address = p
    BY <2>3, DumpCallFields
  <2>5. dump'[c].address = p /\ \A d \in Callers : d # c => dump'[d] = dump[d]
    BY <1>1, <2>2, <2>4
  <2>6. Owned'
    BY <1>1, <2>2, <2>5, OwnedGrows
  <2>7. ParseInv'
    BY <1>1, <2>2, ParseInvFrame
  <2> QED BY <1>1, <1>2, <2>6, <2>7, CreateDump DEF Inv
<1>3. CASE Dumping!CreateEmitterFails(c)
  <2>1. allocated \subseteq allocated' /\ allocated' \subseteq Addresses
    BY <1>1, <1>3 DEF Dumping!CreateEmitterFails
  <2>2. dump' = [dump EXCEPT ![c] = Dumping!NoDump]
    BY <1>3 DEF Dumping!CreateEmitterFails, Dumping!EndDump
  <2>3. dump'[c].pc = "idle" /\ \A d \in Callers : d # c => dump'[d] = dump[d]
    BY <1>1, <2>2, NoDumpFields
  <2>4. Owned'
    BY <1>1, <2>1, <2>3, OwnedStays DEF Owned, Parsing, Writing
  <2> QED BY <1>1, <1>3, <2>1, <2>4, CreateFailsDump, ParseInvFrame DEF Inv
<1>4. CASE Dumping!DumpStep(c)
  <2>1. Owned' /\ allocated' \subseteq Addresses
    BY <1>1, <1>4, DumpStepOwned
  <2>2. DumpInv'
    BY <1>1, <1>4, AddDump, StartStreamDump, GenerateDump, FlushDump, RemoveDump, AbortDump,
       DestroyDump
       DEF Dumping!DumpStep
  <2> QED BY <1>1, <2>1, <2>2, ParseInvFrame DEF Inv
<1> QED BY <1>2, <1>3, <1>4 DEF Dumps

LEMMA NextInv == Inv /\ [InteropNext]_interopVars => Inv'
<1> SUFFICES ASSUME Inv, [InteropNext]_interopVars PROVE Inv'
  OBVIOUS
<1>1. CASE UNCHANGED interopVars
  <2>1. UNCHANGED dumpVars /\ UNCHANGED <<allocated, parsers, call, calls, finished>>
    BY <1>1 DEF interopVars, vars
  <2>2. allocated' \subseteq Addresses
    BY <2>1 DEF Inv, ParseInv, TypeOK
  <2>3. Owned'
    BY <2>1 DEF Inv, Owned, Parsing, Writing, dumpVars
  <2> QED BY <2>1, <2>2, <2>3, DumpInvFrame, ParseInvFrame DEF Inv
<1>2. CASE InteropNext
  BY <1>2, ParsesInv, DumpsInv DEF InteropNext
<1> QED BY <1>1, <1>2

(* The invariant holds however the threads run.                            *)
THEOREM InteropInvariantHolds == InteropSpec => []Inv
<1> QED BY InitInv, NextInv, PTL DEF InteropSpec

(* Type correctness of NativeParser's registry and calls, with calls of    *)
(* Dump on the same heap.                                                  *)
THEOREM InteropTypeCorrect == InteropSpec => []TypeOK
<1>1. Inv => TypeOK
  BY DEF Inv, ParseInv
<1> QED BY <1>1, InteropInvariantHolds, PTL

(* Between parsers.Add and parsers.Remove the callback of a call of Parse  *)
(* finds the builder of that call, and the documents it returns are its    *)
(* own, for any number of threads that parse and dump, and whatever        *)
(* addresses malloc gives out again.                                       *)
THEOREM ParsesDoNotMix == InteropSpec => []CallsDoNotMix
<1>1. Inv => CallsDoNotMix
  BY DEF Inv, ParseInv, ParsePlace, ParsesReturnTheirOwn, CallsDoNotMix
<1> QED BY <1>1, InteropInvariantHolds, PTL

(* Only calls in progress and calls that threw for their text have an      *)
(* entry in the dictionary of parsers.                                     *)
THEOREM EntriesAreOfFailures == InteropSpec => []SuccessLeavesNoEntry
<1>1. Inv => SuccessLeavesNoEntry
  BY DEF Inv, ParseInv, ParseEntries, Registered, SuccessLeavesNoEntry
<1> QED BY <1>1, InteropInvariantHolds, PTL

(* A YamlWriter holds text of its own call only, whatever Emits fail; and  *)
(* it is the text of the call's documents in order, of all of them when    *)
(* the call returns, unless an Emit of that call has failed.               *)
THEOREM WritersAreWhole == InteropSpec => []DumpsAreWhole
<1>1. Inv => DumpsAreWhole
  <2> SUFFICES ASSUME Inv PROVE DumpsAreWhole
    OBVIOUS
  <2>1. ASSUME NEW n \in 1 .. MaxDumps PROVE DOMAIN writers[n] = 1 .. Len(writers[n])
    <3>1. writers[n] \in Seq(Chunk)
      BY DEF Inv, DumpInv, DumpTypeOK
    <3> QED BY <3>1, LenProperties
  <2>2. DOMAIN dumped \subseteq 1 .. MaxDumps
    BY DEF Inv, DumpInv, DumpTypeOK
  <2> QED BY <2>1, <2>2
          DEF Inv, DumpInv, WritersOwn, InOrder, DumpsReturnAll, DumpsAreWhole, Dumping!DumpsAreWhole
<1> QED BY <1>1, InteropInvariantHolds, PTL

(* The assertion on the encoding of an emitter that was given no event     *)
(* ends the process only where an earlier call of Dump, with an emitter at *)
(* the same address, has thrown.                                           *)
THEOREM AbortsOnlyAfterFailures == InteropSpec => []AbortsFollowFailures
<1>1. Inv => AbortsFollowFailures
  BY DEF Inv, DumpInv
<1> QED BY <1>1, InteropInvariantHolds, PTL

=============================================================================
