---------------------------- MODULE NativeParser ----------------------------
(***************************************************************************)
(* NetYaml's NativeParser.cs with the life of a native parser in           *)
(* interop.cpp: calls of Parse register the builder of their documents     *)
(* under the address of their native parser, where the callback finds it.  *)
(*                                                                         *)
(* Calls of different callers interleave between the operations on the     *)
(* static dictionary; each operation is atomic.                            *)
(***************************************************************************)
EXTENDS Naturals, FiniteSets

CONSTANTS Callers,    \* the threads that call Parse
          Addresses,  \* what malloc returns, free addresses first come first served
          Null,       \* no address, no call
          MaxCalls,   \* BOUND on the number of calls
          MaxEvents   \* BOUND on the number of events of a text

ASSUME BoundsAssumption == MaxCalls \in Nat \ {0} /\ MaxEvents \in Nat \ {0}
ASSUME NullAssumption == Null \notin Addresses

VARIABLES allocated,  \* addresses of native parsers not yet freed
          parsers,    \* the dictionary: address -> builder
          call,       \* each caller's call in progress
          calls,      \* the number of calls so far
          finished    \* the calls that have returned or thrown, by number

vars == <<allocated, parsers, call, calls, finished>>

(* What a text does: the parser reads it, refuses it (-1), or the handler  *)
(* refuses one of its events (1).                                          *)
Text == {"valid", "malformed", "refused"}

PC == {"idle", "register", "parse", "collect", "remove", "destroy"}

Exception == {"none", "Failed to create a native parser",
              "ArgumentException",      \* Add of a key the dictionary has
              "KeyNotFoundException",   \* parsers[pNativeParser] of one it lacks
              "Error parsing YAML"}

(* A builder is named by the number of the call that made it; documents    *)
(* are those of a builder.                                                 *)
Call == [pc : PC, number : 1..MaxCalls, text : Text, events : 0..MaxEvents,
         address : Addresses \cup {Null}, documents : 0..MaxCalls, exception : Exception]

Idle == [pc |-> "idle", number |-> 1, text |-> "valid", events |-> 0,
         address |-> Null, documents |-> 0, exception |-> "none"]

-----------------------------------------------------------------------------
Init == /\ allocated = {}
        /\ parsers = [p \in {} |-> 0]
        /\ call = [c \in Callers |-> Idle]
        /\ calls = 0
        /\ finished = [n \in {} |-> Idle]

(* The call of c goes on at pc.                                            *)
GoTo(c, pc) == call' = [call EXCEPT ![c].pc = pc]

(* An exception in the try block: the finally block is next.               *)
Throw(c, exception) == call' = [call EXCEPT ![c].pc = "destroy",
                                            ![c].exception = exception]

Finish(c, record) == /\ finished' = [n \in DOMAIN finished \cup {record.number} |->
                                        IF n = record.number THEN record ELSE finished[n]]
                     /\ call' = [call EXCEPT ![c] = Idle]

Without(p) == [q \in DOMAIN parsers \ {p} |-> parsers[q]]

(* Mutant of NewCall: the call goes by the number of the one before it.    *)
NewCallLate(text, events, address) ==
    [Idle EXCEPT !.pc = "register", !.number = calls, !.text = text,
                 !.events = events, !.address = address]

NewCall(text, events, address) ==
    [Idle EXCEPT !.pc = "register", !.number = calls + 1, !.text = text,
                 !.events = events, !.address = address]

(* parser_create succeeds.                                                 *)
Create(c) ==
    /\ call[c].pc = "idle" /\ calls < MaxCalls
    /\ \E text \in Text, events \in 1..MaxEvents, p \in Addresses \ allocated :
          /\ allocated' = allocated \cup {p}
          /\ call' = [call EXCEPT ![c] = NewCall(text, events, p)]
    /\ calls' = calls + 1
    /\ UNCHANGED <<parsers, finished>>

(* malloc fails, or yaml_parser_initialize does: then the memory of the    *)
(* parser is not freed, for the exception comes before the try block.      *)
CreateFails(c) ==
    /\ call[c].pc = "idle" /\ calls < MaxCalls
    /\ \E text \in Text :
          Finish(c, [NewCall(text, 0, Null) EXCEPT
                        !.exception = "Failed to create a native parser"])
    /\ \/ UNCHANGED allocated
       \/ \E p \in Addresses \ allocated : allocated' = allocated \cup {p}
    /\ calls' = calls + 1
    /\ UNCHANGED parsers

(* Mutant of Register: a builder already there is kept, and no exception.  *)
RegisterIfAbsent(c) ==
    /\ call[c].pc = "register"
    /\ parsers' = [p \in DOMAIN parsers \cup {call[c].address} |->
                      IF p \in DOMAIN parsers THEN parsers[p] ELSE call[c].number]
    /\ GoTo(c, "parse")
    /\ UNCHANGED <<allocated, calls, finished>>

(* parsers.Add(pNativeParser, builder)                                     *)
Register(c) ==
    /\ call[c].pc = "register"
    /\ IF call[c].address \in DOMAIN parsers
       THEN Throw(c, "ArgumentException") /\ UNCHANGED parsers
       ELSE /\ parsers' = [p \in DOMAIN parsers \cup {call[c].address} |->
                              IF p = call[c].address THEN call[c].number ELSE parsers[p]]
            /\ GoTo(c, "parse")
    /\ UNCHANGED <<allocated, calls, finished>>

(* One event goes to the callback, which looks up the builder; what it     *)
(* returns, not 0, ends the loop of parser_parse.                          *)
ParseYamlEvent(c) ==
    /\ call[c].pc = "parse" /\ call[c].events > 0
    /\ IF call[c].address \notin DOMAIN parsers \/ (call[c].events = 1 /\ call[c].text = "refused")
       THEN Throw(c, "Error parsing YAML")
       ELSE call' = [call EXCEPT ![c].events = @ - 1]
    /\ UNCHANGED <<allocated, parsers, calls, finished>>

(* Mutant of ParseEnds: the loop goes on when yaml_parser_parse returns 0. *)
ParseEndsIfValid(c) ==
    /\ call[c].pc = "parse" /\ call[c].events = 0
    /\ IF call[c].text = "valid" THEN GoTo(c, "collect") ELSE UNCHANGED call
    /\ UNCHANGED <<allocated, parsers, calls, finished>>

(* The events are all there, or the text has none of the one expected.     *)
ParseEnds(c) ==
    /\ call[c].pc = "parse" /\ call[c].events = 0
    /\ IF call[c].text = "valid" THEN GoTo(c, "collect") ELSE Throw(c, "Error parsing YAML")
    /\ UNCHANGED <<allocated, parsers, calls, finished>>

(* documents = parsers[pNativeParser].Documents                            *)
Collect(c) ==
    /\ call[c].pc = "collect"
    /\ IF call[c].address \in DOMAIN parsers
       THEN call' = [call EXCEPT ![c].pc = "remove",
                                 ![c].documents = parsers[call[c].address]]
       ELSE Throw(c, "KeyNotFoundException")
    /\ UNCHANGED <<allocated, parsers, calls, finished>>

(* Mutant of Remove: only the parser is destroyed.                         *)
RemoveNothing(c) ==
    /\ call[c].pc = "remove"
    /\ GoTo(c, "destroy")
    /\ UNCHANGED <<allocated, parsers, calls, finished>>

(* parsers.Remove(pNativeParser)                                           *)
Remove(c) ==
    /\ call[c].pc = "remove"
    /\ parsers' = Without(call[c].address)
    /\ GoTo(c, "destroy")
    /\ UNCHANGED <<allocated, calls, finished>>

(* DestroyParser in the finally block; then the call returns or throws.    *)
Destroy(c) ==
    /\ call[c].pc = "destroy"
    /\ allocated' = allocated \ {call[c].address}
    /\ Finish(c, call[c])
    /\ UNCHANGED <<parsers, calls>>

Step(c) == \/ Register(c) \/ ParseYamlEvent(c) \/ ParseEnds(c)
           \/ Collect(c) \/ Remove(c) \/ Destroy(c)

Next == \E c \in Callers : Create(c) \/ CreateFails(c) \/ Step(c)

Spec == Init /\ [][Next]_vars

-----------------------------------------------------------------------------
(***************************************************************************)
(* Properties.                                                             *)
(***************************************************************************)

(* Type correctness of the registry and the calls.                         *)
TypeOK == /\ allocated \subseteq Addresses
          /\ DOMAIN parsers \subseteq Addresses
          /\ \A p \in DOMAIN parsers : parsers[p] \in 1..MaxCalls
          /\ call \in [Callers -> Call]
          /\ calls \in 0..MaxCalls
          /\ DOMAIN finished \subseteq 1..MaxCalls
          /\ \A n \in DOMAIN finished : finished[n] \in Call

(* Between Add and Remove the callback of a call finds the builder of that *)
(* call and no other, whatever other calls do and whatever addresses come  *)
(* again; the documents a call returns are its own.                        *)
CallsDoNotMix ==
    /\ \A c \in Callers : call[c].pc \in {"parse", "collect", "remove"} =>
          /\ call[c].address \in DOMAIN parsers
          /\ parsers[call[c].address] = call[c].number
    /\ \A n \in DOMAIN finished :
          finished[n].exception = "none" => finished[n].documents = n

(* A call that succeeds leaves no entry: an entry belongs to a call in     *)
(* progress or to one whose text could not be parsed.                      *)
SuccessLeavesNoEntry ==
    \A p \in DOMAIN parsers :
       \/ \E c \in Callers : call[c].number = parsers[p] /\ call[c].address = p
       \/ /\ parsers[p] \in DOMAIN finished
          /\ finished[parsers[p]].exception = "Error parsing YAML"

(* What the README's example says of Yaml.Parse: a text the parser reads   *)
(* is parsed, whatever was parsed before it (README.md:22).                *)
ValidTextParses ==
    \A n \in DOMAIN finished :
       finished[n].text = "valid" =>
          finished[n].exception \in {"none", "Failed to create a native parser"}
=============================================================================
