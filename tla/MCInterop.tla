------------------------------ MODULE MCInterop ------------------------------
(***************************************************************************)
(* Threads that call Yaml.Parse and Yaml.Dump: the native parsers and      *)
(* emitters come from one heap, so an address may be a parser's and later  *)
(* an emitter's.  A thread is in one call at a time.                       *)
(***************************************************************************)
EXTENDS NativeParser

CONSTANTS t1, t2, p1, p2,
          MaxDumps,      \* BOUND on the number of calls of Dump
          MaxBoth,       \* BOUND on that of calls of Parse and Dump together
          MaxDocuments,  \* BOUND on the documents of one
          MaxAll         \* BOUND on those of all calls together

LOCAL INSTANCE FiniteSetsExt

ASSUME DumpBoundsAssumption == MaxDumps \in Nat /\ MaxDocuments \in Nat

VARIABLES emitters, dump, dumps, writers, dumped, aborted  \* of NativeEmitter

MCCallers == {t1, t2}
MCAddresses == {p1, p2}

Dumping == INSTANCE NativeEmitter

dumpVars == <<emitters, dump, dumps, writers, dumped, aborted>>

interopVars == <<vars, dumpVars>>

AnotherCall == calls + dumps < MaxBoth

DocumentsGiven == MapThenSumSet(LAMBDA c : dump[c].documents, Callers)
                      + MapThenSumSet(LAMBDA n : dumped[n].documents, DOMAIN dumped)

InteropInit == Init /\ Dumping!DumpInit

Parses(c) ==
    /\ aborted = Null
    /\ \/ dump[c].pc = "idle" /\ AnotherCall /\ (Create(c) \/ CreateFails(c))
       \/ Step(c)
    /\ UNCHANGED dumpVars

Dumps(c) ==
    /\ \/ /\ call[c].pc = "idle" /\ AnotherCall
          /\ \/ Dumping!CreateEmitter(c) /\ DocumentsGiven' <= MaxAll
             \/ Dumping!CreateEmitterFails(c)
       \/ Dumping!DumpStep(c)
    /\ UNCHANGED <<parsers, call, calls, finished>>

InteropNext == \E c \in Callers : Parses(c) \/ Dumps(c)

InteropSpec == InteropInit /\ [][InteropNext]_interopVars

(* A thread inside a call runs on.                                         *)
FairInteropSpec ==
    /\ InteropSpec
    /\ \A c \in Callers :
          /\ WF_interopVars(aborted = Null /\ Step(c) /\ UNCHANGED dumpVars)
          /\ WF_interopVars(Dumping!DumpStep(c) /\ UNCHANGED <<parsers, call, calls, finished>>)

-----------------------------------------------------------------------------
DumpsAreWhole == Dumping!DumpsAreWhole

AbortsFollowFailures == Dumping!AbortsFollowFailures

(* Every call of Parse or Dump returns or throws, unless the process ends.  *)
EveryCallEnds ==
    \A c \in Callers :
        call[c].pc # "idle" \/ dump[c].pc # "idle"
            ~> (call[c].pc = "idle" /\ dump[c].pc = "idle") \/ aborted # Null

GoodDocumentsDump == Dumping!GoodDocumentsDump
=============================================================================
