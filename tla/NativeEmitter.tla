---------------------------- MODULE NativeEmitter ----------------------------
(***************************************************************************)
(* NetYaml's NativeEmitter.cs with the life of a native emitter in         *)
(* interop.cpp: calls of Dump register their YamlWriter under the address  *)
(* of their native emitter, where the write callback finds it.  The text   *)
(* of a document stays in the emitter's buffer until a flush hands it to   *)
(* the callback: at the end of the document, or when the emitter is        *)
(* destroyed.                                                              *)
(*                                                                         *)
(* Calls of different callers interleave between the operations on the     *)
(* static dictionary; each operation is atomic.  The delegate of the       *)
(* callback outlives the call: nothing refers to it while native code      *)
(* holds its pointer, but no collection is modelled.                       *)
(*                                                                         *)
(* Nobody looks at what Emit returns.  Once it has failed, because the     *)
(* emitter refuses an event or the callback returns 0, the call goes on,   *)
(* and text is missing without an exception.                               *)
(***************************************************************************)
EXTENDS Naturals, Sequences

CONSTANTS Callers,       \* the threads that call Dump
          Addresses,     \* what malloc returns
          Null,          \* no address
          MaxDumps,      \* BOUND on the number of calls
          MaxDocuments   \* BOUND on the documents of a call

VARIABLES allocated,     \* addresses not yet freed
          emitters,      \* the dictionary: address -> writer
          dump,          \* each caller's call in progress
          dumps,         \* the number of calls so far
          writers,       \* what each call's YamlWriter holds
          dumped,        \* the calls that have returned or thrown, by number
          aborted        \* the address of the emitter whose assertion has ended
                         \* the process, or Null

DumpPC == {"idle", "add", "stream", "document", "flush", "remove", "destroy"}

(***************************************************************************)
(* bad is the number of the document with a node no event can be made of:  *)
(* one that is null, or a scalar that is null or not UTF-8 as an ANSI      *)
(* string; 0 if there is none.  lost says that an Emit of the call has     *)
(* failed, or the flush that comes before its emitter is deleted.  A       *)
(* writer is named by its call.                                            *)
(***************************************************************************)
DumpCall(number, documents, bad, address) ==
    [pc |-> "add", number |-> number, documents |-> documents, bad |-> bad,
     address |-> address, next |-> 1, started |-> FALSE, lost |-> FALSE, buffer |-> <<>>,
     exception |-> "none"]

NoDump == [DumpCall(0, 0, 0, Null) EXCEPT !.pc = "idle"]

DumpInit == /\ emitters = [p \in {} |-> 0]
            /\ dump = [c \in Callers |-> NoDump]
            /\ dumps = 0
            /\ writers = [n \in 1 .. MaxDumps |-> <<>>]
            /\ dumped = [n \in {} |-> NoDump]
            /\ aborted = Null

-----------------------------------------------------------------------------
At(c, pc) == dump[c].pc = pc /\ aborted = Null

DumpGoesTo(c, pc) == dump' = [dump EXCEPT ![c].pc = pc]

(* An exception in the try block: the finally block is next. *)
DumpThrows(c, exception) ==
    dump' = [dump EXCEPT ![c].pc = "destroy", ![c].exception = exception]

(* A call ends; what it was for and how it went is remembered.             *)
Outcome(record) == [address |-> record.address, documents |-> record.documents,
                    lost |-> record.lost, exception |-> record.exception]

EndDump(c, record) ==
    /\ dumped' = [n \in DOMAIN dumped \cup {record.number} |->
                     IF n = record.number THEN Outcome(record) ELSE dumped[n]]
    /\ dump' = [dump EXCEPT ![c] = NoDump]

(* emitter_create succeeds. *)
CreateEmitter(c) ==
    /\ At(c, "idle") /\ dumps < MaxDumps
    /\ \E documents \in 0 .. MaxDocuments, p \in Addresses \ allocated :
          \E bad \in 0 .. documents :
             /\ allocated' = allocated \cup {p}
             /\ dump' = [dump EXCEPT ![c] = DumpCall(dumps + 1, documents, bad, p)]
    /\ dumps' = dumps + 1
    /\ UNCHANGED <<emitters, writers, dumped, aborted>>

(* malloc fails, or yaml_emitter_initialize does, whose emitter is not     *)
(* freed: the exception comes before the try block.                        *)
CreateEmitterFails(c) ==
    /\ At(c, "idle") /\ dumps < MaxDumps
    /\ EndDump(c, [DumpCall(dumps + 1, 0, 0, Null) EXCEPT
                      !.exception = "Failed to create a native emitter"])
    /\ \/ UNCHANGED allocated
       \/ \E p \in Addresses \ allocated : allocated' = allocated \cup {p}
    /\ dumps' = dumps + 1
    /\ UNCHANGED <<emitters, writers, aborted>>

(* Mutant of AddEmitter: a writer already there is kept, and no exception. *)
AddEmitterIfAbsent(c) ==
    /\ At(c, "add")
    /\ emitters' = [p \in DOMAIN emitters \cup {dump[c].address} |->
                       IF p \in DOMAIN emitters THEN emitters[p] ELSE dump[c].number]
    /\ DumpGoesTo(c, "stream")
    /\ UNCHANGED <<allocated, dumps, writers, dumped, aborted>>

(* emitters.Add(pNativeEmitter, writer) *)
AddEmitter(c) ==
    /\ At(c, "add")
    /\ IF dump[c].address \in DOMAIN emitters
       THEN DumpThrows(c, "ArgumentException") /\ UNCHANGED emitters
       ELSE /\ emitters' = [p \in DOMAIN emitters \cup {dump[c].address} |->
                               IF p = dump[c].address THEN dump[c].number ELSE emitters[p]]
            /\ DumpGoesTo(c, "stream")
    /\ UNCHANGED <<allocated, dumps, writers, dumped, aborted>>

(* STREAM-START: the emitter learns its encoding. *)
StartStream(c) ==
    /\ At(c, "stream")
    /\ dump' = [dump EXCEPT ![c].started = TRUE, ![c].pc = "document"]
    /\ UNCHANGED <<allocated, emitters, dumps, writers, dumped, aborted>>

(* The events of a document up to its end, or up to the one that cannot be *)
(* made; behind the last document STREAM-END.                              *)
GenerateDocument(c) ==
    LET d == dump[c]
        buffered == [dump EXCEPT ![c].buffer = Append(@, <<d.number, d.next>>)]
    IN  /\ At(c, "document")
        /\ \/ d.next > d.documents /\ DumpGoesTo(c, "remove")
           \/ /\ d.next <= d.documents /\ d.next = d.bad
              /\ dump' = [buffered EXCEPT ![c].pc = "destroy",
                             ![c].exception = "Failed to initialize YAML serialization event"]
           \/ /\ d.next <= d.documents /\ d.next # d.bad
              /\ dump' = [buffered EXCEPT ![c].pc = "flush", ![c].next = @ + 1]
        /\ UNCHANGED <<allocated, emitters, dumps, writers, dumped, aborted>>

(* WriteYamlContent: the text goes to the writer found at the address; if  *)
(* there is none the callback returns 0, and the text is gone.             *)
Written(c) ==
    LET p == dump[c].address
    IN  IF p \in DOMAIN emitters
        THEN [writers EXCEPT ![emitters[p]] = @ \o dump[c].buffer]
        ELSE writers

(* yaml_emitter_flush at DOCUMENT-END, with the flush of STREAM-END behind *)
(* the last document.  It turns out here whether an Emit of the document   *)
(* has failed: the text is then some of the document's, or none; when the  *)
(* callback returns 0 it is gone; and an emitter that has refused an event *)
(* does not come to the flush, and keeps it.                               *)
FlushDocument(c) ==
    LET d == [dump[c] EXCEPT !.pc = "document"]
    IN  /\ At(c, "flush")
        /\ \/ /\ writers' = Written(c)
              /\ \E lost \in {d.lost, TRUE} :
                    dump' = [dump EXCEPT ![c] = [d EXCEPT !.buffer = <<>>, !.lost = lost]]
           \/ /\ \E buffer \in {<<>>, d.buffer} :
                    dump' = [dump EXCEPT ![c] = [d EXCEPT !.buffer = buffer, !.lost = TRUE]]
              /\ UNCHANGED writers
        /\ UNCHANGED <<allocated, emitters, dumps, dumped, aborted>>

(* Mutant of RemoveEmitter: the entry stays.                               *)
RemoveNoEmitter(c) ==
    /\ At(c, "remove")
    /\ DumpGoesTo(c, "destroy")
    /\ UNCHANGED <<allocated, emitters, dumps, writers, dumped, aborted>>

(* emitters.Remove(pNativeEmitter), which only a call without an exception *)
(* comes to.                                                               *)
RemoveEmitter(c) ==
    /\ At(c, "remove")
    /\ emitters' = [q \in DOMAIN emitters \ {dump[c].address} |-> emitters[q]]
    /\ DumpGoesTo(c, "destroy")
    /\ UNCHANGED <<allocated, dumps, writers, dumped, aborted>>

(* DestroyEmitter in the finally block flushes first, and asserts that the *)
(* encoding is known.  This flush may fail too.                            *)
DestroyEmitter(c) ==
    /\ At(c, "destroy")
    /\ IF dump[c].started
       THEN /\ \/ writers' = Written(c) /\ EndDump(c, dump[c])
               \/ /\ dump[c].buffer # <<>>
                  /\ EndDump(c, [dump[c] EXCEPT !.lost = TRUE])
                  /\ UNCHANGED writers
            /\ allocated' = allocated \ {dump[c].address}
            /\ UNCHANGED aborted
       ELSE /\ aborted' = dump[c].address
            /\ UNCHANGED <<allocated, dump, writers, dumped>>
    /\ UNCHANGED <<emitters, dumps>>

DumpStep(c) == \/ AddEmitter(c) \/ StartStream(c) \/ GenerateDocument(c)
               \/ FlushDocument(c) \/ RemoveEmitter(c) \/ DestroyEmitter(c)

DumpNext(c) == CreateEmitter(c) \/ CreateEmitterFails(c) \/ DumpStep(c)

-----------------------------------------------------------------------------
(* A writer holds text of its own call only, whatever other calls do,      *)
(* whatever writes fail and whatever addresses come again.  Unless an Emit *)
(* has failed, the text a call returns is that of all its documents in     *)
(* order, and the text of one that throws is that of the first of them.    *)
DumpsAreWhole ==
    /\ \A n \in 1 .. MaxDumps : \A i \in DOMAIN writers[n] : writers[n][i][1] = n
    /\ \A n \in DOMAIN dumped :
          ~dumped[n].lost =>
              /\ \A i \in DOMAIN writers[n] : writers[n][i] = <<n, i>>
              /\ dumped[n].exception = "none" => Len(writers[n]) = dumped[n].documents

(* The process is aborted, by the assertion on the encoding of an emitter  *)
(* that was given no event, only if an earlier Dump with an emitter at the *)
(* address has thrown, which left its entry behind.                        *)
AbortsFollowFailures ==
    aborted # Null =>
        \E n \in DOMAIN dumped : /\ dumped[n].address = aborted
                                 /\ dumped[n].exception # "none"

(* What the README's example says of Yaml.Dump: documents that can be      *)
(* written are, whatever was dumped before (README.md:38-39).              *)
GoodDocumentsDump ==
    aborted # Null =>
        \A c \in Callers : dump[c].address = aborted => dump[c].bad # 0
=============================================================================
