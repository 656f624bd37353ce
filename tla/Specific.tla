------------------------------ MODULE Specific ------------------------------
(***************************************************************************)
(* The documents a specific search looks for go to files of their own as   *)
(* they arrive and are read back for the output                            *)
(* (fetch/save_specific_buffer.cxx). The name of a file is built in one    *)
(* static buffer, fileName; in the build with THREAD_OUTPUT the output     *)
(* thread builds names there while the main thread does.                   *)
(***************************************************************************)
EXTENDS Integers, FiniteSetsExt, SequencesExt

CONSTANTS Documents,    \* pages, each with a connection of its own
          SpecPerDir,   \* filesPerDir
          MaxSpec       \* maxSpecSize, in pieces

ASSUME SpecificAssumption == SpecPerDir \in Nat \ {0} /\ MaxSpec \in Nat \ {0, 1}

VARIABLES twoThreads,           \* the build
          specName,             \* fileName
          specDir, specFile,    \* nbdir, nbfile
          saved,                \* files by name: sequences of pieces
          specIndex,            \* the index of each directory
          doc,                  \* html: state, its number, its descriptor, nbSpec
          naming,               \* what the main and the output thread name, or Nobody
          read                  \* what getContent returned
specificVars == <<twoThreads, specName, specDir, specFile, saved, specIndex, doc,
                  naming, read>>

Nobody == "nobody"
NoName == <<-1, -1>>

InitSpecific(builds) ==
    /\ twoThreads \in builds /\ specName = NoName /\ specDir = -1 /\ specFile = SpecPerDir
    /\ saved = <<>> /\ specIndex = <<>> /\ read = <<>>
    /\ doc = [d \in Documents |-> [state |-> "headers", number |-> NoName, fds |-> NoName,
                                   nbSpec |-> 0]]
    /\ naming = [main |-> Nobody, output |-> Nobody]

OtherThread(thread) == IF thread = "main" THEN "output" ELSE "main"
Runs(thread) == naming[thread] = Nobody /\ (twoThreads \/ naming[OtherThread(thread)] = Nobody)

\* newSpec: the number, the index and the name; then the file is made.
NewSpec(d) ==
    LET newDir == specFile + 1 >= SpecPerDir
        dir == IF newDir THEN specDir + 1 ELSE specDir
        number == <<dir, IF newDir THEN 0 ELSE specFile + 1>>
        index == IF newDir THEN (dir :> <<>>) @@ specIndex ELSE specIndex
    IN /\ Runs("main") /\ doc[d].state = "headers"
       /\ specDir' = dir /\ specFile' = number[2] /\ specName' = number
       /\ specIndex' = [index EXCEPT ![dir] = Append(@, <<number[2], d>>)]
       /\ doc' = [doc EXCEPT ![d].number = number]
       /\ naming' = [naming EXCEPT !.main = d]
       /\ UNCHANGED <<twoThreads, saved, read>>
Creat ==
    /\ naming.main # Nobody
    /\ saved' = (specName :> <<>>) @@ saved
    /\ doc' = [doc EXCEPT ![naming.main].state = "specific", ![naming.main].fds = specName]
    /\ naming' = [naming EXCEPT !.main = Nobody]
    /\ UNCHANGED <<twoThreads, specName, specDir, specFile, specIndex, read>>

\* pipeSpec: a piece goes behind those of its descriptor, unless they are too many.
Written(content, at, piece) ==
    [i \in 1 .. Max({Len(content), at + 1}) |->
        IF i = at + 1 THEN piece ELSE IF i <= Len(content) THEN content[i] ELSE Nobody]
PipeSpec(d) ==
    LET nb == doc[d].nbSpec + 1
    IN /\ Runs("main") /\ doc[d].state = "specific"
       /\ doc' = [doc EXCEPT ![d].nbSpec = nb, ![d].state = IF nb >= MaxSpec THEN "tooBig" ELSE @]
       /\ saved' = IF nb >= MaxSpec THEN saved
                   ELSE [saved EXCEPT ![doc[d].fds] = Written(@, nb - 1, <<d, nb>>)]
       /\ UNCHANGED <<twoThreads, specName, specDir, specFile, specIndex, naming, read>>
EndSpec(d) ==
    /\ Runs("main") /\ doc[d].state = "specific"
    /\ doc' = [doc EXCEPT ![d].state = "loaded"]
    /\ UNCHANGED <<twoThreads, specName, specDir, specFile, saved, specIndex, naming, read>>

\* getContent: the name, then what the file of that name holds
NameContent(d) ==
    /\ Runs("output") /\ doc[d].state = "loaded" /\ d \notin DOMAIN read
    /\ specName' = doc[d].number
    /\ naming' = [naming EXCEPT !.output = d]
    /\ UNCHANGED <<twoThreads, specDir, specFile, saved, specIndex, doc, read>>
GetContent ==
    /\ naming.output # Nobody
    /\ read' = (naming.output :> IF specName \in DOMAIN saved THEN saved[specName] ELSE <<>>)
                  @@ read
    /\ naming' = [naming EXCEPT !.output = Nobody]
    /\ UNCHANGED <<twoThreads, specName, specDir, specFile, saved, specIndex, doc>>

NextSpecific == \/ \E d \in Documents : NewSpec(d) \/ PipeSpec(d) \/ EndSpec(d) \/ NameContent(d)
                \/ Creat \/ GetContent
-----------------------------------------------------------------------------
\* The output of a document is what arrived of it, in order and not of another,
\* and the index of its directory says where it is, as long as one thread names
\* the files.
OwnPieces(d) == [n \in 1 .. doc[d].nbSpec |-> <<d, n>>]
SpecificRead == \A d \in DOMAIN read : read[d] = OwnPieces(d)
SpecificIndexed ==
    \A dir \in DOMAIN specIndex : \A i \in DOMAIN specIndex[dir] :
        doc[specIndex[dir][i][2]].number = <<dir, specIndex[dir][i][1]>>
SpecificKept ==
    /\ SpecificIndexed
    /\ \A d, e \in Documents : d # e /\ doc[d].number # NoName => doc[d].number # doc[e].number
    /\ ~twoThreads => SpecificRead
=============================================================================
