------------------------------ MODULE Options ------------------------------
(***************************************************************************)
(* The configuration file (global.cxx:250-477): a sequence of words,       *)
(* without its comments, read one option after the other. What an option   *)
(* does may depend on those that were read before it.                      *)
(***************************************************************************)
EXTENDS Integers, FiniteSetsExt, SequencesExt

CONSTANTS Files,        \* sequences of words
          Switches,     \* options that are one word
          Values,       \* options with a number -> their standard value
          Atoi,         \* word -> number
          ValidStarts,  \* start urls that are valid
          ExtOf,        \* start url -> its extension
          None

ASSUME OptionsAssumption ==
    /\ {"specificSearch"} \subseteq Switches
    /\ {"depthInSite", "limitTime"} \subseteq DOMAIN Values
    /\ DOMAIN Values \intersect Switches = {}

VARIABLES file, words,          \* the file, and what is left of it
          parse,                \* "reading", "done" or "exit"
          switches, values, domains, forbExt, contentTypes, privilegedExts,
          startPriority, startDisk       \* start urls queued: <<url, depth>>
setVars == <<switches, values, domains, forbExt, contentTypes, privilegedExts>>
startVars == <<startPriority, startDisk>>
optionVars == <<file, words, parse, setVars, startVars>>

InitOptions(files) ==
    /\ file \in files /\ words = file /\ parse = "reading"
    /\ switches = {} /\ values = Values /\ domains = None /\ forbExt = <<>>
    /\ contentTypes = <<>> /\ privilegedExts = <<>>
    /\ startPriority = <<>> /\ startDisk = <<>>

Word(k) == words[k]
Option(name) == parse = "reading" /\ words # <<>> /\ Word(1) = name
Read(n) == words' = SubSeq(words, n + 1, Len(words)) /\ UNCHANGED <<file, parse>>
Exit == parse' = "exit" /\ UNCHANGED <<file, words, setVars, startVars>>

\* how many words there are before the "end" of a block; None without it
EndAfter(step) ==
    LET ends == {k \in 2 .. Len(words) : /\ (k - 2) % step = 0 /\ k + step - 1 <= Len(words)
                                         /\ "end" \in {Word(k + i) : i \in 0 .. step - 1}}
    IN IF ends = {} THEN None ELSE Min(ends)

Switch == \E s \in Switches :
    /\ Option(s) /\ Read(1) /\ switches' = switches \union {s}
    /\ UNCHANGED <<values, domains, forbExt, contentTypes, privilegedExts, startVars>>

\* the time is in minutes
Scaled(name, n) == IF name = "limitTime" THEN n * 60 ELSE n
Value == \E name \in DOMAIN Values :
    /\ Option(name) /\ Read(2)
    /\ values' = [values EXCEPT ![name] = Scaled(name, Atoi[Word(2)])]
    /\ UNCHANGED <<switches, domains, forbExt, contentTypes, privilegedExts, startVars>>

MatchPrivExt(ext) == "specificSearch" \in switches /\ Contains(privilegedExts, ext)
Known(u) == \E i \in DOMAIN (startPriority \o startDisk) : (startPriority \o startDisk)[i][1] = u

\* the url is checked at once, with the depth read so far
StartUrl ==
    /\ Option("startUrl")
    /\ LET u == Word(2) start == <<u, values["depthInSite"]>>
       IN IF u \notin ValidStarts THEN Exit
          ELSE /\ Read(2) /\ UNCHANGED setVars
               /\ IF Known(u) THEN UNCHANGED startVars
                  ELSE IF MatchPrivExt(ExtOf[u])
                  THEN startPriority' = Append(startPriority, start) /\ UNCHANGED startDisk
                  ELSE startDisk' = Append(startDisk, start) /\ UNCHANGED startPriority

Domains ==
    /\ Option("limitToDomain")
    /\ IF EndAfter(1) = None THEN Exit
       ELSE /\ Read(EndAfter(1))
            /\ domains' = (IF domains = None THEN <<>> ELSE domains)
                             \o SubSeq(words, 2, EndAfter(1) - 1)
            /\ UNCHANGED <<switches, values, forbExt, contentTypes, privilegedExts, startVars>>

\* not those a specific search looks for
Wanted(exts) == SelectSeq(exts, LAMBDA e : ~MatchPrivExt(e))
Extensions ==
    /\ Option("forbiddenExtensions")
    /\ IF EndAfter(1) = None THEN Exit
       ELSE /\ Read(EndAfter(1))
            /\ forbExt' = forbExt \o Wanted(SubSeq(words, 2, EndAfter(1) - 1))
            /\ UNCHANGED <<switches, values, domains, contentTypes, privilegedExts, startVars>>

\* pairs, up to an "end" in either place
SpecificSet ==
    /\ Option("specificSet")
    /\ IF EndAfter(2) = None THEN Exit
       ELSE LET pairs == SubSeq(words, 2, EndAfter(2) - 1)
                n == Len(pairs) \div 2
            IN /\ Read(EndAfter(2) + 1)
               /\ contentTypes' = contentTypes \o [i \in 1 .. n |-> pairs[2 * i - 1]]
               /\ privilegedExts' = privilegedExts \o [i \in 1 .. n |-> pairs[2 * i]]
               /\ UNCHANGED <<switches, values, domains, forbExt, startVars>>

Blocks == {"startUrl", "limitToDomain", "forbiddenExtensions", "specificSet"}
BadWord == /\ parse = "reading" /\ words # <<>>
           /\ Word(1) \notin Switches \union DOMAIN Values \union Blocks
           /\ Exit
Done == /\ parse = "reading" /\ words = <<>> /\ parse' = "done"
        /\ UNCHANGED <<file, words, setVars, startVars>>

NextOptions == Switch \/ Value \/ StartUrl \/ Domains \/ Extensions \/ SpecificSet
                 \/ BadWord \/ Done
-----------------------------------------------------------------------------
At(name) == {k \in DOMAIN file : file[k] = name}
\* no option of these names is read after one of those
Before(these, those) == \A a \in these, b \in those : \A i \in At(a), j \in At(b) : i < j

Others == (DOMAIN Values) \union Switches \union (Blocks \ {"startUrl"})

\* A file whose start urls come last, and whose forbidden extensions come after
\* the set of the specific search, means one thing whatever the order of its
\* lines: the start urls have the depth of the whole crawl and the queue their
\* extension gives them, and no extension that is searched for is forbidden.
FileMeans ==
    /\ parse = "done" /\ Before(Others, {"startUrl"}) =>
         /\ \A i \in DOMAIN (startPriority \o startDisk) : (startPriority \o startDisk)[i][2] = values["depthInSite"]
         /\ \A i \in DOMAIN startPriority : MatchPrivExt(ExtOf[startPriority[i][1]])
         /\ \A i \in DOMAIN startDisk : ~MatchPrivExt(ExtOf[startDisk[i][1]])
         /\ \A k \in At("startUrl") : Known(file[k + 1])
    /\ parse = "done" /\ Before({"specificSearch", "specificSet"}, {"forbiddenExtensions"}) =>
         \A i \in DOMAIN forbExt : ~MatchPrivExt(forbExt[i])
=============================================================================
