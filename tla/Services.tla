------------------------------ MODULE Services ------------------------------
(***************************************************************************)
(* What runs beside the crawl: the rings in memory, the outputs, the       *)
(* documents of a specific search, the histograms, the input port, the     *)
(* webserver and the options. They share no state, so a behaviour is one   *)
(* of one of them, the service.                                            *)
(***************************************************************************)
EXTENDS FifoUse, Output, Specific, Histogram, Clients, WebServer, Options

VARIABLE service
vars == <<service, fifoVars, outputVars, specificVars, histoVars, clientsVars, webVars,
          optionVars>>

\* the build with threads or not, the output, and whether the search is specific
Builds == {m \in BOOLEAN \X Modes \X BOOLEAN : m[3] => m[2] = "default"}

\* the inputs of the service, one input of the others
OfService(s, inputs) == IF service = s THEN inputs ELSE {CHOOSE i \in inputs : TRUE}
Init ==
    /\ service \in {"fifo", "output", "specific", "histogram", "clients", "web", "options"}
    /\ InitFifo /\ InitHistogram
    /\ InitOutput(OfService("output", Builds), OfService("output", Todos))
    /\ InitSpecific({FALSE})
    /\ InitClients(OfService("clients", Scripts))
    /\ InitWeb(OfService("web", Requests))
    /\ InitOptions(OfService("options", Files))

FifoStep == /\ service = "fifo" /\ NextFifo
            /\ UNCHANGED <<service, outputVars, specificVars, histoVars, clientsVars, webVars, optionVars>>
OutputStep(A) == /\ service = "output" /\ A
                 /\ UNCHANGED <<service, fifoVars, specificVars, histoVars, clientsVars, webVars, optionVars>>
SpecificStep == /\ service = "specific" /\ NextSpecific
                /\ UNCHANGED <<service, fifoVars, outputVars, histoVars, clientsVars, webVars, optionVars>>
HistogramStep == /\ service = "histogram" /\ CronHit
                 /\ UNCHANGED <<service, fifoVars, outputVars, specificVars, clientsVars, webVars, optionVars>>
ClientsStep(A) == /\ service = "clients" /\ A
                  /\ UNCHANGED <<service, fifoVars, outputVars, specificVars, histoVars, webVars, optionVars>>
WebStep == /\ service = "web" /\ NextWeb
           /\ UNCHANGED <<service, fifoVars, outputVars, specificVars, histoVars, clientsVars, optionVars>>
OptionsStep == /\ service = "options" /\ NextOptions
               /\ UNCHANGED <<service, fifoVars, outputVars, specificVars, histoVars, clientsVars, webVars>>

Next == FifoStep \/ OutputStep(NextOutput) \/ SpecificStep \/ HistogramStep \/ ClientsStep(NextClients)
          \/ WebStep \/ OptionsStep

\* The threads run; a page ends, by the time out if not before; a client sends
\* what it has and hangs up.
Fairness ==
    /\ WF_vars(OutputStep(OutputThread))
    /\ \A c \in Conns : WF_vars(OutputStep(EndOfFile(c)))
    /\ WF_vars(ClientsStep(MainInput))
    /\ \A u \in Users : WF_vars(ClientsStep(Connect(u))) /\ SF_vars(ClientsStep(Send(u) \/ HangUp(u)))
Spec == Init /\ [][Next]_vars /\ Fairness

\* The rings stand for queues, and each connection is in one place and reported
\* in the order of the ends: fifo.h, constant_fifo.h, io/output.cxx.
RingsRight == /\ service = "fifo" => RingIsQueue
              /\ service = "output" => ConnsKept /\ InOrder
\* What was loaded is on the disk, and in the graphs of its time.
OutputsRight == /\ service = "output" => PagesKept
                /\ service = "specific" => SpecificKept
                /\ service = "histogram" => GraphsRight
\* The program takes from the input port, the webserver's port and the options
\* what was sent or written there, however it comes in pieces or is ordered.
InputsRight == /\ service = "clients" => LinesTaken /\ EachPolled /\ UrlsQueued
               /\ service = "web" => RequestUnderstood
               /\ service = "options" => FileMeans
\* A connection is free again after its page; a client that calls is served.
Served == ConnsComeBack /\ ClientsServed
=============================================================================
