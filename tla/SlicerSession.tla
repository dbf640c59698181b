--------------------------- MODULE SlicerSession ----------------------------
(* The slicer dialog (components/SlicerPanel.tsx, geometry/slicer.ts): slice  *)
(* the model, send the file to a saved printer, or push layer after layer to  *)
(* it. Calls to the desktop process stand in one queue with those of the      *)
(* printers' panel.                                                           *)
(*                                                                            *)
(* And what one command of the desktop process does at a printer:             *)
(* tpt-vertex-printer-link's clients (esp3d.rs, octoprint.rs, moonraker.rs),  *)
(* its streamer (stream.rs) and its HTTP transport (transport.rs). A client   *)
(* makes a few HTTP requests one after the other and gives up at the first    *)
(* that fails. A request that fails was lost, or the printer served it and    *)
(* the answer was lost (a timeout): the caller cannot tell. The printer is    *)
(* external, and modelled from what the clients ask of it.                    *)
(*                                                                            *)
(* What is sliced is identified by the number of changes made to the model or *)
(* the settings before it.                                                    *)
EXTENDS SavedPrinters, SequencesExt

CONSTANTS
    KindOf,  \* the protocol of each address
    Layers,  \* number of layers of a print
    Parts,   \* chunks that a layer is cut into (split_by_size)
    MaxJobs  \* bound on the streams and files given to printers

\* The protocols; the compatible Moonraker is served by OctoPrint's client.
Kind == {"esp3d", "octoprint", "moonraker"}

ASSUME SessionAssumption ==
    /\ KindOf \in [Host -> Kind] /\ MaxJobs \in Nat
    /\ Layers \in Nat \ {0} /\ Parts \in Nat \ {0}

VARIABLES
    device,  \* the printers themselves, by address
    slicer   \* the dialog

sessionVars == <<saved, acts, device, slicer>>

--------------------------------------------------------------------------
(* Printers, and what the clients ask of them.                              *)

\* The blocks of a sliced file: what heats and homes the printer, the layers,
\* and what turns it off.
SlicedFile == 0..(Layers + 1)

\* A printer: the file in its storage, the one selected, what it does with it,
\* and the chunks of G-code it was given directly, of each stream in order.
NewPrinter == [stored |-> 0, selected |-> 0, run |-> "idle", fed |-> [job \in 1..MaxJobs |-> <<>>]]

\* What a printer makes of a request.
Serve(p, req) ==
    CASE req.ask = "upload" -> [p EXCEPT !.stored = req.body]
      [] req.ask = "select" -> [p EXCEPT !.selected = p.stored]
      [] req.ask = "start"  -> [p EXCEPT !.run = IF p.selected = 0 THEN p.run ELSE "printing"]
      [] req.ask = "print"  -> [p EXCEPT !.selected = p.stored, !.run = "printing"]
      [] req.ask = "gcode"  -> [p EXCEPT !.fed = [@ EXCEPT ![req.body.job] = Append(p.fed[req.body.job], req.body)]]
      [] req.ask = "query"  -> p

\* The outcomes of requests that a command makes with `?`.
Outcomes(p, reqs) ==
    LET after[n \in 0..Len(reqs)] == IF n = 0 THEN p ELSE Serve(after[n - 1], reqs[n])
    IN  {[p |-> after[Len(reqs)], ok |-> TRUE]}
        \cup {[p |-> after[n], ok |-> FALSE] : n \in 0..Len(reqs)}

Query == <<[ask |-> "query"]>>

\* upload_gcode(): no protocol starts the print with it.
Upload(kind, body) == <<[ask |-> "upload", body |-> body]>>

\* start_print(): ESP3D selects (M23) and starts (M24), the others do both.
StartPrint(kind) ==
    IF kind = "esp3d" THEN <<[ask |-> "select"], [ask |-> "start"]>> ELSE <<[ask |-> "print"]>>

\* status(): the second request of ESP3D and OctoPrint, for the progress, may
\* fail and nothing comes of it.
Status(kind) == Query

\* test_connection().
Probe(kind) == Query

\* send_layer(): the chunks of a layer, one request each.
SendLayer(job, layer) ==
    [n \in 1..Parts |-> [ask |-> "gcode", body |-> [job |-> job, layer |-> layer, part |-> n]]]

\* send_to_printer(): upload, start, and ask how it goes.
SendFile(kind, body) == Upload(kind, body) \o StartPrint(kind) \o Status(kind)

--------------------------------------------------------------------------
(* The dialog.                                                              *)

\* `done` layers of stream `job` are shown as sent; `result` is what was sliced
\* last (0: nothing); `n` numbers the dialogs opened, `rev` the changes.
SessionInit ==
    /\ PrintersInit
    /\ device = [h \in Host |-> NewPrinter]
    /\ slicer = [n |-> 0, open |-> FALSE, rev |-> 1, jobs |-> 0, result |-> 0, targets |-> <<>>,
                 streaming |-> FALSE, job |-> 0, done |-> 0]

Idle == UNCHANGED <<desk, keyring, printers, editing, wizard, faulty, device>>

OpenSlicer ==
    /\ Act /\ ~slicer.open
    /\ slicer' = [slicer EXCEPT !.n = slicer.n + 1, !.open = TRUE, !.result = 0, !.targets = <<>>,
                                !.streaming = FALSE, !.job = 0, !.done = 0]
    /\ Calling([do |-> "targets", by |-> slicer.n + 1])
    /\ Idle

\* Nothing that was begun is stopped.
CloseSlicer == Act /\ slicer.open /\ slicer' = [slicer EXCEPT !.open = FALSE] /\ Idle /\ UNCHANGED calls

ChangeSettings == Act /\ slicer' = [slicer EXCEPT !.rev = slicer.rev + 1] /\ Idle /\ UNCHANGED calls

DoSlice ==
    /\ Act /\ slicer.open
    /\ Calling([do |-> "slice", rev |-> slicer.rev, by |-> slicer.n])
    /\ Idle /\ UNCHANGED slicer

\* A target that was saved with the blank address reaches no printer.
Job(id) == Act /\ slicer.open /\ ~slicer.streaming /\ id \in DOMAIN slicer.targets
           /\ slicer.targets[id].host # Blank /\ slicer.jobs < MaxJobs

OnSend(id) ==
    /\ Job(id) /\ slicer.result # 0
    /\ Calling([do |-> "send", host |-> slicer.targets[id].host, rev |-> slicer.result])
    /\ slicer' = [slicer EXCEPT !.jobs = slicer.jobs + 1]
    /\ Idle

\* The layers are a chain of calls: the next one is made when the last one has
\* been answered. The slicer's onLayer gives it the layers and nothing else.
OnStream(id) ==
    /\ Job(id)
    /\ Calling([do |-> "layer", host |-> slicer.targets[id].host, job |-> slicer.jobs + 1, layer |-> 1, by |-> slicer.n])
    /\ slicer' = [slicer EXCEPT !.jobs = slicer.jobs + 1, !.job = slicer.jobs + 1, !.result = slicer.rev,
                                !.streaming = TRUE, !.done = 0]
    /\ Idle

Shown(call) == slicer.open /\ slicer.n = call.by

AnswerTargets ==
    /\ Answering("targets") /\ Rest
    /\ \E o \in ReadAll(desk) :
          /\ desk' = o.d /\ Faulty(o)
          /\ slicer' = IF Shown(Head(calls)) THEN [slicer EXCEPT !.targets = Strip(o.d.mem)] ELSE slicer
    /\ UNCHANGED <<printers, editing, wizard, device>>

AnswerSlice ==
    /\ Answering("slice") /\ Rest
    /\ slicer' = IF Shown(Head(calls)) THEN [slicer EXCEPT !.result = Head(calls).rev] ELSE slicer
    /\ UNCHANGED <<desk, printers, editing, wizard, faulty, device>>

AnswerSend ==
    /\ Answering("send") /\ Rest
    /\ \E o \in Outcomes(device[Head(calls).host], SendFile(KindOf[Head(calls).host], Head(calls).rev)) :
          device' = [device EXCEPT ![Head(calls).host] = o.p]
    /\ UNCHANGED <<desk, printers, editing, wizard, faulty, slicer>>

\* A mutation of After: the chain goes on past a layer that failed.
AfterAny(call, ok) ==
    IF call.layer < Layers THEN Then([call EXCEPT !.layer = call.layer + 1]) ELSE Rest

After(call, ok) ==
    IF ok /\ call.layer < Layers THEN Then([call EXCEPT !.layer = call.layer + 1]) ELSE Rest

AnswerLayer ==
    /\ Answering("layer")
    /\ LET call == Head(calls) IN
          \E o \in Outcomes(device[call.host], SendLayer(call.job, call.layer)) :
             /\ device' = [device EXCEPT ![call.host] = o.p]
             /\ After(call, o.ok)
             /\ slicer' = IF ~Shown(call) THEN slicer
                          ELSE [slicer EXCEPT !.done = IF o.ok THEN call.layer ELSE slicer.done,
                                              !.streaming = o.ok /\ call.layer < Layers]
    /\ UNCHANGED <<desk, printers, editing, wizard, faulty>>

SlicerStep ==
    \/ OpenSlicer \/ CloseSlicer \/ ChangeSettings \/ DoSlice
    \/ \E id \in Id : OnSend(id) \/ OnStream(id)
    \/ AnswerTargets \/ AnswerSlice \/ AnswerSend \/ AnswerLayer

\* A restart closes the dialogs and forgets the calls; the printers go on.
RestartAll == Restart /\ slicer' = [slicer EXCEPT !.open = FALSE] /\ UNCHANGED device

SessionNext ==
    \/ PrintersStep /\ UNCHANGED <<device, slicer>>
    \/ SlicerStep \/ RestartAll

SessionSpec == SessionInit /\ [][SessionNext]_sessionVars

--------------------------------------------------------------------------
(* Correctness.                                                             *)

TypeOK ==
    /\ PrintersTypeOK
    /\ slicer.targets \in Printers /\ slicer.done \in 0..Layers
    /\ slicer.streaming => slicer.job # 0
    /\ \A h \in Host : device[h].run \in {"idle", "printing"}

\* What printer h was given of a stream.
Given(h, job) == device[h].fed[job]

\* The chunks of a stream reach its printer in order, once each and without a
\* gap, wherever a request or its answer is lost.
LayersInOrder ==
    \A h \in Host, job \in 1..MaxJobs :
        \A i \in DOMAIN Given(h, job) :
            Given(h, job)[i] = [job |-> job, layer |-> 1 + (i - 1) \div Parts, part |-> 1 + ((i - 1) % Parts)]

\* The layers shown as sent were received, all of them.
ProgressIsReal ==
    slicer.open /\ slicer.done > 0 =>
        \E h \in Host : Len(Given(h, slicer.job)) >= slicer.done * Parts

\* A printer gets a stream in order, and its user is told the truth about it.
StreamsInOrder == LayersInOrder /\ ProgressIsReal

\* The panels, the list on disk and the keychain tell the same printers apart.
PanelsAgree == TypeOK /\ NoOrphanKey /\ ListIsFresh

\* A stream that has sent its last layer gave the printer what is in the file:
\* SlicerPanel.tsx:71 has it "instead of slicing fully, uploading the whole
\* file, and only then starting the print".
StreamIsThePrint ==
    slicer.open /\ slicer.done = Layers =>
        \E h \in Host : \A block \in SlicedFile : \E chunk \in Range(Given(h, slicer.job)) : chunk.layer = block
=============================================================================
