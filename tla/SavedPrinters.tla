--------------------------- MODULE SavedPrinters ----------------------------
(* The printers a user has saved: the commands of the desktop process         *)
(* (desktop/src-tauri/src/printer.rs, keychain.rs), and the panel and wizard  *)
(* that call them (PrinterPanel.tsx, PrinterSetupWizard.tsx).                 *)
(*                                                                            *)
(* A command runs to its end before the next one (they are synchronous, on    *)
(* the main thread) and in the order the page made the calls; the user goes   *)
(* on clicking between a call and its answer. Answering a call is running the *)
(* command and what the page has after its await. A keychain call and the     *)
(* write of the file may fail, and the process may end between two calls.     *)
EXTENDS Integers, Sequences, FiniteSets, Functions

CONSTANTS
    Id,       \* ids of targets
    NewId,    \* those of blank forms, random and unused
    Found,    \* what discovery finds: a set of [id, host]
    Host,     \* addresses of printers
    Key,      \* API keys
    NoKey,    \* none
    Blank,    \* the name and address of a blank form
    MaxActs   \* bound on the user's actions

ASSUME PrintersAssumption ==
    /\ NewId \subseteq Id /\ NewId # {} /\ NoKey \notin Key /\ Blank \notin Host
    /\ Found \subseteq [id: Id, host: Host]
    /\ MaxActs \in Nat

VARIABLES
    desk,      \* the desktop process: mem, the store; file, its JSON; keys, the keychain
    keyring,   \* whether the platform has a keychain
    calls,     \* calls of the page, not answered
    printers,  \* the list that the panel shows
    editing,   \* the form of the panel: {} or a target
    wizard,    \* the wizard
    acts,      \* number of the user's actions
    faulty     \* whether a call failed, or the process ended

saved == <<desk, keyring, calls, printers, editing, wizard, faulty>>

OrNoKey == Key \cup {NoKey}
Target == [id: Id, host: Host \cup {Blank}, key: OrNoKey]

\* Saved printers, by id: their address and a key left by an old version.
Printers == UNION {[D -> [host: Host \cup {Blank}, key: OrNoKey]] : D \in SUBSET Id}

Strip(list) == [id \in DOMAIN list |-> [list[id] EXCEPT !.key = NoKey]]

--------------------------------------------------------------------------
(* The commands: the outcomes for a state d of the desktop process.         *)

Done(d) == [d |-> d, ok |-> TRUE]
Failed(d) == [d |-> d, ok |-> FALSE]

\* Without a keychain, set_key() succeeds and keeps nothing.
SetKey(d, id, key) ==
    IF keyring THEN {Done([d EXCEPT !.keys = [@ EXCEPT ![id] = key]]), Failed(d)} ELSE {Done(d)}

GetKey(d, id) == IF keyring THEN {d.keys[id], NoKey} ELSE {NoKey}

\* A mutation of DeleteKey: it reports success and deletes nothing.
DeleteKeyNot(d, id) == {Done(d)}

\* Deleting what is not there is an error of the keychain.
DeleteKey(d, id) ==
    IF ~keyring THEN {Done(d)}
    ELSE {Failed(d)} \cup (IF d.keys[id] = NoKey THEN {} ELSE {Done([d EXCEPT !.keys = [@ EXCEPT ![id] = NoKey]])})

\* The store is changed, then saved.
WriteAll(d, list) == {Done([d EXCEPT !.mem = list, !.file = list]), Failed([d EXCEPT !.mem = list])}

\* A mutation of Moved: the keychain is asked for the key and not given it.
MovedNot(d, took) == d.keys

\* The keychain once it took these keys out of the list.
Moved(d, took) == [id \in Id |-> IF id \in took THEN d.mem[id].key ELSE d.keys[id]]

\* Keys of an old version are moved to the keychain and stripped from the
\* list, whether or not the keychain took them and the list was saved: nobody
\* looks at `ok` here.
ReadAll(d) ==
    LET old == {id \in DOMAIN d.mem : d.mem[id].key # NoKey}
    IN  IF old = {} THEN {Done(d)}
        ELSE UNION {{[o EXCEPT !.ok = o.ok /\ took = old] :
                        o \in WriteAll([d EXCEPT !.keys = Moved(d, took)], Strip(d.mem))} :
                            took \in IF keyring THEN SUBSET old ELSE {{}}}

Upsert(list, t) ==
    [id \in DOMAIN list \cup {t.id} |->
        IF id = t.id THEN [host |-> t.host, key |-> t.key] ELSE list[id]]

SavePrinter(d, t) ==
    LET kept == IF t.key = NoKey THEN {Done(d)} ELSE SetKey(d, t.id, t.key)
    IN  {o \in kept : ~o.ok}
        \cup UNION {WriteAll(o.d, Upsert(o.d.mem, [t EXCEPT !.key = NoKey])) :
                        o \in UNION {ReadAll(k.d) : k \in {k \in kept : k.ok}}}

\* The key goes with the record, if the keychain lets it.
DeletePrinter(d, id) ==
    LET written == UNION {WriteAll(o.d, Restrict(o.d.mem, DOMAIN o.d.mem \ {id})) : o \in ReadAll(d)}
    IN  {o \in written : ~o.ok}
        \cup UNION {{Done(k.d) : k \in DeleteKey(o.d, id)} : o \in {o \in written : o.ok}}

--------------------------------------------------------------------------
(* The page.                                                                *)

Closed == [n |-> 0, step |-> "closed"]
AsTarget(f) == [id |-> f.id, host |-> f.host, key |-> NoKey]

\* A blank target: a random id is one that is found nowhere.
Held ==
    DOMAIN desk.mem \cup DOMAIN desk.file \cup {id \in Id : desk.keys[id] # NoKey} \cup DOMAIN printers
    \cup {t.id : t \in editing} \cup (IF wizard.step = "closed" THEN {} ELSE {wizard.target.id})
    \cup {c.target.id : c \in {c \in Range(calls) : "target" \in DOMAIN c}}
BlankTarget == {[id |-> id, host |-> Blank, key |-> NoKey] : id \in NewId \ Held}

\* What a wizard begins with: a scan in progress and a blank target. `probed`
\* is {} or the target whose answer is shown. The key that was typed stays
\* when another target is taken.
Opened(n, t) == [n |-> n, step |-> "discover", found |-> FALSE, picked |-> FALSE, target |-> t,
                 testing |-> FALSE, scanning |-> TRUE, saving |-> FALSE, probed |-> {}]
Retarget(t) == [t EXCEPT !.key = wizard.target.key]

\* What an old version may have left: nothing, or one printer and its key.
OldList(host, key) == [id \in {CHOOSE n \in NewId : TRUE} |-> [host |-> host, key |-> key]]
OldLists == {<<>>} \cup {OldList(h, k) : h \in Host, k \in OrNoKey}

PrintersInit ==
    /\ \E list \in OldLists : desk = [mem |-> list, file |-> list, keys |-> [id \in Id |-> NoKey]]
    /\ keyring \in BOOLEAN
    /\ calls = <<[do |-> "list"]>>
    /\ printers = <<>> /\ editing = {} /\ wizard = Closed
    /\ acts = 0 /\ faulty = FALSE

Act == acts < MaxActs /\ acts' = acts + 1
Calling(call) == calls' = Append(calls, call)

\* The buttons of the panel.
AddPrinter == Act /\ (\E t \in BlankTarget : editing' = {t}) /\ UNCHANGED <<desk, keyring, calls, printers, wizard, faulty>>
AddDiscovered(f) == Act /\ editing' = {AsTarget(f)} /\ UNCHANGED <<desk, keyring, calls, printers, wizard, faulty>>
CancelEdit == Act /\ editing # {} /\ editing' = {} /\ UNCHANGED <<desk, keyring, calls, printers, wizard, faulty>>

Type(host, key) ==
    /\ Act
    /\ \E t \in editing : editing' = {[t EXCEPT !.host = host, !.key = key]}
    /\ UNCHANGED <<desk, keyring, calls, printers, wizard, faulty>>

OnEdit(id) ==
    /\ Act /\ id \in DOMAIN printers
    /\ Calling([do |-> "getkey", target |-> [id |-> id, host |-> printers[id].host, key |-> NoKey]])
    /\ UNCHANGED <<desk, keyring, printers, editing, wizard, faulty>>

\* The first call of a save: the key when there is one, else the record.
Saving(t, by) ==
    Calling([do |-> IF t.key = NoKey THEN "save" ELSE "setkey", target |-> t, by |-> by])

OnSave ==
    /\ Act
    /\ \E t \in editing : t.host # Blank /\ Saving(t, 0)
    /\ UNCHANGED <<desk, keyring, printers, editing, wizard, faulty>>

OnDelete(id) ==
    /\ Act /\ id \in DOMAIN printers
    /\ Calling([do |-> "delkey", id |-> id])
    /\ UNCHANGED <<desk, keyring, printers, editing, wizard, faulty>>

\* The buttons and fields of the wizard. Each wizard that is opened has a
\* number: what an earlier one awaits does not change a later one.
OpenWizard ==
    /\ Act /\ wizard.step = "closed"
    /\ \E t \in BlankTarget : wizard' = Opened(wizard.n + 1, t)
    /\ Calling([do |-> "scan", by |-> wizard.n + 1])
    /\ UNCHANGED <<desk, keyring, printers, editing, faulty>>

InWizard(steps) == Act /\ wizard.step \in steps /\ UNCHANGED <<desk, keyring, printers, editing, faulty>>

CloseWizard ==
    /\ InWizard({"discover", "details", "test"})
    /\ wizard' = [n |-> wizard.n, step |-> "closed"] /\ UNCHANGED calls

PickFound(f) ==
    /\ InWizard({"discover"}) /\ wizard.found
    /\ wizard' = [wizard EXCEPT !.picked = TRUE, !.target = Retarget(AsTarget(f)), !.probed = {}]
    /\ UNCHANGED calls

ScanAgain ==
    /\ InWizard({"discover"}) /\ ~wizard.scanning
    /\ wizard' = [wizard EXCEPT !.scanning = TRUE]
    /\ Calling([do |-> "scan", by |-> wizard.n])

ManualEntry ==
    /\ InWizard({"discover"})
    /\ \E t \in BlankTarget :
          wizard' = [wizard EXCEPT !.picked = FALSE, !.target = Retarget(t), !.probed = {}, !.step = "details"]
    /\ UNCHANGED calls

Fill(host, key) ==
    /\ InWizard({"details"})
    /\ wizard' = [wizard EXCEPT !.target = [@ EXCEPT !.host = host, !.key = key]]
    /\ UNCHANGED calls

\* next() and the button of the test: run the test of the details.
RunTest ==
    /\ wizard.step # "closed" => wizard.target.host # Blank
    /\ \/ InWizard({"details"})
       \/ InWizard({"test"}) /\ ~wizard.testing
    /\ wizard' = [wizard EXCEPT !.step = "test", !.testing = TRUE, !.probed = {}]
    /\ Calling([do |-> "test", target |-> wizard.target, by |-> wizard.n])

NextDetails ==
    /\ InWizard({"discover"}) /\ wizard.picked
    /\ wizard' = [wizard EXCEPT !.step = "details"]
    /\ UNCHANGED calls

\* A result is stale once the details can change again.
Back ==
    /\ InWizard({"details", "test"})
    /\ wizard' = IF wizard.step = "test" THEN [wizard EXCEPT !.step = "details", !.probed = {}]
                 ELSE [wizard EXCEPT !.step = "discover"]
    /\ UNCHANGED calls

Finish ==
    /\ InWizard({"test"}) /\ ~wizard.saving
    /\ wizard' = [wizard EXCEPT !.saving = TRUE]
    /\ Saving(wizard.target, wizard.n)

--------------------------------------------------------------------------
(* Answers.                                                                 *)

Answering(do) == calls # <<>> /\ Head(calls).do = do /\ UNCHANGED <<keyring, acts>>
Rest == calls' = Tail(calls)
Then(call) == calls' = Append(Tail(calls), call)
Refresh == Then([do |-> "list"])
Faulty(o) == faulty' = (faulty \/ ~o.ok)
Waits(call) == wizard.step # "closed" /\ wizard.n = call.by

\* A save that failed: the error is shown, and the wizard may try again.
SaveFailed ==
    /\ Rest
    /\ wizard' = IF Waits(Head(calls)) THEN [wizard EXCEPT !.saving = FALSE] ELSE wizard
    /\ UNCHANGED <<printers, editing>>

AnswerList ==
    /\ Answering("list") /\ Rest
    /\ \E o \in ReadAll(desk) :
          /\ desk' = o.d /\ printers' = Strip(o.d.mem) /\ Faulty(o)
    /\ UNCHANGED <<editing, wizard>>

AnswerGetKey ==
    /\ Answering("getkey") /\ Rest
    /\ \E k \in GetKey(desk, Head(calls).target.id) : editing' = {[Head(calls).target EXCEPT !.key = k]}
    /\ UNCHANGED <<desk, printers, wizard, faulty>>

\* The record is saved once the key is, and not at all when that fails.
AnswerSetKey ==
    /\ Answering("setkey")
    /\ \E o \in SetKey(desk, Head(calls).target.id, Head(calls).target.key) :
          /\ desk' = o.d /\ Faulty(o)
          /\ IF o.ok THEN Then([Head(calls) EXCEPT !.do = "save"]) /\ UNCHANGED <<printers, editing, wizard>>
             ELSE SaveFailed

\* The panel takes the list and closes its form; a wizard that is done closes
\* the wizard that is open, and has the panel list the printers again.
AnswerSave ==
    /\ Answering("save")
    /\ \E o \in SavePrinter(desk, [Head(calls).target EXCEPT !.key = NoKey]) :
          /\ desk' = o.d /\ Faulty(o)
          /\ IF ~o.ok THEN SaveFailed
             ELSE IF Head(calls).by = 0
                  THEN Rest /\ printers' = o.d.mem /\ editing' = {} /\ UNCHANGED wizard
                  ELSE /\ Refresh
                       /\ wizard' = [n |-> wizard.n, step |-> "closed"]
                       /\ UNCHANGED <<printers, editing>>

\* A key that cannot be deleted is ignored.
AnswerDeleteKey ==
    /\ Answering("delkey")
    /\ Then([do |-> "delete", id |-> Head(calls).id])
    /\ \E o \in DeleteKey(desk, Head(calls).id) :
          desk' = o.d /\ faulty' = (faulty \/ (~o.ok /\ desk.keys[Head(calls).id] # NoKey))
    /\ UNCHANGED <<printers, editing, wizard>>

AnswerDelete ==
    /\ Answering("delete") /\ Rest
    /\ \E o \in DeletePrinter(desk, Head(calls).id) :
          /\ desk' = o.d
          /\ Faulty(o)
          /\ printers' = IF o.ok THEN o.d.mem ELSE printers
    /\ UNCHANGED <<editing, wizard>>

\* A scan may fail, find nothing, or find printers: then the first is picked,
\* whatever the user did since.
AnswerScan ==
    /\ Answering("scan") /\ Rest
    /\ LET w == [wizard EXCEPT !.scanning = FALSE]
       IN  wizard' \in IF ~Waits(Head(calls)) THEN {wizard}
                       ELSE {w, [w EXCEPT !.found = FALSE, !.picked = FALSE]}
                            \cup {[w EXCEPT !.found = TRUE, !.picked = TRUE, !.target = Retarget(AsTarget(f))] : f \in Found}
    /\ UNCHANGED <<desk, printers, editing, faulty>>

\* An error, or an answer.
AnswerTest ==
    /\ Answering("test") /\ Rest
    /\ LET w == [wizard EXCEPT !.testing = FALSE]
       IN  wizard' \in IF Waits(Head(calls)) THEN {w, [w EXCEPT !.probed = {Head(calls).target}]} ELSE {wizard}
    /\ UNCHANGED <<desk, printers, editing, faulty>>

\* The store of the plug-in saves itself a moment later, unless it cannot.
AutoSave ==
    /\ desk.file # desk.mem
    /\ desk' = [desk EXCEPT !.file = desk.mem]
    /\ UNCHANGED <<keyring, calls, printers, editing, wizard, acts, faulty>>

\* The process ends and starts again, with the panel open.
Restart ==
    /\ Act
    /\ desk' = [desk EXCEPT !.mem = desk.file]
    /\ calls' = <<[do |-> "list"]>> /\ printers' = <<>> /\ editing' = {} /\ wizard' = Closed
    /\ faulty' = TRUE
    /\ UNCHANGED keyring

PanelStep ==
    \/ AddPrinter \/ CancelEdit \/ OnSave
    \/ \E f \in Found : AddDiscovered(f)
    \/ \E h \in Host, k \in OrNoKey : Type(h, k)
    \/ \E id \in Id : OnEdit(id) \/ OnDelete(id)

WizardStep ==
    \/ CloseWizard \/ ManualEntry \/ RunTest \/ ScanAgain \/ NextDetails \/ Back \/ Finish
    \/ \E f \in Found : PickFound(f)
    \/ \E h \in Host, k \in OrNoKey : Fill(h, k)

Answer ==
    \/ AnswerList \/ AnswerGetKey \/ AnswerSetKey \/ AnswerSave \/ AnswerDeleteKey
    \/ AnswerDelete \/ AnswerScan \/ AnswerTest

\* The wizard covers the panel.
PrintersStep ==
    \/ wizard.step = "closed" /\ (PanelStep \/ OpenWizard)
    \/ WizardStep \/ Answer \/ AutoSave
--------------------------------------------------------------------------
(* Correctness.                                                             *)

PrintersTypeOK ==
    /\ desk.mem \in Printers /\ desk.file \in Printers /\ desk.keys \in [Id -> OrNoKey]
    /\ keyring \in BOOLEAN /\ faulty \in BOOLEAN /\ acts \in 0..MaxActs
    /\ printers \in Printers /\ \A id \in DOMAIN printers : printers[id].key = NoKey
    /\ editing \subseteq Target /\ Cardinality(editing) <= 1

\* The key of a printer, wherever it is.
KeyOf(d, id) == IF d.keys[id] # NoKey \/ id \notin DOMAIN d.mem THEN d.keys[id] ELSE d.mem[id].key

\* Keys leave printers.json for the keychain and never enter it (printer.rs:5).
\* As long as no call fails, none is lost on the way: only deleting its printer
\* makes the key of a printer unknown.
KeysMoveToKeychain ==
    [][/\ \A id \in DOMAIN desk'.mem : desk'.mem[id].key # NoKey =>
            \E list \in {desk.mem, desk.file} : id \in DOMAIN list /\ desk'.mem[id] = list[id]
       /\ keyring /\ ~faulty' => \A id \in Id :
            KeyOf(desk, id) # NoKey /\ KeyOf(desk', id) = NoKey => Head(calls).do \in {"delkey", "delete"}]_desk

\* As long as no call fails, the keychain has no key of a printer that is gone:
\* saves and deletes of one printer are each two calls, and those of the panel
\* and the wizard interleave.
NoOrphanKey ==
    \A id \in Id : desk.keys[id] # NoKey =>
        \/ id \in DOMAIN desk.mem \/ faulty
        \/ \E c \in Range(calls) : c.do = "save" /\ c.target.id = id

\* When nothing is under way and nothing has failed, the panel lists what is
\* saved, whichever dialog saved it and in whatever order answers came.
ListIsFresh == calls = <<>> /\ ~faulty => printers = desk.mem
=============================================================================
