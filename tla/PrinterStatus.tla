--------------------------- MODULE PrinterStatus ----------------------------
(* Watching a printer (tpt-vertex-printer-link): scan and connect             *)
(* (discovery.rs, client.rs), status(), pause, resume and cancel of the three *)
(* clients (moonraker.rs, octoprint.rs, esp3d.rs), and what is made of a      *)
(* series of readings (telemetry.rs, feedback.rs).                            *)
(*                                                                            *)
(* A reading that may be missing, NaN or None in the code, is a set of one    *)
(* number at most. A reply is what the client looks for in it, in the order   *)
(* of the text; what a printer replies is external.                           *)
EXTENDS Integers, Sequences, FiniteSets, FiniteSetsExt

CONSTANTS
    Heat,       \* temperatures
    Ambient,    \* TelemetryMapping.ambient_temperature
    Limit,      \* max_acceptable_warp_mm, in units of the thermal expansion
    Setpoint,   \* FeedbackTarget.hotend_temp_c
    Widths,     \* widths of filament, in hundredths of a millimetre
    Nominal,    \* FeedbackTarget.nominal_filament_width_mm, the same
    Total,      \* bytes in the file that is printed; a byte is a layer of 1 mm
    MaxLog      \* bound on the observations kept

ASSUME StatusAssumption ==
    /\ Heat \subseteq Nat /\ Ambient \in Nat /\ Limit \in Nat /\ Setpoint \in Nat
    /\ Widths \subseteq Nat /\ Nominal \in Nat /\ Total \in Nat \ {0} /\ MaxLog \in Nat

VARIABLES
    unit,    \* the printer
    client,  \* the client that make_client() built for it, and its ConnectionInfo
    shown,   \* the last status, until the printer changes: {} or one
    log      \* the observations kept of this print

statusVars == <<unit, client, shown, log>>

Protocol == {"esp3d", "octoprint", "moonraker-compat", "moonraker"}
State == {"Idle", "Printing", "Paused", "Completed", "Error"}

AtMostOne(S) == {{}} \cup {{x} : x \in S}
Bounded(x, low, high) == IF x < low THEN low ELSE IF x > high THEN high ELSE x
Difference(x, y) == IF x < y THEN y - x ELSE x - y
OrElse(option, default) == IF option = {} THEN default ELSE CHOOSE x \in option : TRUE

--------------------------------------------------------------------------
(* The printer.                                                             *)

\* `bed` is empty for a printer without a heated bed, `keyed` one that asks for
\* an API key, `says` a build of ESP3D that tells when a print is paused.
Server == {"esp3d", "octoprint", "moonraker"}

PrinterUnit == [server: Server, keyed: BOOLEAN, says: BOOLEAN, hot: Heat, bed: AtMostOne(Heat),
         phase: {"idle", "printing", "paused", "complete", "cancelled", "failed"}, done: 0..Total]

Active == {"printing", "paused"}

\* The text of Moonraker's answer, object after object as they were asked for.
\* One that the printer does not have is empty.
MoonrakerReply(u) ==
    << [name |-> "heater_bed",
        fields |-> IF u.bed = {} THEN <<>> ELSE [temperature |-> OrElse(u.bed, 0)]],
       [name |-> "extruder", fields |-> [temperature |-> u.hot]],
       [name |-> "print_stats",
        fields |-> [state |-> CASE u.phase = "idle" -> "standby"
                                [] u.phase = "failed" -> "error"
                                [] OTHER -> u.phase]],
       [name |-> "display_status", fields |-> [progress |-> u.done]] >>

OctoPrintFlags(u) == {f \in {"printing", "paused"} : u.phase = f}
                     \cup (IF u.phase = "failed" THEN {"error", "closedOrError"} ELSE {})

\* The temperatures, none when the serial port is closed. A printer with one
\* nozzle has `tool0`.
OctoPrintTemps(u) ==
    IF u.phase = "failed" THEN <<>>
    ELSE IF u.bed = {} THEN [tool0 |-> u.hot] ELSE [tool0 |-> u.hot, bed |-> OrElse(u.bed, 0)]

\* The percentage, null before a file is selected.
OctoPrintJob(u) == IF u.phase = "idle" THEN {} ELSE {100 * u.done}

\* M105: "T:" and "B:", the latter for a bed.
Esp3dTemps(u) == <<[key |-> "T:", actual |-> u.hot]>>
                 \o (IF u.bed = {} THEN <<>> ELSE <<[key |-> "B:", actual |-> OrElse(u.bed, 0)]>>)

\* M27: the bytes, or "Not SD printing".
Esp3dReply(u) == [bytes |-> IF u.phase \in Active THEN <<u.done, Total>> ELSE <<>>,
                  pause |-> u.phase = "paused" /\ u.says]

--------------------------------------------------------------------------
(* The clients.                                                             *)

Snapshot == [state: State, tool: AtMostOne(Heat), bed: AtMostOne(Heat), progress: AtMostOne(0..Total),
             firmware: AtMostOne({"ESP3D", "OctoPrint", "Moonraker compat", "Moonraker"})]

\* extract_nested_*: the first place of the inner key after the outer one,
\* whichever object it is in.
Nested(reply, outer, inner) ==
    LET after == {i \in DOMAIN reply : \E j \in 1..i : reply[j].name = outer}
        with  == {i \in after : inner \in DOMAIN reply[i].fields}
    IN  IF with = {} THEN {} ELSE {reply[Min(with)].fields[inner]}

\* extract_print_state: by name, and by the progress for a name it does not know.
MoonrakerState(reply) ==
    LET name     == OrElse(Nested(reply, "print_stats", "state"), "unknown")
        progress == OrElse(Nested(reply, "display_status", "progress"), 0)
    IN  CASE name \in {"standby", "idle"}       -> "Idle"
          [] name = "printing"                  -> "Printing"
          [] name \in {"paused", "pause"}       -> "Paused"
          [] name \in {"complete", "finished"}  -> "Completed"
          [] name \in {"error", "cancelled"}    -> "Error"
          [] OTHER -> IF progress >= Total THEN "Completed" ELSE IF progress > 0 THEN "Printing" ELSE "Idle"

MoonrakerStatus(reply, firmware) ==
    [state |-> MoonrakerState(reply),
     tool |-> Nested(reply, "extruder", "temperature"),
     bed |-> Nested(reply, "heater_bed", "temperature"),
     progress |-> {Bounded(p, 0, Total) : p \in Nested(reply, "display_status", "progress")},
     firmware |-> firmware]

\* The flags in the order they are asked for.
OctoPrintState(flags) ==
    CASE "printing" \in flags -> "Printing"
      [] "printing" \notin flags /\ "paused" \in flags -> "Paused"
      [] flags \cap {"printing", "paused"} = {} /\ flags \cap {"error", "closedOrError"} # {} -> "Error"
      [] OTHER -> "Idle"

\* parse_temps: `tool0`, or else `tool`.
OctoPrintTool(temps) ==
    IF "tool0" \in DOMAIN temps THEN {temps["tool0"]} ELSE IF "tool" \in DOMAIN temps THEN {temps["tool"]} ELSE {}

OctoPrintBed(temps) == IF "bed" \in DOMAIN temps THEN {temps["bed"]} ELSE {}

\* parse_job: the percentage as a fraction, within 0 and 1.
OctoPrintProgress(job) == {Bounded(percent \div 100, 0, Total) : percent \in job}

\* status(): the second request may fail; `came` tells whether it was answered.
OctoPrintStatus(u, came, firmware) ==
    [state |-> OctoPrintState(OctoPrintFlags(u)),
     tool |-> OctoPrintTool(OctoPrintTemps(u)), bed |-> OctoPrintBed(OctoPrintTemps(u)),
     progress |-> IF came THEN OctoPrintProgress(OctoPrintJob(u)) ELSE {},
     firmware |-> firmware]

\* scan_pair: what follows the first place of the key.
ScanPair(reply, key) ==
    LET found == {i \in DOMAIN reply : reply[i].key = key} IN IF found = {} THEN {} ELSE {reply[Min(found)].actual}

\* parse_sd_progress: two numbers, of which the second is not zero.
SdProgress(reply) ==
    IF Len(reply.bytes) >= 2 /\ reply.bytes[2] > 0
    THEN {Bounded(reply.bytes[1], 0, reply.bytes[2])} ELSE {}

\* status(): without progress the printer is taken for idle.
Esp3dStatus(u, came, firmware) ==
    LET reply    == IF came THEN Esp3dReply(u) ELSE [bytes |-> <<>>, pause |-> FALSE]
        progress == SdProgress(reply)
    IN  [state |-> IF progress = {} THEN "Idle" ELSE IF reply.pause THEN "Paused" ELSE "Printing",
         tool |-> ScanPair(Esp3dTemps(u), "T:"), bed |-> ScanPair(Esp3dTemps(u), "B:"),
         progress |-> progress, firmware |-> firmware]

StatusOf(kind, u, came, firmware) ==
    CASE kind = "esp3d"     -> Esp3dStatus(u, came, firmware)
      [] kind = "moonraker" -> MoonrakerStatus(MoonrakerReply(u), firmware)
      [] OTHER              -> OctoPrintStatus(u, came, firmware)

\* authenticated(): the key goes out with two of the protocols.
Admitted(kind) == unit.keyed => kind \in {"octoprint", "moonraker-compat"}

\* make_client(): the native Moonraker client introduces itself as the other.
NewClient(protocol) ==
    [kind |-> protocol, protocol |-> IF protocol = "moonraker" THEN "moonraker-compat" ELSE protocol,
     connected |-> FALSE, firmware |-> {}]

FirmwareOf(protocol) == CASE protocol = "esp3d"            -> "ESP3D"
                          [] protocol = "octoprint"        -> "OctoPrint"
                          [] protocol = "moonraker-compat" -> "Moonraker compat"
                          [] protocol = "moonraker"        -> "Moonraker"

--------------------------------------------------------------------------
(* Discovery: a type of service that cannot be browsed costs its printers,  *)
(* and the type decides the protocol.                                       *)

ServiceTypes == {"octoprint", "esp3d", "moonraker"}

Scan(announced, failing) ==
    [printers |-> {a \in announced : a.type \in ServiceTypes \ failing}, errors |-> failing]

ToTarget(found) == [name |-> found.name, protocol |-> found.type]

\* What a server can be spoken to in: Moonraker has a shim for the other API.
Spoken(server) == IF server = "moonraker" THEN {"moonraker", "moonraker-compat"} ELSE {server}

--------------------------------------------------------------------------
(* Telemetry and feedback.                                                  *)

Observation(snapshot, z) == [z |-> z, tool |-> snapshot.tool, bed |-> snapshot.bed,
                             completion |-> OrElse(snapshot.progress, 0)]

\* A mutation of Warming: one missing reading makes the layer unknown.
WarmingBoth(o) == IF o.tool = {} \/ o.bed = {} THEN {} ELSE {Difference(t, Ambient) : t \in o.tool \cup o.bed}

\* The differences from ambient that are known: f64::max passes NaN over.
Warming(o) == {Difference(t, Ambient) : t \in o.tool \cup o.bed}

Greatest(S) == IF S = {} THEN {} ELSE {Max(S)}

\* The displacement of a layer, nothing when no reading was there.
Displacement(o) == {(IF o.z > 1 THEN o.z ELSE 1) * d : d \in Greatest(Warming(o))}

\* DeviationReport: NaN is never greater than what was found before.
DeviationReport(observations) ==
    LET global == Max({0} \cup UNION {Displacement(observations[i]) : i \in DOMAIN observations})
    IN  [layers |-> [i \in DOMAIN observations |-> Displacement(observations[i])],
         global |-> global,
         stress |-> Max({0} \cup UNION {Warming(observations[i]) : i \in DOMAIN observations}),
         exceeds |-> global > Limit]

\* temperature_field at height z, as a numerator and a denominator.
TemperatureField(observations, z) ==
    LET temps   == UNION {Greatest(observations[i].tool \cup observations[i].bed) : i \in DOMAIN observations}
        hottest == Max({0, Ambient + 1} \cup temps)
        last    == observations[Len(observations)]
        current == Greatest(last.tool \cup last.bed)
    IN  IF observations = <<>> \/ last.z = 0 THEN {<<0, 1>>}
        ELSE LET scale == (hottest - Ambient) * last.z
             IN  {<<Bounded((t - Ambient) * Bounded(z, 0, last.z), 0, scale), scale>> : t \in current}

\* correct(): flow in thousandths, the offset of the setpoint in tenths.
Correction(width, heat) ==
    [flow |-> Bounded(1000 - 5 * (width - Nominal), 500, 1500),
     offset |-> Bounded(Setpoint - heat, -100, 100)]

--------------------------------------------------------------------------
(* Steps.                                                                   *)

StatusInit ==
    /\ unit \in [server: Server, keyed: BOOLEAN, says: BOOLEAN, hot: Heat, bed: AtMostOne(Heat),
                 phase: {"idle"}, done: {0}]
    /\ unit.says => unit.server = "esp3d"
    /\ client = {} /\ shown = {} /\ log = <<>>

\* The printer goes on: a status is compared with it until then.
Becomes(u) == unit' = u /\ shown' = {} /\ UNCHANGED client

Heats(t) == Becomes([unit EXCEPT !.hot = t]) /\ UNCHANGED log

Starts == /\ unit.phase \notin Active
          /\ Becomes([unit EXCEPT !.phase = "printing", !.done = 0]) /\ log' = <<>>

Advances == /\ unit.phase = "printing"
            /\ Becomes([unit EXCEPT !.done = unit.done + 1,
                                    !.phase = IF unit.done + 1 = Total THEN "complete" ELSE "printing"])
            /\ UNCHANGED log

Fails == unit.phase \in Active /\ Becomes([unit EXCEPT !.phase = "failed"]) /\ UNCHANGED log

PrinterMoves == Starts \/ Advances \/ Fails \/ \E t \in Heat : Heats(t)

\* The scan of the setup, or an address and a protocol typed in.
Discover ==
    \E failing \in SUBSET ServiceTypes :
        \E found \in Scan({[name |-> "printer", type |-> unit.server]}, failing).printers :
            client' = {NewClient(ToTarget(found).protocol)}

Configure == \E kind \in Spoken(unit.server) : client' = {NewClient(kind)}

MakeClient == client = {} /\ (Discover \/ Configure) /\ UNCHANGED <<unit, shown, log>>

TestConnection ==
    /\ \E c \in client : /\ Admitted(c.kind)
                         /\ client' = {[c EXCEPT !.connected = TRUE, !.firmware = {FirmwareOf(c.kind)}]}
    /\ UNCHANGED <<unit, shown, log>>

Poll ==
    /\ \E c \in client, came \in BOOLEAN :
          Admitted(c.kind) /\ shown' = {StatusOf(c.kind, unit, came, c.firmware)}
    /\ UNCHANGED <<unit, client, log>>

\* pause(), resume() and cancel(), when the printer is reached; that its answer
\* is lost changes nothing here.
Control(from, to) ==
    /\ \E c \in client : Admitted(c.kind)
    /\ unit.phase \in from
    /\ Becomes([unit EXCEPT !.phase = to]) /\ UNCHANGED log

Pause == Control({"printing"}, "paused")
Resume == Control({"paused"}, "printing")
Cancel == Control(Active, "cancelled")

\* Bound: one observation of a layer.
Observe ==
    /\ Len(log) < MaxLog /\ \A i \in DOMAIN log : log[i].z < unit.done
    /\ \E snapshot \in shown : log' = Append(log, Observation(snapshot, unit.done))
    /\ UNCHANGED <<unit, client, shown>>

StatusNext == PrinterMoves \/ MakeClient \/ TestConnection \/ Poll \/ Pause \/ Resume \/ Cancel \/ Observe

StatusSpec == StatusInit /\ [][StatusNext]_statusVars

--------------------------------------------------------------------------
(* Correctness.                                                             *)

StatusTypeOK ==
    /\ unit \in PrinterUnit /\ shown \in AtMostOne(Snapshot)
    /\ \A c \in client : c.kind \in Spoken(unit.server)

\* What each phase is to be shown as; a printer whose print was cancelled is idle.
Told(phase) == CASE phase \in {"idle", "cancelled"} -> "Idle"
                 [] phase = "printing"  -> "Printing"
                 [] phase = "paused"    -> "Paused"
                 [] phase = "complete"  -> "Completed"
                 [] phase = "failed"    -> "Error"

OctoPrintApi == {"octoprint", "moonraker-compat"}

\* The states that are shown of another phase than the printer's. ESP3D: the
\* pause of a build that does not tell it, a print under way while the answer
\* to M27 is lost, and a print that ended, well or not, which M27 does not tell
\* from none. OctoPrint's flags do not tell a print that ended well from none.
\* Native Moonraker's client takes a cancelled print for an error.
Mistaken(kind, u, s) ==
    \/ kind = "esp3d" /\ u.phase = "paused" /\ ~u.says /\ s.state = "Printing"
    \/ kind = "esp3d" /\ u.phase \in Active /\ s.progress = {} /\ s.state = "Idle"
    \/ kind = "esp3d" /\ u.phase \in {"complete", "failed"} /\ s.state = "Idle"
    \/ kind \in OctoPrintApi /\ u.phase = "complete" /\ s.state = "Idle"
    \/ kind = "moonraker" /\ u.phase = "cancelled" /\ s.state = "Error"

\* A status tells the phase of its printer but for the mistakes above, and no
\* progress but that of the print.
StateIsTrue ==
    \A s \in shown, c \in client :
        /\ s.state = Told(unit.phase) \/ Mistaken(c.kind, unit, s)
        /\ s.progress \subseteq {unit.done}

\* OctoPrint does not reach the heaters of a printer that failed.
Unreached(kind, u) == kind \in OctoPrintApi /\ u.phase = "failed"

\* The readings are those of the heaters, and missing where there is no heater
\* or it is not reached: but without a bed native Moonraker's search runs on into
\* the next object, and the nozzle's reading is shown as the bed's.
ReadingsAreOwn ==
    \A s \in shown, c \in client :
        /\ s.tool = IF Unreached(c.kind, unit) THEN {} ELSE {unit.hot}
        /\ s.bed = IF Unreached(c.kind, unit) THEN {}
                   ELSE IF c.kind = "moonraker" /\ unit.bed = {} THEN {unit.hot} ELSE unit.bed

\* "Missing readings use [`TEMPERATURE_AMBIENT`]" (client.rs): a printer without
\* a bed is not shown with a reading of one. Native Moonraker's is.
MissingReadingsAreMissing == \A s \in shown : s.bed \subseteq unit.bed

\* A report warns of a layer that warps too much by the readings it has, and of
\* nothing else; its field stays within ambient and hottest at any height.
WarpIsNoticed ==
    /\ DeviationReport(log).exceeds <=>
          \E i \in DOMAIN log : \E t \in log[i].tool \cup log[i].bed :
              Limit < Difference(t, Ambient) * (IF log[i].z = 0 THEN 1 ELSE log[i].z)
    /\ \A z \in 0..Total : \A f \in TemperatureField(log, z) : f[2] > 0 /\ f[1] \in 0..f[2]

\* A correction works against the deviation, and within its bounds.
CorrectionsHelp ==
    \A s \in shown : \A t \in s.tool, w \in Widths :
        LET c == Correction(w, t) IN
            /\ c.flow \in 500..1500 /\ c.offset \in -100..100
            /\ (c.flow - 1000) * (w - Nominal) <= 0 /\ c.offset * (t - Setpoint) <= 0
            /\ c.flow = 1000 <=> w = Nominal

\* What is shown of a printer is its phase, its progress and its heaters', in each
\* of the protocols and whichever of the answers is lost, but for five mistakes
\* about the phase (Mistaken) and one about the bed (ReadingsAreOwn); reports and
\* corrections follow the readings they have.
PrintersAreWatched == StatusTypeOK /\ StateIsTrue /\ ReadingsAreOwn /\ WarpIsNoticed /\ CorrectionsHelp
=============================================================================
