------------------------------ MODULE FlowRecords ------------------------------
(***************************************************************************)
(* How flows are read out of the octets of a data set with its template    *)
(* (flow/netflow-v9.ts, for NetFlow v9 and IPFIX), and out of a NetFlow v5 *)
(* datagram (flow/netflow-v5.ts).                                          *)
(*                                                                         *)
(* A step reads a field.  An octet has `Octets' values, so that numbers of *)
(* eight of them can be counted with; clocks tick in milliseconds, of      *)
(* which a second has `Second'.  What a field holds is the sequence of its *)
(* octets, and a number or a time that was read is a sequence of one.      *)
(***************************************************************************)
EXTENDS Integers, Sequences, SequencesExt

CONSTANTS Octets,        \* values of an octet
          Second,        \* milliseconds in a second
          NtpOffset,     \* NTP_EPOCH_OFFSET_SECONDS
          MinPlausible,  \* isPlausible's floor
          Exports,       \* the data sets and the version 5 datagrams that exporters send
          MaxV5          \* V5_MAX_RECORDS

ASSUME RecordsAssumption ==
    /\ {Octets, Second, NtpOffset, MinPlausible, MaxV5} \subseteq Nat /\ Octets > 2 /\ Second > 0

Variable == -1   \* VARIABLE_LENGTH
Absent == <<>>

\* IE: where the value of an element goes, what it is, and the octets an address takes.
Element(slot, kind, width) == [slot |-> slot, kind |-> kind, width |-> width]
Elements ==
    {Element(s, "number", 0) : s \in {"protocol", "sourcePort", "targetPort", "packets", "bytes", "flags",
                                      "ingress", "egress", "startUptime", "endUptime", "start", "end"}}
    \cup {Element(s, "address", w) : s \in {"source", "target"}, w \in {4, 16}}
    \cup {Element(s, "address", 6) : s \in {"sourceMac", "targetMac"}}
    \cup {Element(s, k, 0) : s \in {"start", "end"}, k \in {"seconds", "ntp"}}
    \cup {Element("unknown", "skipped", 0)}
FlowSlots == {e.slot : e \in Elements}

\* A template's field: an element with its length, of the standard or of a vendor.
Field(element, length, vendor) == [element |-> element, length |-> length, vendor |-> vendor]
TemplateType == Seq([element : Elements, length : {Variable} \cup Nat, vendor : BOOLEAN])

VARIABLES export,    \* what is being read
          offset,    \* into its body
          started,   \* where the record began
          index,     \* the field that is next; 0 between records
          raw,       \* the record so far
          flows,     \* result.records
          malformations,    \* result.malformed
          finished

recordVars == <<export, offset, started, index, raw, flows, malformations, finished>>

-----------------------------------------------------------------------------
(* The exporter, which writes the records it has, with padding; some of    *)
(* the last octets may be missing.                                         *)

EncodedField(f, value) ==
    IF f.length # Variable THEN value
    ELSE IF Len(value) < Octets - 1 THEN <<Len(value)>> \o value
    ELSE <<Octets - 1, Len(value) \div Octets, Len(value) % Octets>> \o value
Encoded(fields, values) == FlattenSeq([i \in DOMAIN fields |-> EncodedField(fields[i], values[i])])
SetBody(e) ==
    LET whole == FlattenSeq([r \in DOMAIN e.records |-> Encoded(e.fields, e.records[r])])
                 \o [i \in 1..e.padding |-> 0]
    IN SubSeq(whole, 1, Len(whole) - e.missing)

-----------------------------------------------------------------------------
(* Values. *)

NumberOf(octets) == FoldLeft(LAMBDA n, o : Octets * n + o, 0, octets)
\* readUnsigned: of an odd width the low six octets.
Unsigned(octets) ==
    NumberOf(IF Len(octets) <= 6 \/ Len(octets) = 8 THEN octets
             ELSE SubSeq(octets, Len(octets) - 5, Len(octets)))
\* ntpToUnixMs
NtpTime(octets) ==
    IF Len(octets) < 8 \/ NumberOf(SubSeq(octets, 1, 4)) = 0 THEN Absent
    ELSE <<(NumberOf(SubSeq(octets, 1, 4)) - NtpOffset) * Second
           + (NumberOf(SubSeq(octets, 5, 8)) * Second) \div (Octets * Octets * Octets * Octets)>>

NoRecord == [s \in FlowSlots |-> IF s \in {"protocol", "sourcePort", "targetPort", "packets", "bytes"}
                             THEN <<0>> ELSE Absent]
\* A mutant: a vendor's field is taken for the standard one of its number.
MutantAssigns(f, octets) == f.element.kind # "skipped" /\ Len(octets) >= f.element.width
\* decodeRecord's switch.  An address of too few octets is left out.
Assigns(f, octets) == ~f.vendor /\ f.element.kind # "skipped" /\ Len(octets) >= f.element.width
ReadAs(kind, width, octets) ==
    CASE kind = "number" -> <<Unsigned(octets)>>
      [] kind = "address" -> SubSeq(octets, 1, width)
      [] kind = "seconds" -> <<Unsigned(octets) * Second>>
      [] kind = "ntp" -> NtpTime(octets)
Put(record, f, octets) ==
    IF Assigns(f, octets)
    THEN [record EXCEPT ![f.element.slot] = ReadAs(f.element.kind, f.element.width, octets)] ELSE record

\* When the exporter started, by its own clock; IPFIX does not say.
BootOf(e) == IF e.format = "ipfix" THEN 0 ELSE e.clock - e.uptime

IsPlausible(time) == time # Absent /\ time[1] > MinPlausible
FromUptime(time, uptime, boot) ==
    IF time # Absent THEN time ELSE IF uptime # Absent /\ boot > 0 THEN <<boot + uptime[1]>> ELSE Absent
\* resolveTimes
ResolvedTimes(record, boot, observed) ==
    LET start == FromUptime(record["start"], record["startUptime"], boot)
        end == FromUptime(record["end"], record["endUptime"], boot)
    IN CASE IsPlausible(start) /\ IsPlausible(end) ->
                <<start[1], IF start[1] > end[1] THEN start[1] ELSE end[1]>>
         [] ~IsPlausible(start) /\ IsPlausible(end) -> <<end[1], end[1]>>
         [] IsPlausible(start) /\ ~IsPlausible(end) -> <<start[1], start[1]>>
         [] OTHER -> <<observed, observed>>
FlowOf(record, times) ==
    [s \in FlowSlots \ {"startUptime", "endUptime", "unknown"} |->
        CASE s = "start" -> <<times[1]>> [] s = "end" -> <<times[2]>> [] OTHER -> record[s]]

-----------------------------------------------------------------------------
(* readDataSet, decodeRecord *)

IsVariable(fields) == \E i \in DOMAIN fields : fields[i].length = Variable
\* templateFixedLength; of a record that is measured as it is read, an octet for each field.
LeastLength(fields) == IF IsVariable(fields) THEN Len(fields)
                       ELSE FoldLeft(LAMBDA n, f : n + f.length, 0, fields)

Stops == finished' = TRUE /\ UNCHANGED <<export, offset, started, index, raw, flows>>
BeginsRecord ==
    /\ ~finished /\ export.format # "v5" /\ index = 0
    /\ IF offset < Len(SetBody(export)) /\ Len(SetBody(export)) - offset >= LeastLength(export.fields)
       THEN /\ index' = 1 /\ started' = offset /\ raw' = NoRecord
            /\ UNCHANGED <<export, offset, flows, malformations, finished>>
       ELSE Stops /\ UNCHANGED malformations  \* what is left is padding

\* Where the octets of the field begin and how many they are; none that is whole may be left.
Cutoff == [at |-> 0, length |-> -1]
Extent(f, body, from) ==
    IF f.length # Variable THEN [at |-> from, length |-> f.length]
    ELSE IF from >= Len(body) THEN Cutoff
    ELSE IF body[from + 1] # Octets - 1 THEN [at |-> from + 1, length |-> body[from + 1]]
    ELSE IF from + 3 > Len(body) THEN Cutoff
    ELSE [at |-> from + 3, length |-> Octets * body[from + 2] + body[from + 3]]
ReadsField ==
    /\ ~finished /\ index > 0 /\ index <= Len(export.fields)
    /\ LET f == export.fields[index]
           body == SetBody(export)
           extent == Extent(f, body, offset)
           end == extent.at + extent.length
       IN IF extent.length < 0 \/ end > Len(body)
          THEN Stops /\ malformations' = malformations + 1
          ELSE /\ raw' = Put(raw, f, SubSeq(body, extent.at + 1, end))
               /\ offset' = end /\ index' = index + 1
               /\ UNCHANGED <<export, started, flows, malformations, finished>>
EndsRecord ==
    /\ ~finished /\ index > 0 /\ index = Len(export.fields) + 1
    /\ flows' = Append(flows, FlowOf(raw, ResolvedTimes(raw, BootOf(export), export.observed)))
    /\ index' = 0 /\ finished' = (offset = started) /\ malformations' = malformations + (IF offset = started THEN 1 ELSE 0)
    /\ UNCHANGED <<export, offset, started, raw>>

-----------------------------------------------------------------------------
(* parseNetflowV5: as many records as are claimed, there and allowed. *)

V5Header == 24
V5Length == 48
V5Count(e) == LET there == (e.octets - V5Header) \div V5Length
              IN CHOOSE n \in {e.claimed, there, MaxV5} : \A m \in {e.claimed, there, MaxV5} : n <= m
V5Flow(record, boot) ==
    FlowOf([NoRecord EXCEPT !["packets"] = record.packets],
           <<boot + record.startUptime, boot + record.endUptime>>)
ReadsV5 ==
    /\ ~finished /\ export.format = "v5" /\ finished' = TRUE
    /\ IF export.octets < V5Header THEN malformations' = malformations + 1 /\ UNCHANGED flows
       ELSE /\ malformations' = malformations + (IF V5Count(export) < export.claimed THEN 1 ELSE 0)
            /\ flows' = [i \in 1..V5Count(export) |-> V5Flow(export.records[i], BootOf(export))]
    /\ UNCHANGED <<export, offset, started, index, raw>>

RecordsInit ==
    /\ export \in Exports /\ offset = 0 /\ started = 0 /\ index = 0 /\ raw = NoRecord
    /\ flows = <<>> /\ malformations = 0 /\ finished = FALSE
RecordsNext == BeginsRecord \/ ReadsField \/ EndsRecord \/ ReadsV5
RecordsSpec == RecordsInit /\ [][RecordsNext]_recordVars

-----------------------------------------------------------------------------
(* Properties. *)

RecordsTypeOK ==
    /\ export \in Exports /\ offset \in Nat /\ started \in Nat /\ index \in Nat
    /\ DOMAIN raw = FlowSlots /\ malformations \in {0, 1} /\ finished \in BOOLEAN
    /\ \A i \in DOMAIN flows : DOMAIN flows[i] = FlowSlots \ {"startUptime", "endUptime", "unknown"}

\* What a record says of a slot: the last of its standard fields that is long enough to say it.
SaidOf(e, values, slot) ==
    LET saying == {i \in DOMAIN e.fields :
                     /\ ~e.fields[i].vendor /\ e.fields[i].element.slot = slot
                     /\ Len(values[i]) >= e.fields[i].element.width}
        last == CHOOSE i \in saying : \A j \in saying : j <= i
    IN IF saying = {} THEN NoRecord[slot]
       ELSE IF e.fields[last].element.kind = "number" THEN <<NumberOf(values[last])>>
       ELSE SubSeq(values[last], 1, e.fields[last].element.width)

\* Each flow has what its own record says, wherever in the octets it lay, however wide it was
\* written, and whatever vendors' fields and padding lie between.
FlowsAreWritten ==
    export.format # "v5" =>
        /\ Len(flows) <= Len(export.records)
        /\ \A i \in DOMAIN flows : \A s \in DOMAIN flows[i] \ {"start", "end"} :
              flows[i][s] = SaidOf(export, export.records[i], s)

\* Nothing that arrived whole is left out, and what did not is counted once.
FlowsAreComplete ==
    finished /\ export.format # "v5" =>
        LET end(n) == Len(FlattenSeq([r \in 1..n |-> Encoded(export.fields, export.records[r])]))
            whole == {n \in DOMAIN export.records : end(n) <= Len(SetBody(export))}
        IN /\ DOMAIN flows = whole
           /\ malformations = 1 => export.missing > 0 \/ export.padding >= LeastLength(export.fields)

\* A flow ends when it starts or later, and has a time that its exporter's clock can have shown,
\* or else that of its arrival.
TimesAreSound ==
    export.format # "v5" =>
        \A i \in DOMAIN flows :
            LET start == flows[i]["start"][1]
                end == flows[i]["end"][1]
            IN /\ start <= end
               /\ start <= MinPlausible => <<start, end>> = <<export.observed, export.observed>>

\* A version 5 datagram yields the records that it holds, up to the limit, as long before it as
\* its exporter's uptime says.
V5IsExact ==
    export.format = "v5" /\ finished =>
        /\ V5Header + V5Length * Len(flows) <= export.octets \/ flows = <<>>
        /\ malformations = 0 <=> (Len(flows) = export.claimed /\ export.octets >= V5Header)
        /\ \A i \in DOMAIN flows :
              /\ flows[i]["packets"] = export.records[i].packets
              /\ export.clock - flows[i]["start"][1] = export.uptime - export.records[i].startUptime
              /\ export.clock - flows[i]["end"][1] = export.uptime - export.records[i].endUptime

RecordsExact ==
    FlowsAreWritten /\ FlowsAreComplete /\ TimesAreSound /\ V5IsExact
=============================================================================
