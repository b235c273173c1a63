---------------------------- MODULE MessageText ------------------------------
(***************************************************************************)
(* What a notification says once it is text: the digest and the seven ways *)
(* it is rendered (notify/notifier.ts, notify/format.ts), the CEF record   *)
(* of the SIEM feed (notify/cef.ts), and the line that carries it          *)
(* (notify/syslog.ts).  Each is written here as the code computes it and   *)
(* read back by a definition of what a reader of the format sees.          *)
(*                                                                         *)
(* A text is a sequence of the characters the formats tell apart: "x" for  *)
(* any letter, "key" for a word that is also a field name, "nl" for a line *)
(* break.  In a line a character is the number of its bytes.               *)
(***************************************************************************)
EXTENDS Integers, Sequences, FiniteSets, FiniteSetsExt, SequencesExt

CONSTANTS MaxListedFindings,      \* MAX_LISTED_FINDINGS
          MaxEmbeds,      \* embeds of a Discord message
          MaxString,      \* CEF_STRING_MAX
          MaxLine,        \* UDP_SAFE_BYTES
          MarkerBytes,    \* of TRUNCATION_MARKER
          MaxBatch, MaxText  \* bounds: findings of a digest, characters of a text

ASSUME MessageAssumption ==
    /\ MaxListedFindings \in Nat \ {0} /\ MaxListedFindings <= MaxEmbeds /\ MaxString \in Nat
    /\ MaxLine \in Nat /\ MarkerBytes \in 0..MaxLine /\ MaxBatch \in Nat /\ MaxText \in Nat

VARIABLES work,    \* what is to be said: a digest, records, or a line
          said     \* what the code made of it

messageVars == <<work, said>>

-----------------------------------------------------------------------------
(* The digest. *)

Urgencies == 1..3                        \* critical is 1
Items == [severity : Urgencies, occurrences : 1..2]

MoreUrgent(a, b) ==
    a.severity < b.severity \/ (a.severity = b.severity /\ a.occurrences > b.occurrences)

\* buildNotification: a stable sort, cut to what a message lists.
Digest(batch, omitted) ==
    LET order == SetToSortSeq(DOMAIN batch,
                    LAMBDA i, j : MoreUrgent(batch[i], batch[j]) \/ (~MoreUrgent(batch[j], batch[i]) /\ i < j))
        listed == SubSeq(order, 1, IF Len(order) < MaxListedFindings THEN Len(order) ELSE MaxListedFindings)
    IN  [findings |-> listed, omitted |-> omitted + Len(order) - Len(listed),
         counts |-> [s \in Urgencies |-> Cardinality({i \in DOMAIN batch : batch[i].severity = s})]]

Renderings == {"text", "html", "slack", "teams", "teams-connector", "discord", "generic"}

\* The headline counts everything.
Headline(digest) == Len(digest.findings) + digest.omitted
\* A Discord message has room for so many embeds.
ListedBy(rendering, digest) ==
    IF rendering = "discord"
    THEN SubSeq(digest.findings, 1, IF Len(digest.findings) < MaxEmbeds THEN Len(digest.findings) ELSE MaxEmbeds)
    ELSE digest.findings
\* Two formats have no line for the findings left out.
SaysMore(rendering) == rendering \notin {"discord", "teams-connector"}
Rendered(rendering, digest) ==
    [total |-> Headline(digest), listed |-> ListedBy(rendering, digest),
     more |-> IF SaysMore(rendering) THEN digest.omitted ELSE 0]

-----------------------------------------------------------------------------
(* Escaping. *)

SubstAll(text, c, by) == FlattenSeq([i \in DOMAIN text |-> IF text[i] = c THEN by ELSE <<text[i]>>])
Slash == "\\"

EscapeHeader(text) ==
    SubstAll(SubstAll(SubstAll(text, Slash, <<Slash, Slash>>), "|", <<Slash, "|">>), "nl", <<" ">>)

\* The backslash first, or those of the equals signs are doubled.
EscapeExtension(text) ==
    SubstAll(SubstAll(SubstAll(text, Slash, <<Slash, Slash>>), "=", <<Slash, "=">>), "nl", <<" ">>)

\* escapeAdaptive; "*" is any of the characters that make markup.
EscapeAdaptive(text) == SubstAll(SubstAll(text, Slash, <<Slash, Slash>>), "*", <<Slash, "*">>)

\* escapeHtml, escapeSlack; "<" is any character that has an entity.
EscapeEntities(text) == SubstAll(SubstAll(text, "&", <<"&", "amp;">>), "<", <<"&", "lt;">>)

-----------------------------------------------------------------------------
(* The CEF record. *)

Cut(text, most) == SubSeq(text, 1, IF Len(text) < most THEN Len(text) ELSE most)

\* The header has the title; the extension a message and, as its last, an evidence string.
Cef(finding) ==
    <<"CEF", "|">> \o EscapeHeader(finding.title) \o <<"|", "key", "=">>
        \o EscapeExtension(finding.description)
        \o <<" ", "key", "=">> \o Cut(EscapeExtension(finding.evidence), MaxString)

\* What goes over TCP: one record a line.
Stream(findings) ==
    FlattenSeq([i \in DOMAIN findings |-> Cef(findings[i]) \o <<"nl">>])

-----------------------------------------------------------------------------
(* What a reader sees. *)

\* A character is escaped if an odd number of backslashes stands before it.
IsEscaped(text, i) ==
    \E n \in 1..(i - 1) : /\ n % 2 = 1
                          /\ \A j \in (i - n)..(i - 1) : text[j] = Slash
                          /\ i - n = 1 \/ text[i - n - 1] # Slash

\* A backslash before another character says that one; the last of a text, nothing.
Unescaped(text) ==
    FlattenSeq([i \in DOMAIN text |-> IF text[i] = Slash /\ ~IsEscaped(text, i) THEN <<>> ELSE <<text[i]>>])

LinesOf(stream) ==
    LET ends == SetToSortSeq({i \in DOMAIN stream : stream[i] = "nl"}, <)
    IN  [k \in DOMAIN ends |-> SubSeq(stream, IF k = 1 THEN 1 ELSE ends[k - 1] + 1, ends[k] - 1)]

\* The header ends at its second bar; a field starts at a key with an equals sign.
ReadRecord(line) ==
    LET bars == SetToSortSeq({i \in DOMAIN line : line[i] = "|" /\ ~IsEscaped(line, i)}, <)
        fields == SetToSortSeq({i \in (bars[2] + 1)..(Len(line) - 1) :
                                  /\ line[i] = "key" /\ line[i + 1] = "="
                                  /\ i = bars[2] + 1 \/ line[i - 1] = " "}, <)
        valueOf(k) == Unescaped(SubSeq(line, fields[k] + 2,
                                       IF k = Len(fields) THEN Len(line) ELSE fields[k + 1] - 2))
    IN  [title |-> Unescaped(SubSeq(line, bars[1] + 1, bars[2] - 1)),
         values |-> [k \in DOMAIN fields |-> valueOf(k)]]

OneLine(text) == SubstAll(text, "nl", <<" ">>)

\* An adaptive card: markup is a star no backslash stands before.
ReadAdaptive(text) ==
    [says |-> FlattenSeq([i \in DOMAIN text |->
                 IF text[i] = Slash /\ ~IsEscaped(text, i) /\ i < Len(text) /\ text[i + 1] \in {Slash, "*"}
                 THEN <<>> ELSE <<text[i]>>]),
     markup |-> {i \in DOMAIN text : text[i] = "*" /\ ~IsEscaped(text, i)}]
ReadEntities(text) ==
    [says |-> FlattenSeq([i \in DOMAIN text |->
                 IF text[i] = "&" THEN <<>>
                 ELSE IF i > 1 /\ text[i - 1] = "&" THEN <<IF text[i] = "amp;" THEN "&" ELSE "<">>
                 ELSE <<text[i]>>]),
     markup |-> {i \in DOMAIN text : text[i] = "<"}]

-----------------------------------------------------------------------------
(* The line of a datagram. *)

BytesOf(line) == FlattenSeq([i \in DOMAIN line |-> [k \in 1..line[i] |-> IF k = 1 THEN "first" ELSE "next"]])

\* truncateToBytes: how many bytes of the line are kept.
WalksBack(bytes, end) ==
    Max({e \in 0..end : e = 0 \/ bytes[e + 1] = "first"})
KeptBytes(line) ==
    LET bytes == BytesOf(line)
    IN  IF Len(bytes) <= MaxLine THEN Len(bytes) ELSE WalksBack(bytes, MaxLine - MarkerBytes)

-----------------------------------------------------------------------------
TextsOf(chars, most) == UNION {[1..n -> chars] : n \in 0..most}
Plain == <<"x">>
CefChars == {"x", Slash, "|", "=", "nl", " ", "key"}
CefFindings ==
    UNION {{[[title |-> Plain, description |-> Plain, evidence |-> Plain] EXCEPT ![f] = text]
                : text \in TextsOf(CefChars, MaxText)} : f \in {"title", "description", "evidence"}}

NothingSaid == [of |-> "nothing"]
MessageInit ==
    /\ said = NothingSaid
    /\ \/ \E batch \in TextsOf(Items, MaxBatch), omitted \in {0, 2} :
             work = [of |-> "digest", batch |-> batch, omitted |-> omitted]
       \/ \E finding \in CefFindings : work = [of |-> "records", findings |-> <<finding, finding>>]
       \/ \E text \in TextsOf({"x", Slash, "*", "&", "<", "amp;"}, MaxText) : work = [of |-> "prose", text |-> text]
       \/ \E line \in TextsOf(1..3, MaxLine) : work = [of |-> "line", line |-> line]

SaysDigest(rendering) ==
    /\ work.of = "digest" /\ work.batch # <<>>
    /\ said' = [of |-> "digest", rendering |-> rendering, digest |-> Digest(work.batch, work.omitted),
                message |-> Rendered(rendering, Digest(work.batch, work.omitted))]
    /\ UNCHANGED work
SendsRecords ==
    /\ work.of = "records" /\ said' = [of |-> "records", stream |-> Stream(work.findings)]
    /\ UNCHANGED work
SaysProse ==
    /\ work.of = "prose"
    /\ said' = [of |-> "prose", adaptive |-> EscapeAdaptive(work.text), entities |-> EscapeEntities(work.text)]
    /\ UNCHANGED work
SendsLine ==
    /\ work.of = "line" /\ said' = [of |-> "line", kept |-> KeptBytes(work.line)]
    /\ UNCHANGED work

MessageNext ==
    \/ \E rendering \in Renderings : SaysDigest(rendering)
    \/ SendsRecords \/ SaysProse \/ SendsLine
MessageSpec == MessageInit /\ [][MessageNext]_messageVars

-----------------------------------------------------------------------------
(* Properties *)

MessageTypeOK == work.of \in {"digest", "records", "prose", "line"} /\ said.of \in {"nothing", work.of}

\* A digest accounts for every finding of its batch and every one the ceiling kept
\* back: in its headline always, and in its list and its "and N more" in every format
\* that has one; nothing that is left out is more urgent than something listed.
DigestAccounts ==
    said.of = "digest" =>
        LET batch == work.batch
            shown == Range(said.message.listed)
        IN  /\ said.message.total = Len(batch) + work.omitted
            /\ said.rendering \notin {"discord", "teams-connector"} =>
                   Cardinality(shown) + said.message.more = said.message.total
            /\ MapThenSumSet(LAMBDA s : said.digest.counts[s], Urgencies) = Len(batch)
            /\ \A left \in DOMAIN batch \ shown, i \in shown : ~MoreUrgent(batch[left], batch[i])

\* A collector that splits the stream at line breaks, the record at its bars and the
\* extension at its keys finds what the finding said, line breaks apart, whatever bars,
\* backslashes, equals signs or field names it is made of; of an evidence string too
\* long, its beginning.
RecordsReadBack ==
    said.of = "records" =>
        LET lines == LinesOf(said.stream)
        IN  /\ Len(lines) = Len(work.findings)
            /\ \A k \in DOMAIN lines :
                  LET record == ReadRecord(lines[k])
                      finding == work.findings[k]
                  IN  /\ record.title = OneLine(finding.title)
                      /\ Len(record.values) = 2 /\ record.values[1] = OneLine(finding.description)
                      /\ IsPrefix(record.values[2], OneLine(finding.evidence))
                      /\ Len(EscapeExtension(finding.evidence)) <= MaxString =>
                             record.values[2] = OneLine(finding.evidence)

\* Text from outside arrives as text: nothing in it is markup, and it reads as it was.
ProseReadsBack ==
    said.of = "prose" =>
        /\ ReadAdaptive(said.adaptive) = [says |-> work.text, markup |-> {}]
        /\ ReadEntities(said.entities) = [says |-> work.text, markup |-> {}]

\* What is kept of a line fits beside the marker, ends with a whole character, and is
\* as long as such a beginning can be.
LineFits ==
    said.of = "line" =>
        LET lengths == {Len(BytesOf(SubSeq(work.line, 1, n))) : n \in 0..Len(work.line)}
            room == IF Max(lengths) <= MaxLine THEN MaxLine ELSE MaxLine - MarkerBytes
        IN  said.kept = Max({n \in lengths : n <= room})

MessagesExact == DigestAccounts /\ RecordsReadBack /\ ProseReadsBack /\ LineFits
==============================================================================
