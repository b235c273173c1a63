--------------------------- MODULE DeliveryChannels ---------------------------
(***************************************************************************)
(* How one notification leaves the process: a webhook that is posted again *)
(* when it may help, and syslog over UDP or TCP (notify/webhook.ts,        *)
(* notify/syslog.ts).  The notifier waits for the result of a send and     *)
(* counts it; a channel never throws.                                      *)
(*                                                                         *)
(* A line of syslog is a number; the collector and the network are         *)
(* external and may do anything a socket reports.                        *)
(***************************************************************************)
EXTENDS Integers, FiniteSets

CONSTANTS MaxLines,       \* bound: findings in one notification
          MaxAttempts     \* MAX_ATTEMPTS

ASSUME ChannelAssumption == MaxLines \in Nat /\ MaxAttempts \in Nat \ {0}

VARIABLES channel,    \* which of the three
          lines,      \* how many lines there are to send
          stage,      \* where the send stands
          attempt,    \* of the webhook, from 1
          unsent,     \* UDP: the lines whose callback is still to come
          wire,       \* the socket of syslog: opening, open, ended (our FIN), destroyed, closed
          failure,    \* TCP: an error was noted
          result,     \* what the notifier is told: none, ok, failed
          taken,      \* webhook: posts the receiver took
          last,       \* webhook: the last answer
          written     \* the lines that have left the process

channelVars == <<channel, lines, stage, attempt, unsent, wire, failure, result, taken, last, written>>

Channels == {"webhook", "udp", "tcp"}
PostAnswers == {"none", "taken", "refused", "busy", "lost"}
TcpStates == {"none", "opening", "open", "ended", "destroyed", "closed"}

\* send() is called.
ChannelInit ==
    /\ channel \in Channels /\ lines \in 0..MaxLines
    /\ stage = IF channel = "webhook" THEN "posting" ELSE "sending"
    /\ attempt = 1 /\ unsent = IF channel = "udp" THEN 1..lines ELSE {}
    /\ wire = CASE channel = "tcp" -> "opening" [] channel = "udp" -> "open" [] OTHER -> "none"
    /\ failure = FALSE /\ result = "none" /\ taken = 0 /\ last = "none" /\ written = {}

-----------------------------------------------------------------------------
(* The webhook. *)

\* A refusal other than "too many" would be repeated in vain; a receiver that is busy
\* or in trouble, a timeout and a broken connection are tried again.
WorthRetrying(answer) == answer \in {"busy", "lost"}
\* A mutant: one attempt too many.
MutantTriesAgain(answer) == WorthRetrying(answer) /\ attempt <= MaxAttempts
TriesAgain(answer) == WorthRetrying(answer) /\ attempt < MaxAttempts

\* The post ends: the receiver takes it or does not, and its answer may be lost in
\* either case.
PostEnds(answer) ==
    /\ channel = "webhook" /\ stage = "posting"
    /\ last' = answer
    /\ taken' \in CASE answer = "taken" -> {taken + 1}
                       [] answer = "lost" -> {taken, taken + 1}
                       [] OTHER -> {taken}
    /\ IF answer = "taken" THEN stage' = "done" /\ result' = "ok"
       ELSE IF TriesAgain(answer)
       THEN stage' = "sleeping" /\ UNCHANGED result
       ELSE stage' = "done" /\ result' = "failed"
    /\ UNCHANGED <<channel, lines, attempt, unsent, wire, failure, written>>

\* A pause that doubles.
SleepEnds ==
    /\ stage = "sleeping"
    /\ attempt' = attempt + 1 /\ stage' = "posting"
    /\ UNCHANGED <<channel, lines, unsent, wire, failure, result, taken, last, written>>

-----------------------------------------------------------------------------
(* Syslog over UDP. *)

\* finish(): once, whatever calls back later.
Finish(outcome) ==
    IF stage = "done" THEN UNCHANGED <<stage, result, wire>>
    ELSE stage' = "done" /\ result' = outcome /\ wire' = "closed"

NoLines ==
    /\ channel = "udp" /\ lines = 0 /\ stage = "sending"
    /\ Finish("ok")
    /\ UNCHANGED <<channel, lines, attempt, unsent, failure, taken, last, written>>

\* A datagram is handed to the network, or is not: each calls back, in any order, even
\* after the socket was closed.
DatagramEnds(line, sent) ==
    /\ line \in unsent /\ (sent => wire = "open")
    /\ unsent' = unsent \ {line}
    /\ written' = IF sent THEN written \cup {line} ELSE written
    /\ IF ~sent THEN Finish("failed")
       ELSE IF unsent' = {} THEN Finish("ok")
       ELSE UNCHANGED <<stage, result, wire>>
    /\ UNCHANGED <<channel, lines, attempt, failure, taken, last>>

UdpError ==
    /\ channel = "udp" /\ wire = "open"
    /\ Finish("failed")
    /\ UNCHANGED <<channel, lines, attempt, unsent, failure, taken, last, written>>

-----------------------------------------------------------------------------
(* Syslog over TCP. *)

\* fail(): the first error counts, and the socket is destroyed.
Fail == failure' = TRUE /\ wire' = "destroyed"

Connected ==
    /\ channel = "tcp" /\ wire = "opening"
    /\ wire' = "open"
    /\ UNCHANGED <<channel, lines, stage, attempt, unsent, failure, result, taken, last, written>>

\* The lines are with the kernel, and the socket is ended in order; or they are not.
WriteEnds(sent) ==
    /\ channel = "tcp" /\ wire = "open"
    /\ IF sent THEN written' = 1..lines /\ wire' = "ended" /\ UNCHANGED failure
       ELSE Fail /\ UNCHANGED written
    /\ UNCHANGED <<channel, lines, stage, attempt, unsent, result, taken, last>>

\* The connection is refused or reset, or idle for too long: nothing answers, or the
\* peer does not close.
TcpError ==
    /\ channel = "tcp" /\ wire \in {"opening", "open", "ended"}
    /\ Fail
    /\ UNCHANGED <<channel, lines, stage, attempt, unsent, result, taken, last, written>>

\* The peer has read what we ended with and closes as well; one that closes earlier shows
\* as an error, or not at all.
PeerCloses ==
    /\ channel = "tcp" /\ wire = "ended"
    /\ wire' = "closed"
    /\ UNCHANGED <<channel, lines, stage, attempt, unsent, failure, result, taken, last, written>>

DestroyEnds ==
    /\ wire = "destroyed"
    /\ wire' = "closed"
    /\ UNCHANGED <<channel, lines, stage, attempt, unsent, failure, result, taken, last, written>>

\* A mutant: what we ended is taken for closed.
MutantHasClosed == wire \in {"ended", "closed"}

\* settle(): on close alone, for only then no error can follow.
HasClosed == wire = "closed"
ChannelSettles ==
    /\ channel = "tcp" /\ HasClosed /\ stage = "sending"
    /\ stage' = "done" /\ result' = IF failure THEN "failed" ELSE "ok"
    /\ UNCHANGED <<channel, lines, attempt, unsent, wire, failure, taken, last, written>>

-----------------------------------------------------------------------------
ChannelNext ==
    \/ \E answer \in PostAnswers \ {"none"} : PostEnds(answer)
    \/ SleepEnds \/ NoLines \/ UdpError
    \/ \E line \in unsent, sent \in BOOLEAN : DatagramEnds(line, sent)
    \/ Connected \/ TcpError \/ PeerCloses \/ DestroyEnds \/ ChannelSettles
    \/ \E sent \in BOOLEAN : WriteEnds(sent)

\* Posts time out, pauses end, datagrams call back, and an idle TCP socket times out,
\* whatever the other side does; what is destroyed is closed.
ChannelFairness == WF_channelVars(ChannelNext)

ChannelSpec == ChannelInit /\ [][ChannelNext]_channelVars /\ ChannelFairness

-----------------------------------------------------------------------------
\* The variables keep their types.
ChannelTypeOK ==
    /\ channel \in Channels /\ lines \in 0..MaxLines
    /\ stage \in {"posting", "sleeping", "sending", "done"} /\ attempt \in 1..MaxAttempts
    /\ unsent \subseteq 1..lines /\ wire \in TcpStates /\ failure \in BOOLEAN
    /\ result \in {"none", "ok", "failed"} /\ last \in PostAnswers
    /\ taken \in 0..MaxAttempts /\ written \subseteq 1..lines

\* The notifier is told "ok" only for what was taken: by the receiver of the webhook; by
\* the kernel, all of it, with no error before or after; "failed" only once nothing is
\* left to try.  A receiver takes a notification no oftener than it was posted.
ResultsAreHonest ==
    /\ (result = "none") = (stage # "done")
    /\ result = "ok" =>
        CASE channel = "webhook" -> last = "taken" /\ taken >= 1
          [] channel = "udp" -> written = 1..lines
          [] OTHER -> written = 1..lines /\ ~failure
    /\ result = "failed" /\ channel = "webhook" => last = "refused" \/ attempt = MaxAttempts
    /\ result = "failed" /\ channel = "tcp" => failure
    /\ taken <= attempt

\* A send that has ended.
ChannelAtRest == result # "none"
-----------------------------------------------------------------------------
(* What the proofs rest on *)

\* Before a webhook has its result it has a post to spare, and a pause is before another.
WebhookOK ==
    channel = "webhook" =>
        /\ stage \in {"posting", "sleeping", "done"} /\ wire = "none" /\ unsent = {}
        /\ stage = "sleeping" => attempt < MaxAttempts
        /\ stage = "posting" => taken < attempt

\* The lines of a UDP send that have not failed are either waited for or gone.
UdpOK ==
    channel = "udp" =>
        /\ stage \in {"sending", "done"} /\ wire \in {"open", "closed"}
        /\ stage = "sending" => written = (1..lines) \ unsent

\* A TCP socket that is ended or closed has sent everything, unless an error was noted.
TcpOK ==
    channel = "tcp" =>
        /\ stage \in {"sending", "done"} /\ wire # "none" /\ unsent = {}
        /\ stage = "done" => wire = "closed"
        /\ wire \in {"ended", "closed"} /\ ~failure => written = 1..lines
        /\ wire = "destroyed" => failure

ChannelInv == ChannelTypeOK /\ WebhookOK /\ UdpOK /\ TcpOK /\ ResultsAreHonest
==============================================================================
