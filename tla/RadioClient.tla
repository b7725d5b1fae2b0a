---------------------------- MODULE RadioClient ----------------------------
(***************************************************************************)
(* The radio of the IVI home screen (0001-Initial-radio-implementation.    *)
(* patch, as the media player's patch leaves it): RadioClient's requests   *)
(* to the radio service, nobody of whom waits for another, the status      *)
(* stream it listens to, and the RadioState that the screen shows and the  *)
(* next request is computed from.  An answer that says nothing and the     *)
(* flag of a scan, which nothing sets, are left out.                       *)
(***************************************************************************)
EXTENDS Integers, Sequences, SequencesExt

CONSTANTS None,      \* no answer, no frequency
          Band,      \* what GetBandParameters returns: min, max, step
          Unknown,   \* what RadioState.initial has: its min is above its max
          Presets,   \* frequencies of the presets file
          Stations   \* frequencies a scan stops at

Grid == {f \in Band.min..Band.max : (f - Band.min) % Band.step = 0}

ASSUME RadioAssumption ==
    /\ {Band, Unknown} \subseteq [min : Nat, max : Nat, step : Nat \ {0}]
    /\ Unknown.min > Unknown.max /\ Unknown.min < Band.min
    /\ Presets \subseteq Nat /\ Stations \subseteq Grid /\ Stations # {}

VARIABLES tuned, on, scan,  \* the service: frequency, playing, direction or 0
          requests,         \* unary calls under way
          statuses,         \* status events under way
          fetch, reply,     \* getBandParameters: what it awaits, the answer
          band, frequency, playing,  \* RadioState
          dragged,          \* the slider's value while it is held
          untold,           \* history: it played before anybody was told that it does
          astray,           \* history: what is shown has lost the tuner
          rounded,          \* history: a value of the slider missed its step
          rushed,           \* history: a press before band and frequency were known
          unheard           \* history: a start or a stop failed

service == <<tuned, on, scan>>
calls == <<requests, statuses>>
start_up == <<fetch, reply>>
RadioState == <<band, frequency, playing>>
radio_history == <<untold, astray, rounded, rushed, unheard>>
radio == <<service, calls, start_up, RadioState, dragged, radio_history>>

Requests == [name : {"set"}, to : Nat] \cup [name : {"scan"}, by : {-1, 1}] \cup
            [name : {"start", "stop", "scanstop"}]
Statuses == [frequency : Nat] \cup [playing : BOOLEAN]

RadioTypeOK ==
    /\ tuned \in Nat /\ on \in BOOLEAN /\ scan \in {-1, 0, 1}
    /\ requests \in Seq(Requests) /\ statuses \in Seq(Statuses)
    /\ fetch \in {"band", "frequency", "done", "failed"} /\ reply \in Nat \cup {None}
    /\ band \in {Band, Unknown} /\ frequency \in Nat /\ playing \in BOOLEAN
    /\ dragged \in Nat \cup {None}
    /\ {untold, astray, rounded, rushed, unheard} \subseteq BOOLEAN

\* The service may play already; nobody asks it whether it does.
RadioInit ==
    /\ tuned \in Stations /\ on \in BOOLEAN /\ scan \in {-1, 0, 1} /\ (scan # 0 => on)
    /\ untold = on
    /\ requests = <<>> /\ statuses = <<>>
    /\ fetch = "band" /\ reply = None
    /\ band = Unknown /\ frequency = Unknown.min /\ playing = FALSE
    /\ dragged = None
    /\ astray = FALSE /\ rounded = FALSE /\ rushed = FALSE /\ unheard = FALSE

-----------------------------------------------------------------------------
(* The radio service.                                                       *)

Tunes(f) == tuned' = f /\ statuses' = Append(statuses, [frequency |-> f])

\* Calls are streams of their own: any of them may come first.
ServiceHandles(i) ==
    LET r == requests[i]
    IN  /\ requests' = RemoveAt(requests, i)
        /\ \/ r.name = "set" /\ Tunes(r.to) /\ scan' = 0 /\ UNCHANGED on
           \/ /\ r.name \in {"start", "stop"}
              /\ on' = (r.name = "start")
              /\ statuses' = Append(statuses, [playing |-> on'])
              /\ scan' = IF on' THEN scan ELSE 0
              /\ UNCHANGED tuned
           \/ /\ r.name = "scan" /\ scan' = IF on THEN r.by ELSE 0
              /\ UNCHANGED <<tuned, on, statuses>>
           \/ r.name = "scanstop" /\ scan' = 0 /\ UNCHANGED <<tuned, on, statuses>>
        /\ UNCHANGED <<start_up, RadioState, dragged, radio_history>>

\* A scan goes on, over the end of the band, until there is a station.
ScanStep ==
    /\ scan # 0
    /\ LET f == tuned + scan * Band.step
       IN  Tunes(IF f > Band.max THEN Band.min ELSE IF f < Band.min THEN Band.max ELSE f)
    /\ scan' = IF tuned' \in Stations THEN 0 ELSE scan
    /\ UNCHANGED <<on, requests, start_up, RadioState, dragged, radio_history>>

-----------------------------------------------------------------------------
(* RadioClient.                                                             *)

\* The band, then the frequency that was tuned when the service was asked.
FetchBand ==
    /\ fetch = "band"
    /\ band' = Band /\ fetch' = "frequency"
    /\ UNCHANGED <<service, calls, reply, frequency, playing, dragged, radio_history>>

AnswerFrequency ==
    /\ fetch = "frequency" /\ reply = None
    /\ reply' = tuned
    /\ UNCHANGED <<service, calls, fetch, RadioState, dragged, radio_history>>

\* Nothing tells this answer from a status that came before it.
FetchFrequency ==
    /\ reply # None
    /\ frequency' = reply /\ fetch' = "done" /\ reply' = None
    /\ astray' = (reply # tuned)
    /\ UNCHANGED <<service, calls, band, playing, dragged, untold, rounded, rushed, unheard>>

\* Either call fails, and the other is not made.
FetchFails ==
    /\ fetch \in {"band", "frequency"}
    /\ fetch' = "failed" /\ reply' = None
    /\ astray' = TRUE
    /\ UNCHANGED <<service, calls, RadioState, dragged, untold, rounded, rushed, unheard>>

\* Mutant: what the tuner does while the radio does not play is not shown.
StatusWhilePlaying ==
    /\ statuses # <<>>
    /\ statuses' = Tail(statuses)
    /\ LET s == Head(statuses)
       IN  IF "frequency" \in DOMAIN s
           THEN /\ frequency' = IF playing THEN s.frequency ELSE frequency
                /\ astray' = FALSE /\ UNCHANGED <<playing, untold>>
           ELSE playing' = s.playing /\ untold' = FALSE /\ UNCHANGED <<frequency, astray>>
    /\ UNCHANGED <<service, requests, start_up, band, dragged, rounded, rushed, unheard>>

handleStatusEvent ==
    /\ statuses # <<>>
    /\ statuses' = Tail(statuses)
    /\ LET s == Head(statuses)
       IN  IF "frequency" \in DOMAIN s
           THEN frequency' = s.frequency /\ astray' = FALSE /\ UNCHANGED <<playing, untold>>
           ELSE playing' = s.playing /\ untold' = FALSE /\ UNCHANGED <<frequency, astray>>
    /\ UNCHANGED <<service, requests, start_up, band, dragged, rounded, rushed, unheard>>

\* The exception of a call is printed.
RequestFails(i) ==
    /\ requests' = RemoveAt(requests, i)
    /\ astray' = (astray \/ (requests[i].name = "set" /\ frequency # tuned))
    /\ unheard' = (unheard \/ requests[i].name \in {"start", "stop"})
    /\ UNCHANGED <<service, statuses, start_up, RadioState, dragged, untold, rounded, rushed>>

\* Mutant: a frequency between two steps is asked for.
SetAnywhere(f) == IF f < band.min \/ f > band.max THEN <<>> ELSE <<[name |-> "set", to |-> f]>>

setFrequency(f) ==
    IF f < band.min \/ f > band.max \/ (f - band.min) % band.step # 0 THEN <<>>
    ELSE <<[name |-> "set", to |-> f]>>

\* The next step from what is shown, which is not checked.
tuneForward ==
    IF frequency >= band.max THEN <<>>
    ELSE LET f == frequency + band.step
         IN  <<[name |-> "set", to |-> IF f > band.max THEN band.max ELSE f]>>

tuneBackward ==
    IF frequency <= band.min THEN <<>>
    ELSE LET f == frequency - band.step
         IN  <<[name |-> "set", to |-> IF f < band.min THEN band.min ELSE f]>>

scan_start(by) == <<[name |-> "scan", by |-> by]>>

start == <<[name |-> "start"]>>
stop == <<[name |-> "stop"]>>

-----------------------------------------------------------------------------
(* The radio page.                                                          *)

Sends(rs) == requests' = requests \o rs

Rushes == rushed' = (rushed \/ fetch # "done")

\* The buttons and the presets send what they say, the scans while the radio plays.
PressRadio ==
    /\ \E rs \in {tuneForward, tuneBackward} \cup {setFrequency(f) : f \in Presets} \cup
                  (IF playing THEN {scan_start(1), scan_start(-1)} ELSE {<<>>}) :
          Sends(rs)
    /\ Rushes
    /\ UNCHANGED <<service, statuses, start_up, RadioState, dragged, untold, astray, rounded, unheard>>

\* The slider is taken and moved: the scan is to stop, and the screen shows the
\* value, which toInt may have rounded off its step.
Drag ==
    /\ dragged = None /\ band = Band
    /\ Sends(<<[name |-> "scanstop"]>>)
    /\ \E f \in Grid, off \in {0, 1} :
          /\ dragged' = f - off /\ frequency' = f - off
          /\ rounded' = (rounded \/ off = 1)
    /\ astray' = TRUE
    /\ Rushes
    /\ UNCHANGED <<service, statuses, start_up, band, playing, untold, unheard>>

\* RadioStateNotifier.setFrequency shows the value, whatever RadioClient's does.
Release ==
    /\ dragged # None
    /\ frequency' = dragged
    /\ Sends(setFrequency(dragged))
    /\ astray' = (setFrequency(dragged) = <<>>)
    /\ dragged' = None
    /\ UNCHANGED <<service, statuses, start_up, band, playing, untold, rounded, rushed, unheard>>

Service == ScanStep \/ \E i \in DOMAIN requests : ServiceHandles(i)

Client ==
    \/ FetchBand \/ AnswerFrequency \/ FetchFrequency \/ FetchFails
    \/ handleStatusEvent \/ \E i \in DOMAIN requests : RequestFails(i)

-----------------------------------------------------------------------------
(* Properties.                                                             *)

RadioSettled == fetch \in {"done", "failed"} /\ requests = <<>> /\ statuses = <<>> /\ scan = 0

\* When nothing is under way the screen shows the tuner, however presses, scans,
\* the first answer and the statuses overtook each other; but a service that played
\* before is shown as silent, and a first answer that came after a status, a call
\* that failed and a value of the slider that was not sent are shown, until the next
\* status.
ShowsTheTuner ==
    RadioSettled => (~untold => playing = on) /\ (~astray => frequency = tuned)

\* The service is asked for frequencies of its band only, each computed from what
\* the screen shows, unless the slider's value missed its step or the band was not
\* known yet.
TunesInBand ==
    ~rounded /\ ~rushed =>
        \A i \in DOMAIN requests : requests[i].name = "set" => requests[i].to \in Grid
=============================================================================
