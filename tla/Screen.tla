------------------------------- MODULE Screen -------------------------------
(***************************************************************************)
(* One open inbox and its company's event feed: the stream the server      *)
(* writes (realtime.service.ts page, realtime.controller.ts stream), the   *)
(* subscription the browser holds (live/realtime.ts) and the reads of the  *)
(* lists that events ask for (live/inbox-actions.ts, live/inbox-lists.ts,  *)
(* live/store.ts).                                                         *)
(*                                                                         *)
(* Every event is a change of the lists, committed with its sequence       *)
(* number, so a list is told apart by the number of events it includes.    *)
(* Frames arrive in the order they are written; what a lost connection had *)
(* not delivered is gone.  Both lists of the screen are one here.          *)
(***************************************************************************)
EXTENDS Naturals

CONSTANTS
  MaxEvents,   \* bound: events of the company
  MaxBatch,    \* realtime.maxBatch
  MaxBacklog,  \* realtime.maxBacklog
  MaxBreaks    \* bound: connections that end, permissions that change, reads that fail

ScreenAssumption == {MaxEvents, MaxBatch, MaxBacklog, MaxBreaks} \subseteq Nat /\ MaxBatch > 0

VARIABLES
  head,      \* tenant_event_sequences.next_seq
  stream,    \* the connection, and how far the server has written frames to it
  closing,   \* its last frame, if the server has written one, and the cursor in it
  heard,     \* the event the client has got to, its Last-Event-ID if it has one
  hasId,     \* whether a frame with an id has reached this EventSource
  opened,    \* startRealtime: the first open of this subscription was handled
  flight,    \* refreshInboxLists: the read under way, and `again`
  screen,    \* loadInboxScreen: the newest of its reads under way
  newest,    \* claimRead: which of the two started last
  shown,     \* the events the lists on the screen include
  blind,     \* history: a stream went on past events that were never heard
  failed,    \* history: the newest read of the lists failed
  faults

screenVars == <<head, stream, closing, heard, hasId, opened, flight, screen,
                newest, shown, blind, failed, faults>>
streamVars == <<stream, closing, heard, hasId, opened>>
readVars == <<flight, screen, newest, shown, failed>>

NoRead == [step |-> "none", lists |-> 0]
Asked == [step |-> "asked", lists |-> 0]
Read == [step : {"none", "asked", "answered"}, lists : 0..MaxEvents]
Down(state) == [state |-> state, at |-> 0]
NotClosing == [kind |-> "none", at |-> 0]

ScreenTypeOK ==
  /\ {head, heard, shown} \subseteq 0..MaxEvents
  /\ stream \in [state : {"down", "open", "ended"}, at : 0..MaxEvents]
  /\ closing \in [kind : {"none", "reset_required", "stream_cycled"}, at : 0..MaxEvents]
  /\ {hasId, opened, blind, failed} \subseteq BOOLEAN
  /\ flight \in [read : Read, again : BOOLEAN]
  /\ screen \in Read /\ newest \in {"flight", "screen"}
  /\ faults \in 0..MaxBreaks

\* The lists are being read for the first time while the stream is opened.
ScreenInit ==
  /\ head = 0 /\ shown = 0 /\ heard = 0 /\ faults = 0
  /\ stream = Down("down") /\ closing = NotClosing
  /\ hasId = FALSE /\ opened = FALSE /\ blind = FALSE /\ failed = FALSE
  /\ flight = [read |-> NoRead, again |-> FALSE]
  /\ screen = Asked /\ newest = "screen"

Fault == faults < MaxBreaks /\ faults' = faults + 1

-----------------------------------------------------------------------------
(* The server.                                                              *)

\* emit, in the transaction of the change.
Emit ==
  /\ head < MaxEvents
  /\ head' = head + 1
  /\ UNCHANGED <<streamVars, readVars, blind, faults>>

Writing == stream.state = "open" /\ closing = NotClosing

\* page: events after the position, in order; more of them than maxBacklog is
\* a reset whose cursor is the newest event.
Page ==
  /\ Writing /\ head > stream.at
  /\ IF head - stream.at > MaxBacklog
     THEN /\ closing' = [kind |-> "reset_required", at |-> head]
          /\ UNCHANGED stream
     ELSE /\ stream' = [stream EXCEPT !.at = IF head < @ + MaxBatch THEN head ELSE @ + MaxBatch]
          /\ UNCHANGED closing
  /\ UNCHANGED <<head, heard, hasId, opened, readVars, blind, faults>>

\* The cursor carries the authority it was made under.
PermissionsChange ==
  /\ Writing /\ Fault
  /\ closing' = [kind |-> "reset_required", at |-> head]
  /\ UNCHANGED <<head, stream, heard, hasId, opened, readVars, blind>>

\* max_stream_age: the frame carries the position.
Cycle ==
  /\ Writing /\ Fault
  /\ closing' = [kind |-> "stream_cycled", at |-> stream.at]
  /\ UNCHANGED <<head, stream, heard, hasId, opened, readVars, blind>>

-----------------------------------------------------------------------------
(* Reads of the lists.                                                      *)

\* Slip: a refresh while one runs is left to the one that runs.
RefreshOnce ==
  LET runs == flight.read # NoRead
  IN /\ flight' = IF runs THEN flight ELSE [read |-> Asked, again |-> FALSE]
     /\ newest' = IF runs THEN newest ELSE "flight"
\* refreshInboxLists: a call while one runs asks for one more after it.
Refresh ==
  LET runs == flight.read # NoRead
  IN /\ flight' = IF runs THEN [flight EXCEPT !.again = TRUE]
                  ELSE [read |-> Asked, again |-> FALSE]
     /\ newest' = IF runs THEN newest ELSE "flight"

AnswerFlight ==
  /\ flight.read.step = "asked"
  /\ flight' = [flight EXCEPT !.read = [step |-> "answered", lists |-> head]]
  /\ UNCHANGED <<head, streamVars, screen, newest, shown, failed, blind, faults>>

AnswerScreen ==
  /\ screen.step = "asked"
  /\ screen' = [step |-> "answered", lists |-> head]
  /\ UNCHANGED <<head, streamVars, flight, newest, shown, failed, blind, faults>>

\* Slip: whichever answer arrives writes the lists.
CurrentAlways(name) == TRUE
Current(name) == newest = name

\* The refresh that runs ends, and the one that was asked for starts.
FlightEnds ==
  /\ flight' = [read |-> IF flight.again THEN Asked ELSE NoRead, again |-> FALSE]
  /\ newest' = IF flight.again THEN "flight" ELSE newest

ApplyFlight ==
  /\ flight.read.step = "answered"
  /\ IF Current("flight")
     THEN shown' = flight.read.lists /\ failed' = FALSE
     ELSE UNCHANGED <<shown, failed>>
  /\ FlightEnds
  /\ UNCHANGED <<head, streamVars, screen, blind, faults>>

ApplyScreen ==
  /\ screen.step = "answered"
  /\ IF Current("screen")
     THEN shown' = screen.lists /\ failed' = FALSE
     ELSE UNCHANGED <<shown, failed>>
  /\ screen' = NoRead
  /\ UNCHANGED <<head, streamVars, flight, newest, blind, faults>>

\* The API refuses or is not there: what is on the screen stays.
FlightFails ==
  /\ flight.read.step = "asked" /\ Fault
  /\ failed' = (failed \/ Current("flight"))
  /\ FlightEnds
  /\ UNCHANGED <<head, streamVars, screen, shown, blind>>

ScreenFails ==
  /\ screen.step = "asked" /\ Fault
  /\ failed' = (failed \/ Current("screen"))
  /\ screen' = NoRead
  /\ UNCHANGED <<head, streamVars, flight, newest, shown, blind>>

-----------------------------------------------------------------------------
(* The subscription.                                                        *)

\* EventSource opens the URL, with Last-Event-ID if it has one; without, the
\* stream starts at the newest event.  Only the first open refreshes the lists.
Connect ==
  LET start == IF hasId THEN heard ELSE head
  IN /\ stream.state = "down"
     /\ stream' = [state |-> "open", at |-> start]
     /\ closing' = NotClosing
     /\ heard' = start
     /\ blind' = (blind \/ (opened /\ start > heard))
     /\ opened' = TRUE
     /\ IF opened THEN UNCHANGED <<flight, newest>> ELSE Refresh
     /\ UNCHANGED <<head, hasId, screen, shown, failed, faults>>

\* applyRealtimeEvent
Frame ==
  /\ stream.state = "open" /\ heard < stream.at
  /\ heard' = heard + 1
  /\ hasId' = TRUE
  /\ Refresh
  /\ UNCHANGED <<head, stream, closing, opened, screen, shown, failed, blind, faults>>

\* The server's last frame; EventSource comes back after the socket closes.
\* A reset loads the screen anew; an older load under way is overtaken, and its
\* answer will not be current.
LastFrame ==
  /\ stream.state = "open" /\ heard = stream.at /\ closing # NotClosing
  /\ heard' = closing.at
  /\ hasId' = TRUE
  /\ stream' = Down("down") /\ closing' = NotClosing
  /\ IF closing.kind = "reset_required"
     THEN screen' = Asked /\ newest' = "screen"
     ELSE UNCHANGED <<screen, newest>>
  /\ UNCHANGED <<head, opened, flight, shown, failed, blind, faults>>

Drop ==
  /\ stream.state = "open" /\ Fault
  /\ stream' = Down("down") /\ closing' = NotClosing
  /\ UNCHANGED <<head, heard, hasId, opened, readVars, blind>>

\* An HTTP error answers the reconnection, or the stream fell silent.
End ==
  /\ stream.state # "ended" /\ Fault
  /\ stream' = Down("ended") /\ closing' = NotClosing
  /\ UNCHANGED <<head, heard, hasId, opened, readVars, blind>>

\* resumeRealtime: a new EventSource, which has no Last-Event-ID.
Resume ==
  /\ stream.state = "ended"
  /\ stream' = Down("down")
  /\ hasId' = FALSE /\ opened' = FALSE
  /\ UNCHANGED <<head, closing, heard, readVars, blind, faults>>

-----------------------------------------------------------------------------
Browser == Connect \/ Frame \/ LastFrame \/ Resume
Reads == AnswerFlight \/ AnswerScreen \/ ApplyFlight \/ ApplyScreen

ScreenNext ==
  \/ Emit \/ Page \/ PermissionsChange \/ Cycle
  \/ Browser \/ Drop \/ End \/ Reads \/ FlightFails \/ ScreenFails

\* The server's loop polls, the browser reconnects and hears what was written,
\* and each request is answered.
ScreenFairness ==
  /\ WF_screenVars(Page) /\ WF_screenVars(Browser)
  /\ WF_screenVars(AnswerFlight \/ ApplyFlight)
  /\ WF_screenVars(AnswerScreen \/ ApplyScreen)

ScreenSpec == ScreenInit /\ [][ScreenNext]_screenVars /\ ScreenFairness

-----------------------------------------------------------------------------
\* Reads overlap and their answers come in any order; the lists on the screen
\* never go back to an older answer.
ListsNeverGoBack == [][shown' >= shown]_screenVars

\* Through lost connections, resets, cycles and replaced streams, the lists
\* come to include every event, unless the last read of them failed or a
\* stream that was opened before went on from the newest event.
ListsCatchUp == <>[](shown = head \/ failed \/ blind)

\* inbox-actions.ts:624: "Later opens are `EventSource` resuming from its own
\* Last-Event-ID, which misses nothing": unless a read of them failed, the
\* lists come to include every event.
ListsBecomeCurrent == <>[](shown = head \/ failed)
=============================================================================
