------------------------------- MODULE LiveMap -------------------------------
(****************************************************************************)
(* A browser that shows the live map: the usePositions hook, connected to   *)
(* the feed of WsFeed.tla.  After a close it keeps what it shows, waits and *)
(* connects again.  Under `npm run dev` StrictMode (main.tsx) and fast      *)
(* refresh unmount the hook and mount it again: the refs survive, and the   *)
(* onclose of the old socket comes when mountedRef is true once more, so a  *)
(* second socket is opened beside the first.                                *)
(****************************************************************************)
EXTENDS WsFeed

CONSTANTS
    MaxRetries,  \* retries after which the backoff delay stays at its cap
    MaxRemounts  \* bound on the remounts (each one of the faults); 0 in a
                 \* production build

ASSUME ClientAssumption ==
    /\ MaxRetries \in Nat \ {0}
    /\ MaxRemounts \in Nat
    /\ Conn \subseteq Nat

VARIABLES
    sock,         \* wsRef.current
    attached,     \* sockets whose onclose has not run yet
    due,          \* calls of connect to come: the mount's, the timers'
    view,         \* positions
    gotSnapshot,  \* gotSnapshotRef.current
    wsState,      \* connectionState
    retries,      \* retriesRef.current
    remounts      \* remounts so far

socketVars == <<sock, attached, due, remounts>>
clientVars == <<socketVars, view, gotSnapshot, wsState, retries>>
vars == <<storeVars, feedVars, clientVars>>

(* Types; no queue is longer than its maxsize.                               *)
TypeOK ==
    /\ FeedTypeOK
    /\ sock \in Conn \cup {None}
    /\ attached \subseteq Conn
    /\ due \in Nat
    /\ view \in Table
    /\ gotSnapshot \in BOOLEAN
    /\ wsState \in {"disconnected", "connecting", "reconnecting", "connected"}
    /\ retries \in 0..MaxRetries
    /\ remounts \in 0..MaxRemounts

Init ==
    /\ FeedInit
    /\ sock = None
    /\ attached = {}
    /\ due = 1
    /\ view = NoRows
    /\ gotSnapshot = FALSE
    /\ wsState = "disconnected"
    /\ retries = 0
    /\ remounts = 0

(* Mutant: gotSnapshotRef is not reset.                                      *)
KeepSnapshotFlag == UNCHANGED gotSnapshot

ResetSnapshotFlag == gotSnapshot' = FALSE

(* A new socket; which free number it gets does not matter.                  *)
Fresh(s) ==
    LET Free == {c \in Conn : phase[c] = "idle" /\ ~open[c] /\ c \notin attached}
    IN  s \in Free /\ \A c \in Free : s <= c

(* connect: new WebSocket and the state that goes with it.                   *)
NewSocket(s) ==
    /\ Fresh(s)
    /\ sock' = s
    /\ attached' = attached \cup {s}
    /\ ResetSnapshotFlag
    /\ wsState' = IF retries > 0 THEN "reconnecting" ELSE "connecting"
    /\ UNCHANGED <<storeVars, up, queue, snap, missed, view, retries>>

(* connect: on mount, and when a timer of scheduleReconnect fires.           *)
Connect(s) ==
    /\ due > 0
    /\ due' = due - 1
    /\ NewSocket(s)
    /\ phase' = [phase EXCEPT ![s] = "requested"]
    /\ open' = [open EXCEPT ![s] = TRUE]
    /\ UNCHANGED <<wire, remounts, faults>>

(* The effect's cleanup closes the current socket, which gets no more frames *)
(* but will get its onclose; then the effect connects.                       *)
Remount(s) ==
    /\ sock # None
    /\ remounts < MaxRemounts /\ remounts' = remounts + 1
    /\ FeedFault
    /\ NewSocket(s)
    /\ phase' = [phase EXCEPT ![sock] = IF @ = "requested" THEN "idle" ELSE @,
                              ![s] = "requested"]
    /\ open' = [open EXCEPT ![sock] = FALSE, ![s] = TRUE]
    /\ wire' = [wire EXCEPT ![sock] = <<>>]
    /\ UNCHANGED due

(* The network breaks, or onerror closes the socket.                         *)
Broken(s) ==
    /\ s \in attached /\ open[s]
    /\ open' = [open EXCEPT ![s] = FALSE]
    /\ phase' = [phase EXCEPT ![s] = IF @ = "requested" THEN "idle" ELSE @]
    /\ UNCHANGED <<storeVars, up, queue, snap, wire, missed, clientVars>>

ConnectionBreaks(s) == FeedFault /\ Broken(s)

ConnectionRefused(s) ==
    /\ ~up /\ phase[s] = "requested"
    /\ Broken(s)
    /\ UNCHANGED faults

(* Mutants: onclose does not schedule a connection, or only that of wsRef.   *)
NoReconnect(s) == UNCHANGED <<due, retries>>

ReconnectCurrent(s) ==
    /\ due' = IF s = sock THEN due + 1 ELSE due
    /\ UNCHANGED retries

ScheduleReconnect(s) ==
    /\ due' = due + 1
    /\ retries' = IF retries < MaxRetries THEN retries + 1 ELSE retries

(* onclose: frames that have not been handled are gone.                      *)
OnClose(s) ==
    /\ s \in attached /\ ~open[s]
    /\ attached' = attached \ {s}
    /\ wsState' = "disconnected"
    /\ ScheduleReconnect(s)
    /\ wire' = [wire EXCEPT ![s] = <<>>]
    /\ UNCHANGED <<storeVars, up, phase, queue, snap, open, missed, faults, sock,
                   remounts, view, gotSnapshot>>

Handled(s) ==
    /\ wire' = [wire EXCEPT ![s] = Tail(@)]
    /\ UNCHANGED <<storeVars, up, phase, queue, snap, open, missed, faults, socketVars>>

NextFrame(s, type) == s \in attached /\ wire[s] # <<>> /\ Head(wire[s]).type = type

OnOpen(s) ==
    /\ NextFrame(s, "open")
    /\ retries' = 0
    /\ wsState' = "connected"
    /\ Handled(s)
    /\ UNCHANGED <<view, gotSnapshot>>

(* onmessage with an array: the new map replaces the old one.                *)
OnSnapshot(s) ==
    /\ NextFrame(s, "snapshot")
    /\ ~gotSnapshot
    /\ gotSnapshot' = TRUE
    /\ view' = Head(wire[s]).rows
    /\ Handled(s)
    /\ UNCHANGED <<wsState, retries>>

(* onmessage with an array when another socket brought one: read as an       *)
(* envelope, it becomes an entry under the key undefined, and no tag's.      *)
OnStraySnapshot(s) ==
    /\ NextFrame(s, "snapshot")
    /\ gotSnapshot
    /\ Handled(s)
    /\ UNCHANGED <<view, gotSnapshot, wsState, retries>>

(* onmessage with an envelope.                                               *)
OnEnvelope(s) ==
    /\ NextFrame(s, "envelope")
    /\ LET m == Head(wire[s]).msg
       IN  view' = [view EXCEPT ![TagOf[m]] = Merge(@, m)]
    /\ Handled(s)
    /\ UNCHANGED <<gotSnapshot, wsState, retries>>

ClientNext ==
    \E s \in Conn :
        \/ Connect(s) \/ Remount(s)
        \/ ConnectionBreaks(s) \/ ConnectionRefused(s) \/ OnClose(s)
        \/ OnOpen(s) \/ OnSnapshot(s) \/ OnStraySnapshot(s) \/ OnEnvelope(s)

Next ==
    \/ FeedNext /\ UNCHANGED clientVars
    \/ ClientNext

Spec == Init /\ [][Next]_vars

(* The event loop of the backend and the one of the browser run every ready  *)
(* callback, the reconnect timer fires, a committed event's handler reaches  *)
(* its publish.  Commits, faults and a restart of the backend are not        *)
(* promised.                                                                 *)
ServeStep(s) ==
    /\ \/ Accept(s) \/ ReadSnapshot(s) \/ SendSnapshot(s)
       \/ SendFails(s) \/ SkipStale(s) \/ Forward(s)
    /\ UNCHANGED clientVars

ClientStep(s) ==
    \/ ConnectionRefused(s) \/ OnClose(s)
    \/ OnOpen(s) \/ OnSnapshot(s) \/ OnStraySnapshot(s) \/ OnEnvelope(s)

Fairness ==
    /\ \A m \in Msg : WF_vars(Publish(m) /\ UNCHANGED clientVars)
    /\ \A s \in Conn : WF_vars(ServeStep(s)) /\ WF_vars(ClientStep(s))
    /\ WF_vars(\E s \in Conn : Connect(s))

FairSpec == Spec /\ Fairness
------------------------------------------------------------------------------
Newer(S, t) == \E m \in S : TagOf[m] = t /\ AtLeast(m, current[t])

Values(table) == {table[t] : t \in Tag} \ {None}
Elems(seq) == {seq[i] : i \in DOMAIN seq}

FrameRows(f) ==
    CASE f.type = "snapshot" -> Values(f.rows)
      [] f.type = "envelope" -> {f.msg}
      [] OTHER -> {}

Carried(frames) == UNION {FrameRows(f) : f \in Elems(frames)}

(* What the wire of s carries and the screen shows.                          *)
Arriving(s) == Carried(wire[s]) \cup (IF gotSnapshot THEN Values(view) ELSE {})

(* Everything through which connection s can still bring the browser the     *)
(* state of a tag.                                                           *)
OnTheWay(s) ==
    pending \cup Elems(queue[s]) \cup missed[s]
      \cup (IF phase[s] = "snapped" THEN Values(snap[s]) ELSE {})
      \cup Arriving(s)

(* The handover from snapshot to feed loses nothing: from the moment the     *)
(* snapshot is read, the newest row of every tag (or one at least as new) is *)
(* shown, in the snapshot, queued, in flight or about to be published; the   *)
(* only excuse is an event that was committed but dropped or never published *)
(* (positions_ws subscribes before it reads the snapshot).                   *)
HandoverIsComplete ==
    \A s \in attached :
        open[s] /\ phase[s] \in {"snapped", "live"} =>
            \A t \in Tag : current[t] # None => Newer(OnTheWay(s), t)

(* The browser never shows a tag from before what it already showed, across  *)
(* out-of-order publishes, reconnects and restarts of the backend.           *)
ViewMovesForward ==
    [][\A t \in Tag : AtLeast(view'[t], view[t])]_vars

(* What is shown was committed before: the browser is never ahead of the     *)
(* table a REST call or another client would read.                           *)
ViewIsCommitted == \A t \in Tag : AtLeast(current[t], view[t])

(* A snapshot never reaches a client that already has one on this socket     *)
(* (onmessage would read the array as an envelope).                          *)
SnapshotComesFirst ==
    \A s \in attached : \A i \in DOMAIN wire[s] :
        LET seen == gotSnapshot \/ \E j \in 1..(i-1) : wire[s][j].type = "snapshot"
        IN  /\ wire[s][i].type = "snapshot" => ~seen
            /\ wire[s][i].type = "envelope" => seen

(* What the feed will leave out of the queue is no news: for an event that   *)
(* _is_stale filters, the browser shows, or has on its socket, a strictly    *)
(* newer one of the same tag.  The filter works with the snapshot it read,   *)
(* the browser with whichever frames it kept since, and a tag that the       *)
(* snapshot does not list counts as seen at time 0.                          *)
LeftOutIsOld ==
    \A s \in attached :
        open[s] /\ phase[s] = "live" =>
            \A m \in Elems(queue[s]) :
                IsStale(m, snap[s]) =>
                    \E n \in Arriving(s) : TagOf[n] = TagOf[m] /\ TsOf[n] > TsOf[m]

(* A committed event, or a newer one, reaches the screen, through            *)
(* reconnects and remounts if need be, unless a connection's queue dropped   *)
(* it, nobody published it or the backend stays down.                        *)
EventReachesView ==
    \A t \in Tag, m \in Msg :
        current[t] = m ~>
            \/ AtLeast(view[t], m)
            \/ \E s \in attached : \E n \in missed[s] : TagOf[n] = t /\ AtLeast(n, m)
            \/ ~up

(* However many sockets open and close, the status that the page shows comes *)
(* back to "connected" (the onclose of an old socket sets "disconnected"     *)
(* while its successor is connected).                                        *)
StatusRecovers == []<>(wsState = "connected" \/ ~up)

(* A client that went away is unsubscribed (test_ws_disconnect_unsubscribes; *)
(* positions_ws only notices it when it has something to send).              *)
GoneIsUnsubscribed ==
    \A s \in Conn : (phase[s] = "live" /\ ~open[s]) ~> (phase[s] # "live")
==============================================================================
