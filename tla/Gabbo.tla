------------------------------- MODULE Gabbo -------------------------------
(***************************************************************************)
(* The watcher of one speaker's websocket (gabbo_watcher.cpp, gabbo_ws.cpp)*)
(* repairs two defects of the speaker with a /select of its own: a key     *)
(* whose station never starts (re-arm, then a follow-up), and a stream     *)
(* that breaks off in the middle (rescue).  Deadlines may pass at any time *)
(* after they are set, so the times are left out and the order is not.     *)
(***************************************************************************)
EXTENDS Naturals, Sequences

CONSTANTS Slot,        \* the preset keys; a slot also stands for its station
          Lir,         \* the slots that hold an internet radio station
          NoSlot,
          MaxAttempts, \* kMaxAttempts: /selects for one slot per cooldown
          MaxRescues,  \* kRescueMaxAttempts: /selects for one broken stream
          MaxWindow,   \* kRescueMaxPerWindow
          MaxWire,     \* bound: frames on their way
          Closings     \* may the speaker close the socket or a ping fail? a set of answers

ASSUME GabboAssumption ==
  /\ Lir \subseteq Slot /\ NoSlot \notin Slot /\ Closings \subseteq BOOLEAN
  /\ {MaxAttempts, MaxRescues, MaxWindow, MaxWire} \subseteq Nat

VARIABLES
  box,    \* external: what the speaker does
  wire,   \* the frames the speaker sent and the watcher has not polled
  sock,   \* "up", "down", or "deaf": the speaker is gone and nobody noticed
  shown,  \* the connection is in the active window
  conn,   \* struct Conn
  post,   \* the /select in progress, during which the watcher's task waits
  recent, \* a /select was sent to the speaker within the suppress window
  wish,   \* history: what the user wants: "on", "off", or "stopped" before the music began
  closes  \* the answer of this behaviour

gabbo == <<box, wire, sock, shown, conn, post, recent, wish, closes>>

NoPost == [kind |-> "none", slot |-> NoSlot, foreign |-> FALSE]

\* A connection as reconcile_ creates it.
NewConn ==
  [pending |-> NoSlot, verify |-> NoSlot, verifyMine |-> TRUE,
   attempts |-> [s \in Slot |-> 0],
   lirPlaying |-> FALSE, long |-> FALSE, lirLoc |-> NoSlot,
   stage |-> 0, rescueMine |-> TRUE, tries |-> 0, window |-> 0,
   seedPending |-> FALSE]

GabboInit ==
  /\ box = [mode |-> "off", loc |-> NoSlot, playing |-> FALSE]
  /\ wire = <<>> /\ sock = "down" /\ shown = TRUE
  /\ conn = NewConn /\ post = NoPost /\ recent = FALSE /\ wish = "off" /\ closes \in Closings

-----------------------------------------------------------------------------
(* The speaker and its user.                                               *)

Selection(slot, loc) == [kind |-> "selection", slot |-> slot, loc |-> loc, state |-> "none"]
Playing(st, loc) == [kind |-> "playing", slot |-> NoSlot, loc |-> loc, state |-> st]

\* The speaker sends a frame: it arrives while the socket is up, and is lost otherwise.
Sends(f) ==
  IF sock = "up" THEN Len(wire) < MaxWire /\ wire' = Append(wire, f)
  ELSE UNCHANGED wire

WatcherRests == UNCHANGED <<sock, shown, conn, post, recent>>

UserPresses(s) ==
  /\ box' = [mode |-> IF s \in Lir THEN "lir" ELSE "other", loc |-> s, playing |-> FALSE]
  /\ wish' = IF s \in Lir THEN "on" ELSE "off"
  /\ Sends(Selection(s, s))
  /\ WatcherRests

\* Standby, or a source that is not the stick's.
UserTurnsAway ==
  /\ box.mode = "lir"
  /\ box' = [mode |-> "off", loc |-> NoSlot, playing |-> FALSE]
  /\ wish' = "off"
  /\ Sends(Playing("away", NoSlot))
  /\ WatcherRests

\* STOP_STATE or PAUSE_STATE, while the radio plays or before it does
UserPauses ==
  /\ box.mode = "lir"
  /\ box' = [box EXCEPT !.playing = FALSE]
  /\ wish' = IF box.playing \/ wish = "off" THEN "off" ELSE "stopped"
  /\ Sends(Playing("stopped", box.loc))
  /\ WatcherRests

\* PLAY_STATE (also of a user who resumes), BUFFERING_STATE, or INVALID_SOURCE.
BoxReports ==
  /\ box.mode = "lir"
  /\ \E st \in {"play", "buffering", "invalid"} :
       /\ box.playing => st = "invalid"
       /\ box' = [box EXCEPT !.playing = (st = "play")]
       /\ wish' = IF st = "play" THEN "on" ELSE wish
       /\ Sends(Playing(st, box.loc))
  /\ WatcherRests

\* The other source of a key that is not a radio station reports itself.
BoxReportsOther ==
  /\ box.mode = "other" /\ ~box.playing
  /\ box' = [box EXCEPT !.playing = TRUE]
  /\ Sends(Playing("away", box.loc))
  /\ UNCHANGED wish /\ WatcherRests

\* selectStationOnSpeaker: marks the speaker, then posts; the speaker may not answer.
BoxSelects(s, reached) ==
  IF reached
  THEN /\ box' = [mode |-> "lir", loc |-> s, playing |-> FALSE]
       /\ Sends(Selection(NoSlot, s))
  ELSE UNCHANGED <<box, wire>>

\* The web page or a push selects a station at the same speaker.
UiSelects(s) ==
  /\ \E reached \in BOOLEAN : BoxSelects(s, reached)
  /\ recent' = TRUE /\ wish' = "on"
  /\ conn' = [conn EXCEPT !.verifyMine = FALSE, !.rescueMine = FALSE]
  /\ post' = [post EXCEPT !.foreign = (post.kind # "none")]
  /\ UNCHANGED <<sock, shown>>

-----------------------------------------------------------------------------
(* What a frame does to a connection.                                      *)

ResetRescue(c) == [c EXCEPT !.lirPlaying = FALSE, !.stage = 0]

\* Mutation of RescueArmed: a drop is rescued while a key waits to be re-armed.
RescueArmedAlways(c) == c.lirPlaying /\ c.long /\ c.stage = 0

\* A broken stream is rescued unless it just began or the key's repair deals with it.
RescueArmed(c) == c.lirPlaying /\ c.long /\ c.stage = 0 /\ c.pending = NoSlot /\ c.verify = NoSlot

NoteNowPlaying(c, f) ==
  CASE f.state = "buffering" -> c
    [] f.state = "play" ->
         [c EXCEPT !.lirPlaying = TRUE, !.lirLoc = f.loc, !.stage = 0,
                   !.long = @ /\ f.loc = c.lirLoc /\ (c.lirPlaying \/ c.stage = 2)]
    [] f.state = "invalid" ->
         IF RescueArmed(c)
         THEN [c EXCEPT !.lirPlaying = FALSE, !.stage = 1, !.rescueMine = TRUE, !.tries = 0]
         ELSE [c EXCEPT !.lirPlaying = FALSE]
    [] OTHER -> ResetRescue(c)

\* nowSelectionUpdated: a key, or the echo of somebody's /select.
NoteSelection(c, f) ==
  LET quiet == [c EXCEPT !.lirPlaying = FALSE]
      cancelled == [quiet EXCEPT !.stage = 0]
  IN IF c.stage = 2 /\ f.loc = c.lirLoc THEN quiet
     ELSE IF f.slot = NoSlot \/ f.slot = c.verify THEN cancelled
     ELSE [cancelled EXCEPT !.pending = f.slot, !.verify = NoSlot]

\* Mutation of Noted: another source does not end a repair.
NotedNotAway(c, f) ==
  IF f.kind = "selection" THEN NoteSelection(c, f)
  ELSE IF f.state = "play"
       THEN [NoteNowPlaying(c, f) EXCEPT !.pending = NoSlot, !.verify = NoSlot]
       ELSE NoteNowPlaying(c, f)

\* A frame without the re-arm it may start.
Noted(c, f) ==
  IF f.kind = "selection" THEN NoteSelection(c, f)
  ELSE IF f.state \in {"play", "away"}
       THEN [NoteNowPlaying(c, f) EXCEPT !.pending = NoSlot, !.verify = NoSlot]
       ELSE NoteNowPlaying(c, f)

-----------------------------------------------------------------------------
(* The watcher's task.                                                     *)

Attached == sock \in {"up", "deaf"} /\ shown /\ post.kind = "none"

MayReArm(c, s, followUp) ==
  (followUp \/ ~recent) /\ c.attempts[s] < MaxAttempts /\ s \in Lir

\* reArm_ up to its POST; the slot was taken from c before.
ReArms(c, s, followUp) ==
  IF MayReArm(c, s, followUp)
  THEN /\ conn' = [c EXCEPT !.attempts[s] = c.attempts[s] + 1]
       /\ post' = [kind |-> "rearm", slot |-> s, foreign |-> FALSE]
       /\ recent' = TRUE
       /\ \E reached \in BOOLEAN : BoxSelects(s, reached)
  ELSE conn' = c /\ UNCHANGED <<post, recent, box, wire>>

\* reArm_ after its POST: no follow-up if somebody else selected meanwhile.
ReArmReturns ==
  /\ post.kind = "rearm"
  /\ conn' = [conn EXCEPT !.verify = IF post.foreign THEN NoSlot ELSE post.slot,
                          !.verifyMine = TRUE]
  /\ post' = NoPost
  /\ UNCHANGED <<box, wire, sock, shown, recent, wish>>

\* A frame that does not start a re-arm.
FrameNoted ==
  /\ Attached /\ wire # <<>>
  /\ ~(Head(wire).state = "invalid" /\ conn.pending # NoSlot)
  /\ conn' = Noted(conn, Head(wire)) /\ wire' = Tail(wire)
  /\ UNCHANGED <<box, sock, shown, post, recent, wish>>

\* INVALID_SOURCE while a key waits.  The frame leaves the wire before the POST starts.
FrameReArms ==
  /\ Attached /\ wire # <<>>
  /\ Head(wire).state = "invalid" /\ conn.pending # NoSlot
  /\ LET c == [Noted(conn, Head(wire)) EXCEPT !.pending = NoSlot]
         s == conn.pending
     IN IF MayReArm(c, s, FALSE)
        THEN /\ conn' = [c EXCEPT !.attempts[s] = c.attempts[s] + 1]
             /\ post' = [kind |-> "rearm", slot |-> s, foreign |-> FALSE]
             /\ recent' = TRUE
             /\ \/ UNCHANGED box /\ wire' = Tail(wire)
                \/ /\ box' = [mode |-> "lir", loc |-> s, playing |-> FALSE]
                   /\ wire' = IF sock = "up" THEN Append(Tail(wire), Selection(NoSlot, s))
                              ELSE Tail(wire)
        ELSE conn' = c /\ wire' = Tail(wire) /\ UNCHANGED <<post, recent, box>>
  /\ UNCHANGED <<sock, shown, wish>>

\* No PLAY_STATE within the time after the key.
PendingExpires ==
  /\ Attached /\ ~conn.seedPending /\ conn.pending # NoSlot
  /\ ReArms([conn EXCEPT !.pending = NoSlot], conn.pending, FALSE)
  /\ UNCHANGED <<sock, shown, wish>>

\* No PLAY_STATE within the time after the re-arm.
VerifyExpires ==
  /\ Attached /\ ~conn.seedPending /\ conn.verify # NoSlot
  /\ LET c == [conn EXCEPT !.verify = NoSlot]
     IN IF conn.verifyMine THEN ReArms(c, conn.verify, TRUE)
        ELSE conn' = c /\ UNCHANGED <<post, recent, box, wire>>
  /\ UNCHANGED <<sock, shown, wish>>

RescueAllowed ==
  conn.rescueMine /\ conn.tries < MaxRescues /\ conn.window < MaxWindow

\* rescueStep_ up to its POST; a speaker in a zone is left alone.
RescueDue ==
  /\ Attached /\ ~conn.seedPending /\ conn.stage > 0
  /\ \/ /\ RescueAllowed
        /\ conn' = [conn EXCEPT !.tries = @ + 1, !.window = @ + 1]
        /\ post' = [kind |-> "rescue", slot |-> conn.lirLoc, foreign |-> FALSE]
        /\ recent' = TRUE
        /\ \E reached \in BOOLEAN : BoxSelects(conn.lirLoc, reached)
     \/ /\ ~RescueAllowed \/ conn.tries = 0
        /\ conn' = [conn EXCEPT !.stage = 0]
        /\ UNCHANGED <<post, recent, box, wire>>
  /\ UNCHANGED <<sock, shown, wish>>

RescueReturns ==
  /\ post.kind = "rescue"
  /\ conn' = [conn EXCEPT !.stage = IF post.foreign THEN 0 ELSE 2, !.rescueMine = TRUE]
  /\ post' = NoPost
  /\ UNCHANGED <<box, wire, sock, shown, recent, wish>>

Connects ==
  /\ sock = "down" /\ shown /\ post.kind = "none"
  /\ sock' = "up" /\ wire' = <<>>
  /\ conn' = [conn EXCEPT !.seedPending = TRUE]
  /\ UNCHANGED <<box, shown, post, recent, wish>>

\* Mutation of Seeds: the state from before the gap is kept.
SeedsOnly ==
  /\ Attached /\ conn.seedPending
  /\ conn' = [conn EXCEPT !.seedPending = FALSE]
  /\ UNCHANGED <<box, wire, sock, shown, post, recent, wish>>

\* seedFromNowPlaying_: the speaker's own answer replaces what the gap hid.
Seeds ==
  /\ Attached /\ conn.seedPending
  /\ LET c == ResetRescue([conn EXCEPT !.seedPending = FALSE])
         now == IF box.mode # "lir" THEN "away" ELSE IF box.playing THEN "play" ELSE "buffering"
     IN \/ sock = "up" /\ conn' = NoteNowPlaying(c, Playing(now, box.loc))
        \/ conn' = c
  /\ UNCHANGED <<box, wire, sock, shown, post, recent, wish>>

-----------------------------------------------------------------------------
(* The socket, the active window and the reconciliation with the inventory.*)

Drops(c) == /\ sock' = "down" /\ wire' = <<>> /\ conn' = c
            /\ UNCHANGED <<box, post, recent, wish>>

\* The speaker vanishes without closing: frames are lost from now on.
GoesDeaf == /\ sock = "up" /\ sock' = "deaf"
            /\ UNCHANGED <<box, wire, shown, conn, post, recent, wish>>

\* No frame for 90 s; a key has long been dealt with by then.
Idles ==
  /\ Attached /\ sock = "deaf" /\ wire = <<>> /\ conn.pending = NoSlot
  /\ Drops(ResetRescue([conn EXCEPT !.verify = NoSlot]))
  /\ UNCHANGED shown

PingFails ==
  /\ closes /\ Attached /\ sock = "deaf"
  /\ Drops(ResetRescue([conn EXCEPT !.verify = NoSlot]))
  /\ UNCHANGED shown

\* A close of the speaker's, or a frame cut off: the repairs are left as they are.
SpeakerCloses ==
  /\ closes /\ sock = "up"
  /\ Drops(conn)
  /\ UNCHANGED shown

\* reconcile_ on a new address of the same speaker.
Drifts ==
  /\ closes /\ post.kind = "none"
  /\ Drops(ResetRescue(conn))
  /\ UNCHANGED shown

\* reconcile_ on a speaker that was released and comes back.
Forgets ==
  /\ post.kind = "none"
  /\ Drops(NewConn)
  /\ UNCHANGED shown

RotatesOut ==
  /\ shown /\ post.kind = "none" /\ shown' = FALSE
  /\ Drops(ResetRescue([conn EXCEPT !.pending = NoSlot, !.verify = NoSlot]))

RotatesIn == /\ ~shown /\ shown' = TRUE
             /\ UNCHANGED <<box, wire, sock, conn, post, recent, wish>>

\* A stream has played for 20 s; the cooldowns and the suppress window end.
TimePasses ==
  /\ \/ /\ conn.lirPlaying /\ ~conn.long /\ conn' = [conn EXCEPT !.long = TRUE]
        /\ UNCHANGED recent
     \/ /\ \E s \in Slot : conn.attempts[s] > 0 /\ conn' = [conn EXCEPT !.attempts[s] = 0]
        /\ UNCHANGED recent
     \/ /\ conn.window > 0 /\ conn' = [conn EXCEPT !.window = 0]
        /\ UNCHANGED recent
     \/ recent /\ post.kind = "none" /\ recent' = FALSE /\ UNCHANGED conn
  /\ UNCHANGED <<box, wire, sock, shown, post, wish>>

GabboNext ==
  /\ UNCHANGED closes
  /\ \/ \E s \in Slot : UserPresses(s)
     \/ \E s \in Lir : UiSelects(s)
     \/ UserTurnsAway \/ UserPauses \/ BoxReports \/ BoxReportsOther
     \/ FrameNoted \/ FrameReArms
     \/ PendingExpires \/ VerifyExpires \/ ReArmReturns
     \/ RescueDue \/ RescueReturns
     \/ Connects \/ Seeds \/ GoesDeaf \/ Idles \/ PingFails \/ SpeakerCloses
     \/ Drifts \/ Forgets \/ RotatesOut \/ RotatesIn \/ TimePasses

-----------------------------------------------------------------------------
GabboTypeOK ==
  /\ sock \in {"up", "down", "deaf"} /\ Len(wire) <= MaxWire
  /\ conn.pending \in Slot \cup {NoSlot} /\ conn.verify \in Slot \cup {NoSlot}
  /\ conn.stage \in 0..2 /\ conn.tries \in 0..MaxRescues /\ conn.window \in 0..MaxWindow
  /\ \A s \in Slot : conn.attempts[s] \in 0..MaxAttempts

\* A key waiting to be re-armed, a re-arm waiting for music and a rescue are never in
\* progress together, whatever the order of frames, deadlines, reconnects and selections:
\* the speaker would get the stations of both (the early returns of gabbo_watcher.cpp:232,
\* 391-416 and 456-520).
OneRepair ==
  \/ conn.pending = NoSlot /\ conn.verify = NoSlot /\ post.kind # "rearm"
  \/ conn.stage = 0 /\ (conn.pending = NoSlot \/ conn.verify = NoSlot)

OffInFlight == \E i \in 1..Len(wire) :
  wire[i].state \in {"away", "stopped"} \/ wire[i].slot \in Slot \ Lir

\* A step of the watcher's that begins a /select
BeginsSelect == post.kind = "none" /\ post'.kind # "none"

\* The watcher selects a station only at a speaker whose user wants the radio, unless the
\* news of the opposite is still on its way or the connection is dead unnoticed ("Nutzer hat
\* angehalten (Play/Pause an der Box, App): nichts retten", gabbo_watcher.cpp:232; "unser
\* /select wuerde die Box sonst wieder einschalten bzw. die Wahl des Nutzers ueberfahren",
\* gabbo_watcher.cpp:438-440).
StopRespected == [][BeginsSelect => wish = "on" \/ OffInFlight \/ sock = "deaf"]_gabbo

\* The same but for two cases in which a key is re-armed: its repair outlives a connection
\* that closes (gabbo_watcher.cpp:541-553), and a stop before the music begins, which ends a
\* rescue and leaves the key's repair alone (gabbo_watcher.cpp:231-235 and 437-449).
NotAgainstUser ==
  [][BeginsSelect => \/ wish = "on" \/ OffInFlight \/ sock = "deaf"
                     \/ post'.kind = "rearm" /\ (closes \/ wish = "stopped")]_gabbo
=============================================================================
