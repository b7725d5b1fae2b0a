---------------------------- MODULE MediaPlayer ----------------------------
(***************************************************************************)
(* The IVI home screen's media player (0002-Initial-mediaplayer-           *)
(* implementation.patch): MpdClient's event loop on one connection to the  *)
(* music player daemon, its reads of song art and the user's commands on   *)
(* the other, the state the screen shows, and the buttons that choose      *)
(* between media and radio, whose client is RadioClient.  Between two      *)
(* awaits a handler is one step; an answer is what the daemon was when it  *)
(* got to the request, and the handler goes on later.  Position -1 is None.*)
(***************************************************************************)
EXTENDS RadioClient

CONSTANTS Songs,       \* files
          Queues,      \* what the daemon's database may hold: sequences of songs
          NoArt,       \* an empty picture
          MaxUpdates,  \* bound on the changes of the database
          MaxPresses,  \* bound on the user's presses
          MaxMoves,    \* bound on the songs that end
          MaxTunes,    \* bound on the presses on the radio page
          MaxEvents    \* bound on all of these together

ASSUME PlayerAssumption ==
    /\ Queues \subseteq Seq(Songs) /\ Queues # {}
    /\ {None, NoArt} \cap (Songs \cup Nat) = {} /\ None # NoArt
    /\ {MaxUpdates, MaxPresses, MaxMoves, MaxTunes, MaxEvents} \subseteq Nat

Positions == UNION {0..(Len(q) - 1) : q \in Queues}

VARIABLES files,                  \* the daemon: its database,
          queue, current, mode,   \* its queue, the position in it, what it does,
          events,                 \* the events of the next idle
          pc, todo,               \* MpdClient.run: where it is, events to handle
          sent,                   \* commands on its connection nobody waits for
          answer,                 \* the answer to the request it awaits
          target,                 \* songPosition and songFile of handlePlayerEvent
          playlist, song, position, playState,  \* what the screen shows
          artState, art,          \* MpdClient.artState and the pictures
          readers,                \* the readSongArts under way
          commands,               \* the user's commands on the other connection
          source,                 \* PlayController.source
          mediaPlaying,           \* media is to go on when the user comes back
          unseen,                 \* history: what the daemon had before any event told of it
          epoch,                  \* history: queue events handled
          outlived, failed,       \* history: a read outlived its queue, a read threw
          hasty,                  \* history: a press while something was under way
          updates, presses, moves, tunes

mpd == <<files, queue, current, mode, events>>
loop == <<pc, todo, sent, answer, target>>
shown == <<playlist, song, position, playState>>
pictures == <<artState, art, readers>>
user == <<commands, source, mediaPlaying>>
player_history == <<unseen, epoch, outlived, failed, hasty>>
bounds == <<updates, presses, moves, tunes>>
media == <<mpd, loop, shown, pictures, user, player_history, bounds>>
player_vars == <<media, radio>>

\* An update and a press on the radio page count for two, and what there was at the
\* start as if it had been done since.
Count(was) == IF was THEN 1 ELSE 0
Room(n) == 2 * (updates + tunes) + presses + moves + n <= MaxEvents

Modes == {"stopped", "playing", "paused"}
Answers == [queue : Queues \cup {<<>>}, current : Positions \cup {None}, mode : Modes]
Commands == [name : {"play"}, position : Positions] \cup
            [name : {"pause"}, on : BOOLEAN] \cup [name : {"next", "previous"}]

PlayerTypeOK ==
    /\ RadioTypeOK
    /\ files \in Queues /\ queue \in Queues \cup {<<>>}
    /\ current \in Positions \cup {None} /\ mode \in Modes
    /\ current # None => current < Len(queue)
    /\ mode # "stopped" => current # None
    /\ events \subseteq {"database", "playlist", "player"}
    /\ pc \in {"idle", "next", "queue", "song", "status", "ended"}
    /\ todo \in Seq({"database", "playlist", "player"})
    /\ sent \in Seq({"clear", "add"}) /\ answer \in Answers \cup {None}
    /\ target \in [position : Positions \cup {None}, file : Songs \cup {None}]
    /\ playlist \in Queues \cup {<<>>} /\ song \in Songs \cup {None}
    /\ position \in Positions \cup {None} /\ playState \in Modes
    /\ artState \in [Positions \cup {None} -> {"none", "reading", "read"}]
    /\ art \in [Positions \cup {None} -> Songs \cup {NoArt, None}]
    /\ readers \in Seq([position : Positions, file : Songs, epoch : Nat])
    /\ commands \in Seq(Commands)
    /\ source \in {"media", "radio"}
    /\ {mediaPlaying, outlived, failed, hasty} \subseteq BOOLEAN
    /\ unseen \subseteq {"playlist", "player"} /\ epoch \in Nat
    /\ updates \in 0..MaxUpdates /\ presses \in 0..MaxPresses /\ moves \in 0..MaxMoves
    /\ tunes \in 0..MaxTunes

NoPictures == [p \in Positions \cup {None} |-> None]
NoArtState == [p \in Positions \cup {None} |-> "none"]

\* The daemon, which ran before, has any queue and may be playing it: run asks for
\* neither before it awaits the first event, and the screen shows an empty player.
PlayerInit ==
    /\ RadioInit
    /\ files \in Queues /\ queue \in Queues \cup {<<>>}
    /\ current \in {None} \cup 0..(Len(queue) - 1)
    /\ mode \in (IF current = None THEN {"stopped"} ELSE Modes)
    /\ unseen = {e \in {"playlist", "player"} :
                     (e = "playlist" /\ queue # <<>>) \/ (e = "player" /\ mode # "stopped")}
    /\ events = {}
    /\ pc = "idle" /\ todo = <<>> /\ sent = <<>> /\ answer = None
    /\ target = [position |-> None, file |-> None]
    /\ playlist = <<>> /\ song = None /\ position = None /\ playState = "stopped"
    /\ artState = NoArtState /\ art = NoPictures /\ readers = <<>>
    /\ commands = <<>> /\ source = "media" /\ mediaPlaying = FALSE
    /\ epoch = 0 /\ outlived = FALSE /\ failed = FALSE /\ hasty = FALSE
    /\ updates = Count(queue # <<>>) /\ presses = Count(mode # "stopped") + Count(on)
    /\ moves = 0 /\ tunes = Count(scan # 0)
    /\ updates <= MaxUpdates /\ presses <= MaxPresses /\ tunes <= MaxTunes /\ Room(0)

-----------------------------------------------------------------------------
(* The daemon.                                                             *)

\* The daemon's files change, and it says so.
DatabaseUpdate ==
    /\ updates < MaxUpdates /\ Room(2)
    /\ updates' = updates + 1
    /\ files' \in Queues
    /\ events' = events \cup {"database"}
    /\ UNCHANGED <<queue, current, mode, loop, shown, pictures, user, player_history,
                   presses, moves, tunes>>

\* The commands of handleDatabaseEvent; clear stops the player.
MpdSent ==
    /\ sent # <<>>
    /\ sent' = Tail(sent)
    /\ IF Head(sent) = "clear"
       THEN /\ queue' = <<>> /\ current' = None /\ mode' = "stopped"
            /\ events' = events \cup {"playlist"} \cup
                         (IF mode = "stopped" THEN {} ELSE {"player"})
       ELSE /\ queue' = files
            /\ events' = events \cup {"playlist"}
            /\ UNCHANGED <<current, mode>>
    /\ UNCHANGED <<files, pc, todo, answer, target, shown, pictures, user, player_history, bounds>>

\* Player state: position p, or the end of the queue.
PlaysAt(p) ==
    /\ events' = events \cup {"player"}
    /\ IF p < Len(queue) THEN current' = p /\ mode' = "playing"
                         ELSE current' = None /\ mode' = "stopped"

\* A command of the user; one that makes no sense any more does nothing.
MpdCommand ==
    /\ commands # <<>>
    /\ commands' = Tail(commands)
    /\ LET c == Head(commands)
       IN  \/ c.name = "play" /\ c.position < Len(queue) /\ PlaysAt(c.position)
           \/ c.name = "pause" /\ mode = (IF c.on THEN "playing" ELSE "paused")
              /\ mode' = (IF c.on THEN "paused" ELSE "playing")
              /\ events' = events \cup {"player"} /\ UNCHANGED current
           \/ c.name = "next" /\ mode # "stopped" /\ PlaysAt(current + 1)
           \/ c.name = "previous" /\ mode # "stopped"
              /\ PlaysAt(IF current = 0 THEN 0 ELSE current - 1)
           \/ /\ c.name = "play" => c.position >= Len(queue)
              /\ c.name = "pause" => mode # (IF c.on THEN "playing" ELSE "paused")
              /\ c.name \in {"next", "previous"} => mode = "stopped"
              /\ UNCHANGED <<current, mode, events>>
    /\ UNCHANGED <<files, queue, loop, shown, pictures, source, mediaPlaying,
                   player_history, bounds>>

SongEnds ==
    /\ mode = "playing" /\ moves < MaxMoves /\ Room(1)
    /\ moves' = moves + 1
    /\ PlaysAt(current + 1)
    /\ UNCHANGED <<files, queue, loop, shown, pictures, user, player_history,
                   updates, presses, tunes>>

-----------------------------------------------------------------------------
(* MpdClient.run and its handlers.                                         *)

Named(event, S) == IF event \in S THEN <<event>> ELSE <<>>

\* The daemon lists them in this order.
Batch(S) == Named("database", S) \o Named("playlist", S) \o Named("player", S)

Idle ==
    /\ pc = "idle" /\ sent = <<>> /\ events # {}
    /\ todo' = Batch(events) /\ events' = {}
    /\ pc' = "next"
    /\ UNCHANGED <<files, queue, current, mode, sent, answer, target, shown, pictures,
                   user, player_history, bounds>>

EndOfBatch ==
    /\ pc = "next" /\ todo = <<>>
    /\ pc' = "idle"
    /\ UNCHANGED <<mpd, todo, sent, answer, target, shown, pictures, user, player_history, bounds>>

Handles(event) == pc = "next" /\ todo # <<>> /\ Head(todo) = event /\ todo' = Tail(todo)

\* Neither command is awaited.
handleDatabaseEvent ==
    /\ Handles("database")
    /\ sent' = sent \o <<"clear", "add">>
    /\ UNCHANGED <<mpd, pc, answer, target, shown, pictures, user, player_history, bounds>>

\* Mutant: the pictures of the queue before stay.
QueueEventKeepsArt ==
    /\ Handles("playlist")
    /\ playlist' = <<>> /\ artState' = NoArtState
    /\ song' = None /\ position' = None /\ playState' = "stopped"
    /\ pc' = "queue" /\ epoch' = epoch + 1
    /\ UNCHANGED <<mpd, sent, answer, target, art, readers, user, unseen, outlived, failed,
                   hasty, bounds>>

\* handleQueueEvent up to the request for the queue: everything is forgotten, but
\* for the reads under way.
handleQueueEvent ==
    /\ Handles("playlist")
    /\ playlist' = <<>> /\ artState' = NoArtState /\ art' = NoPictures
    /\ song' = None /\ position' = None /\ playState' = "stopped"
    /\ pc' = "queue" /\ epoch' = epoch + 1
    /\ UNCHANGED <<mpd, sent, answer, target, readers, user, unseen, outlived, failed, hasty,
                   bounds>>

\* handlePlayerEvent up to the request for the current song.
handlePlayerEvent ==
    /\ Handles("player")
    /\ pc' = "song"
    /\ UNCHANGED <<mpd, sent, answer, target, shown, pictures, user, player_history, bounds>>

\* The daemon gets to the request, after what was sent before it.
Answer ==
    /\ pc \in {"queue", "song", "status"} /\ sent = <<>> /\ answer = None
    /\ answer' = [queue |-> queue, current |-> current, mode |-> mode]
    /\ UNCHANGED <<mpd, pc, todo, sent, target, shown, pictures, user, player_history, bounds>>

\* readSongArt up to its first request.
readSongArt(p, file) ==
    IF artState[p] = "reading" THEN UNCHANGED <<artState, readers>>
    ELSE /\ artState' = [artState EXCEPT ![p] = "reading"]
         /\ readers' = Append(readers, [position |-> p, file |-> file, epoch |-> epoch])

QueueAnswered ==
    /\ pc = "queue" /\ answer # None
    /\ playlist' = answer.queue
    /\ IF answer.queue = <<>> THEN UNCHANGED <<song, position, artState, readers>>
       ELSE /\ song' = Head(answer.queue) /\ position' = 0
            /\ readSongArt(0, Head(answer.queue))
    /\ answer' = None /\ pc' = "next" /\ unseen' = unseen \ {"playlist"}
    /\ UNCHANGED <<mpd, todo, sent, target, playState, art, user, epoch, outlived, failed, hasty,
                   bounds>>

\* Mutant: nothing more is asked for when there is no current song.
SongAnsweredOrNone ==
    /\ pc = "song" /\ answer # None
    /\ IF answer.current = None
       THEN pc' = "next" /\ UNCHANGED <<target, song, position>>
       ELSE /\ target' = [position |-> answer.current, file |-> answer.queue[answer.current + 1]]
            /\ song' = target'.file /\ position' = target'.position
            /\ pc' = "status"
    /\ answer' = None
    /\ UNCHANGED <<mpd, todo, sent, playlist, playState, pictures, user, player_history, bounds>>

SongAnswered ==
    /\ pc = "song" /\ answer # None
    /\ IF answer.current = None
       THEN target' = [position |-> None, file |-> None] /\ UNCHANGED <<song, position>>
       ELSE /\ target' = [position |-> answer.current, file |-> answer.queue[answer.current + 1]]
            /\ song' = target'.file /\ position' = target'.position
    /\ answer' = None /\ pc' = "status"
    /\ UNCHANGED <<mpd, todo, sent, playlist, playState, pictures, user, player_history, bounds>>

\* Mutant: the first song of a queue has its picture read, the others never.
WantsNever(p) == FALSE

Wants(p) == artState[p] = "none"

\* The rest of handlePlayerEvent: the state, and the picture of what plays.
StatusAnswered ==
    /\ pc = "status" /\ answer # None
    /\ playState' = answer.mode
    /\ IF answer.mode = "playing" /\ Wants(target.position)
       THEN IF target.file # None
            THEN readSongArt(target.position, target.file) /\ UNCHANGED art
            ELSE /\ artState' = [artState EXCEPT ![None] = "read"]
                 /\ art' = [art EXCEPT ![None] = NoArt]
                 /\ UNCHANGED readers
       ELSE UNCHANGED pictures
    /\ answer' = None /\ pc' = "next" /\ unseen' = unseen \ {"player"}
    /\ target' = [position |-> None, file |-> None]
    /\ UNCHANGED <<mpd, todo, sent, playlist, song, position, user, epoch, outlived, failed, hasty,
                   bounds>>

\* A request that run or a handler awaits ends in an exception, which nobody
\* catches: the loop is over for good.  What was sent is lost with the connection
\* or not.
LoopThrows ==
    /\ pc \in {"idle", "queue", "song", "status"}
    /\ pc' = "ended" /\ todo' = <<>> /\ answer' = None
    /\ target' = [position |-> None, file |-> None]
    /\ sent' \in {sent, <<>>}
    /\ UNCHANGED <<mpd, shown, pictures, user, player_history, bounds>>

\* The last chunk of a picture has come, or the daemon has none.  An entry that was
\* cleared meanwhile ends the read with an exception; one that was made anew does not.
ReadEnds(i) ==
    LET r == readers[i]
    IN  /\ readers' = RemoveAt(readers, i)
        /\ IF artState[r.position] = "none" THEN UNCHANGED <<artState, art, outlived>>
           ELSE /\ artState' = [artState EXCEPT ![r.position] = "read"]
                /\ \E bytes \in {r.file, NoArt} : art' = [art EXCEPT ![r.position] = bytes]
                /\ outlived' = (outlived \/ r.epoch # epoch)
        /\ UNCHANGED <<mpd, loop, shown, user, unseen, epoch, failed, hasty, bounds>>

\* A request fails: the entry keeps saying that the picture is being read.
ReadThrows(i) ==
    /\ readers' = RemoveAt(readers, i)
    /\ failed' = TRUE
    /\ UNCHANGED <<mpd, loop, shown, artState, art, user, unseen, epoch, outlived, hasty, bounds>>

-----------------------------------------------------------------------------
(* The user.                                                               *)

Settled == events = {} /\ pc = "idle" /\ sent = <<>>

\* Every press: what it sends to either, the source it leaves.
Press(cs, rs, to, going) ==
    /\ presses < MaxPresses /\ Room(1)
    /\ presses' = presses + 1
    /\ hasty' = (hasty \/ ~Settled \/ "player" \in unseen \/ untold \/
                 commands # <<>> \/ requests # <<>> \/ statuses # <<>>)
    /\ commands' = commands \o cs /\ Sends(rs)
    /\ source' = to /\ mediaPlaying' = going
    /\ UNCHANGED <<mpd, loop, shown, pictures, unseen, epoch, outlived, failed, updates, moves,
                   tunes, service, statuses, start_up, RadioState, dragged, radio_history>>

\* MpdClient.play, pause, next and previous, by the state that is shown.
play ==
    IF playState = "stopped" /\ position # None THEN <<[name |-> "play", position |-> position]>>
    ELSE IF playState = "paused" THEN <<[name |-> "pause", on |-> FALSE]>>
    ELSE <<>>

\* Mutant: the pause button of a media player that is not shown playing.
PauseWhenPaused == IF playState = "paused" THEN <<[name |-> "pause", on |-> TRUE]>> ELSE <<>>

pause == IF playState = "playing" THEN <<[name |-> "pause", on |-> TRUE]>> ELSE <<>>

next == IF playState = "playing" THEN <<[name |-> "next"]>> ELSE <<>>

previous == IF playState = "playing" THEN <<[name |-> "previous"]>> ELSE <<>>

\* The buttons of the media page, and a track picked from its list.
PressMediaPage(cs) == source = "media" /\ Press(cs, <<>>, source, mediaPlaying)
PressPlay == PressMediaPage(IF playState = "playing" THEN pause ELSE play)
PressPrevious == PressMediaPage(previous)
PressNext == PressMediaPage(next)
pickTrack ==
    \E n \in 0..(Len(playlist) - 1) : PressMediaPage(<<[name |-> "play", position |-> n]>>)

\* The button of the volume bar acts for the source there is, by what either plays.
PressVolumeBar ==
    LET isPlaying == playState = "playing" \/ playing
    IN  IF source = "media"
        THEN Press(IF isPlaying THEN pause ELSE play, <<>>, source, mediaPlaying)
        ELSE Press(<<>>, IF isPlaying THEN stop ELSE start, source, mediaPlaying)

\* onPressed of the navigation: the radio starts and media pauses, or goes on.
PressFm == Press(pause, start, "radio", playState = "playing")
PressMedia == Press(IF mediaPlaying THEN play ELSE <<>>, stop, "media", mediaPlaying)

\* The radio page.
PressRadioPage ==
    /\ source = "radio" /\ tunes < MaxTunes /\ Room(2)
    /\ tunes' = tunes + 1
    /\ PressRadio \/ Drag
    /\ UNCHANGED <<mpd, loop, shown, pictures, user, player_history, updates, presses, moves>>

Daemon == MpdSent \/ MpdCommand

Loop ==
    \/ Idle \/ EndOfBatch \/ handleDatabaseEvent \/ handleQueueEvent \/ handlePlayerEvent
    \/ Answer \/ QueueAnswered \/ SongAnswered \/ StatusAnswered \/ LoopThrows

Reads == \E i \in DOMAIN readers : ReadEnds(i) \/ ReadThrows(i)

User ==
    \/ PressPlay \/ PressPrevious \/ PressNext \/ pickTrack
    \/ PressVolumeBar \/ PressFm \/ PressMedia \/ PressRadioPage

PlayerNext ==
    \/ (DatabaseUpdate \/ SongEnds \/ Daemon \/ Loop \/ Reads) /\ UNCHANGED radio
    \/ User
    \/ (Service \/ Client \/ Release) /\ UNCHANGED media

PlayerSpec == PlayerInit /\ [][PlayerNext]_player_vars

-----------------------------------------------------------------------------
(* Properties.                                                             *)

\* Whenever every event is handled and the loop goes on, the screen shows the
\* daemon's queue, whether it plays, and the song it plays, although each is asked
\* for by itself, and commands, the end of a song or another update come between
\* the questions; but a queue the daemon had at the start is shown after the first
\* queue event only, and what it played then after the first player event.
ShowsTheDaemon ==
    Settled =>
        /\ "playlist" \notin unseen => playlist = queue
        /\ "player" \notin unseen =>
              /\ playState = mode
              /\ mode # "stopped" => position = current /\ song = queue[current + 1]

\* The picture shown for a place of the list is the one of the song the daemon's
\* queue has in that place, or none, unless a read outlived the queue it was begun
\* for.
ArtRight ==
    Settled /\ ~outlived =>
        \A p \in Positions : art[p] \in Songs => p < Len(queue) /\ art[p] = queue[p + 1]

OneReader ==
    \A i, j \in DOMAIN readers :
        readers[i].position = readers[j].position /\ readers[i].epoch = readers[j].epoch => i = j

\* The song that plays has its picture, or a read that will bring it, unless one
\* failed; and no picture is read twice at a time for the same place of a queue.
ArtOnItsWay ==
    /\ OneReader
    /\ Settled /\ playState = "playing" /\ ~failed =>
          \/ art[position] # None
          \/ \E i \in DOMAIN readers : readers[i].position = position /\ readers[i].epoch = epoch

\* A user who waits for the screen before the next press, the first of them until it
\* was told what played before, never hears the radio and the media player at once, if
\* no start or stop of the radio fails, and if the radio was silent at the start.
OneSource ==
    ~hasty /\ ~unheard /\ ~untold /\ Settled /\ commands = <<>> /\ requests = <<>> =>
        ~(on /\ mode = "playing")
=============================================================================
