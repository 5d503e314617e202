----------------------------- MODULE YoutubePlayer -----------------------------
(***************************************************************************)
(* The dedicated YouTube player: Cofferdam's play queue, the channel to the *)
(* one current player page, the service that launches it and the action     *)
(* that is under way, against the pages themselves (web/player.js).         *)
(*                                                                          *)
(* One action at a time holds the write lock, any other is refused as busy. *)
(* Between its steps pages register, report, collect commands, acknowledge  *)
(* them and are closed, and YouTube follows an instruction when it likes.   *)
(* Volume and mute take the path of pause and are left out.                 *)
(***************************************************************************)
EXTENDS Naturals, Sequences, SequencesExt, FiniteSets

CONSTANTS Videos, Nothing,
          Limit,       \* MAX_QUEUE_ITEMS
          MaxPages,    \* documents opened, by a launch or by a person
          MaxActions,  \* actions that take the write lock
          MaxTouches   \* clicks in a player, pages opened or closed by a person, silences

VARIABLES
    \* PlayQueue
    items, cursor, added,
    \* PlayerChannel
    current, seen, sequence, pending, acknowledged, report,
    \* PlayerService and the action under way
    shownAs, action, actions,
    \* the pages, and how often something interfered
    pages, touches

queueVars == <<items, cursor, added>>
channelVars == <<current, seen, sequence, pending, acknowledged, report>>
serviceVars == <<shownAs, action, actions>>
pageVars == <<pages, touches>>
playerVars == <<queueVars, channelVars, serviceVars, pageVars>>

Pages == 1 .. MaxPages

ASSUME YoutubePlayerAssumption ==
    /\ Videos # {} /\ Nothing \notin Videos \cup Pages
    /\ {Limit, MaxPages} \subseteq Nat

MaxPending == 8
VideoOrNone == Videos \cup {Nothing}

\* A cursor of 0 is none.  An item's id is the number of its adding.
Item(n, v) == [id |-> n, video |-> v]
Command(n, name, v) == [n |-> n, name |-> name, video |-> v]
NoItem == Item(0, Nothing)
Idle == [kind |-> "none", item |-> NoItem, n |-> 0, at |-> "idle"]

\* "paused" stands for "ended" too.
States == {"idle", "playing", "paused", "blocked"}
PlayerReport(v, s, e) == [video |-> v, state |-> s, error |-> e]
NoReport == PlayerReport(Nothing, "idle", FALSE)

\* A page: its iframe (none, building, ready), the video that is in it and what
\* that is doing, the instructions YouTube has yet to follow; the video it says
\* it shows, one that waits for the script, the last command it ran; and what it
\* has on the wire: a report, an answered poll, acknowledgements.
Unborn == [at |-> "unborn", api |-> FALSE, iframe |-> "none", video |-> Nothing,
           state |-> "idle", error |-> FALSE, asks |-> <<>>, named |-> Nothing,
           wanted |-> Nothing, last |-> 0, beat |-> Nothing, answer |-> {},
           busy |-> FALSE, acks |-> {}]

\* The list outlives the page: it may be empty, or full of what earlier pages
\* were given.
PlayerInit ==
    /\ items \in {<<>>, [i \in 1 .. Limit |-> Item(i, CHOOSE v \in Videos : TRUE)]}
    /\ cursor \in 0 .. Len(items) /\ added = Len(items)
    /\ current = Nothing /\ seen = FALSE /\ sequence = 0 /\ pending = {}
    /\ acknowledged = 0 /\ report = Nothing
    /\ shownAs = Nothing /\ action = Idle /\ actions = 0
    /\ pages = [p \in Pages |-> Unborn] /\ touches = 0
-----------------------------------------------------------------------------
(* PlayQueue.                                                               *)

\* _reclaim_played: the oldest item before the cursor makes room.
Reclaims == Len(items) >= Limit /\ cursor > 1
HasRoom == Len(items) < Limit \/ Reclaims

\* Definitions named ...Mutant are not part of the specification: each is the
\* definition after it with a slip a programmer could make, and some property
\* must notice it.

\* Mutant: room is made without moving the cursor back.
PlayNowMutant(v) ==
    /\ HasRoom
    /\ LET kept == IF Reclaims THEN Tail(items) ELSE items
           at   == IF cursor > Len(kept) THEN Len(kept) ELSE cursor
       IN /\ items' = InsertAt(kept, at + 1, Item(added + 1, v))
          /\ cursor' = at + 1
    /\ added' = added + 1

PlayNow(v) ==
    /\ HasRoom
    /\ LET kept == IF Reclaims THEN Tail(items) ELSE items
           at   == IF Reclaims THEN cursor - 1 ELSE cursor
       IN /\ items' = InsertAt(kept, at + 1, Item(added + 1, v))
          /\ cursor' = at + 1
    /\ added' = added + 1

\* From a standing start the cursor goes to the first item.
Advance == /\ cursor < Len(items)
           /\ cursor' = cursor + 1
           /\ UNCHANGED <<items, added>>

Retreat == /\ cursor > 1
           /\ cursor' = cursor - 1
           /\ UNCHANGED <<items, added>>

\* The three edits of the list hold the write lock for one step.
Add(v) ==
    /\ action = Idle
    /\ actions < MaxActions
    /\ Len(items) < Limit
    /\ items' = Append(items, Item(added + 1, v))
    /\ added' = added + 1
    /\ actions' = actions + 1
    /\ UNCHANGED <<cursor, channelVars, shownAs, action, pageVars>>

\* Removing the current item leaves the cursor on what followed.
RemoveItem(i) ==
    /\ action = Idle
    /\ actions < MaxActions
    /\ items' = RemoveAt(items, i)
    /\ cursor' = IF i < cursor \/ (i = cursor /\ cursor = Len(items))
                 THEN cursor - 1 ELSE cursor
    /\ actions' = actions + 1
    /\ UNCHANGED <<added, channelVars, shownAs, action, pageVars>>

Clear ==
    /\ action = Idle
    /\ actions < MaxActions
    /\ items # <<>>
    /\ items' = <<>>
    /\ cursor' = 0
    /\ actions' = actions + 1
    /\ UNCHANGED <<added, channelVars, shownAs, action, pageVars>>
-----------------------------------------------------------------------------
(* The action under way.                                                    *)

Connected == current # Nothing /\ seen
Observation == IF Connected THEN report ELSE Nothing

Begins(kind, item, at) ==
    /\ action = Idle
    /\ actions < MaxActions
    /\ actions' = actions + 1
    /\ action' = [Idle EXCEPT !.kind = kind, !.item = item, !.at = at]

Goes(at) == action' = [action EXCEPT !.at = at]
Ends == action' = Idle

\* play_search_result with a player: straight to the queue.
BeginPlay(v) ==
    /\ Connected
    /\ Begins("load", Item(0, v), "queue")
    /\ UNCHANGED <<queueVars, channelVars, shownAs, pageVars>>

\* ensure_player: without one, a page is opened, once.
BeginCold(kind, v) ==
    /\ ~ Connected
    /\ Begins(kind, Item(0, v), "waiting")
    /\ \E p \in Pages :
          /\ pages[p].at = "unborn"
          /\ \A q \in 1 .. p - 1 : pages[q].at # "unborn"
          /\ pages' = [pages EXCEPT ![p].at = "opened"]
    /\ UNCHANGED <<queueVars, channelVars, shownAs, touches>>

\* A player that registers late still satisfies the wait.
StopWaiting ==
    /\ action.at = "waiting"
    /\ IF Connected /\ action.kind = "load" THEN Goes("queue") ELSE Ends
    /\ UNCHANGED <<queueVars, channelVars, shownAs, actions, pageVars>>

Enqueue ==
    /\ action.at = "queue"
    /\ \/ /\ PlayNow(action.item.video)
          /\ action' = [action EXCEPT !.item = items'[cursor'], !.at = "send"]
       \/ ~ HasRoom /\ Ends /\ UNCHANGED queueVars
    /\ UNCHANGED <<channelVars, shownAs, actions, pageVars>>

\* The cursor moves before the video is loaded.
BeginSkip(forward) ==
    /\ Connected
    /\ IF forward THEN Advance ELSE Retreat
    /\ Begins("load", items[cursor'], "send")
    /\ UNCHANGED <<channelVars, shownAs, pageVars>>

BeginTransport(kind) ==
    /\ Connected
    /\ Begins(kind, NoItem, "send")
    /\ UNCHANGED <<queueVars, channelVars, shownAs, pageVars>>

\* Commands are told apart, and ordered, by their numbers.
Oldest(c, commands) == \A d \in commands : c.n <= d.n

\* PlayerChannel.send: only the newest commands are held.
Bounded(commands) ==
    {c \in commands : Cardinality({d \in commands : d.n > c.n}) < MaxPending}

\* Mutant: a command takes the number before it is counted.
SendMutant ==
    /\ action.at = "send"
    /\ IF Connected
       THEN /\ sequence' = sequence + 1
            /\ pending' = Bounded(
                  pending \cup {Command(sequence, action.kind, action.item.video)})
            /\ action' = [action EXCEPT !.at = "sent", !.n = sequence]
       ELSE Ends /\ UNCHANGED <<sequence, pending>>
    /\ UNCHANGED <<queueVars, current, seen, acknowledged, report, shownAs, actions,
                   pageVars>>

Send ==
    /\ action.at = "send"
    /\ IF Connected
       THEN /\ sequence' = sequence + 1
            /\ pending' = Bounded(
                  pending \cup {Command(sequence', action.kind, action.item.video)})
            /\ action' = [action EXCEPT !.at = "sent", !.n = sequence']
       ELSE Ends /\ UNCHANGED <<sequence, pending>>
    /\ UNCHANGED <<queueVars, current, seen, acknowledged, report, shownAs, actions,
                   pageVars>>

\* _send_and_acknowledge, and what load_video notes after it.
Acknowledged ==
    /\ action.at = "sent"
    /\ acknowledged >= action.n
    /\ Goes("identity")
    /\ shownAs' = IF action.kind = "load" THEN action.item.video ELSE shownAs
    /\ UNCHANGED <<queueVars, channelVars, actions, pageVars>>

NotAcknowledged ==
    /\ action.at = "sent"
    /\ acknowledged < action.n
    /\ Ends
    /\ UNCHANGED <<queueVars, channelVars, shownAs, actions, pageVars>>

\* _confirm_playing: which video, then an error, then whether it plays.
NamesTheVideo == Observation # Nothing /\ Observation.video = action.item.video

ConfirmVideo ==
    /\ action.at = "identity" /\ action.kind = "load"
    /\ IF NamesTheVideo THEN Goes("error") ELSE Ends
    /\ UNCHANGED <<queueVars, channelVars, shownAs, actions, pageVars>>

RefuseError ==
    /\ action.at = "error"
    /\ IF Observation # Nothing /\ Observation.error THEN Ends ELSE Goes("state")
    /\ UNCHANGED <<queueVars, channelVars, shownAs, actions, pageVars>>

Asked(kind) == IF kind = "pause" THEN {"paused"} ELSE {"playing"}

\* The player reports what was asked for: "applied".
Answer ==
    /\ action.at = "state" \/ (action.at = "identity" /\ action.kind # "load")
    /\ Observation # Nothing /\ ~ Observation.error
    /\ Observation.state \in Asked(action.kind)
    /\ Ends
    /\ UNCHANGED <<queueVars, channelVars, shownAs, actions, pageVars>>

\* It does not, in time: blocked, buffering, an error, or a refusal.
NotObserved ==
    /\ action.at = "state" \/ (action.at = "identity" /\ action.kind # "load")
    /\ Ends
    /\ UNCHANGED <<queueVars, channelVars, shownAs, actions, pageVars>>
-----------------------------------------------------------------------------
(* The channel, as a page's requests reach it.                              *)

PageStep == UNCHANGED <<queueVars, serviceVars>>
\* Mutant: any page is heard while there is a player.
RefusedMutant(p) == current = Nothing

Refused(p) == p # current

\* A registration supersedes the page before it.  sequence goes on counting.
Register(p) ==
    /\ PageStep
    /\ pages[p].at = "opened"
    /\ pages' = [pages EXCEPT ![p].at = "live"]
    /\ current' = p
    /\ seen' = TRUE
    /\ report' = NoReport
    /\ pending' = {}
    /\ UNCHANGED <<sequence, acknowledged, touches>>

\* submit_state: a refused page stops reporting and polling.
ReportArrives(p) ==
    /\ PageStep
    /\ pages[p].beat # Nothing
    /\ IF Refused(p)
       THEN /\ pages' = [pages EXCEPT ![p].beat = Nothing, ![p].at = "stopped"]
            /\ UNCHANGED <<report, seen>>
       ELSE /\ pages' = [pages EXCEPT ![p].beat = Nothing]
            /\ report' = pages[p].beat
            /\ seen' = TRUE
    /\ UNCHANGED <<current, sequence, pending, acknowledged, touches>>

\* collect: what is new to the page and not too old; the answer is on its way.
Fresh(p) == {c \in pending : c.n > pages[p].last}

Collect(p) ==
    /\ PageStep
    /\ pages[p].at = "live" /\ pages[p].answer = {}
    /\ IF Refused(p)
       THEN pages' = [pages EXCEPT ![p].at = "stopped"]
       ELSE /\ Fresh(p) # {}
            /\ pages' = [pages EXCEPT ![p].answer = Fresh(p)]
    /\ UNCHANGED <<channelVars, touches>>

\* COMMAND_TTL_SECONDS is longer than any action waits for an acknowledgement.
Expire ==
    /\ PageStep
    /\ \E c \in pending :
          /\ Oldest(c, pending)
          /\ ~ (action.at = "sent" /\ c.n = action.n)
          /\ pending' = pending \ {c}
    /\ UNCHANGED <<current, seen, sequence, acknowledged, report, pageVars>>

AckArrives(p) ==
    /\ PageStep
    /\ \E n \in pages[p].acks :
          /\ pages' = [pages EXCEPT ![p].acks = @ \ {n}]
          /\ IF Refused(p)
             THEN UNCHANGED <<acknowledged, pending, seen>>
             ELSE /\ acknowledged' = IF n > acknowledged THEN n ELSE acknowledged
                  /\ pending' = {c \in pending : c.n > n}
                  /\ seen' = TRUE
    /\ UNCHANGED <<current, sequence, report, touches>>

\* STALE_AFTER_SECONDS without a word: a tab that is closed, frozen or throttled.
GoStale ==
    /\ PageStep
    /\ touches < MaxTouches /\ touches' = touches + 1
    /\ seen
    /\ seen' = FALSE
    /\ UNCHANGED <<current, sequence, pending, acknowledged, report, pages>>

\* release, sent when a page goes away; it may not arrive.
Close(p, arrives) ==
    /\ PageStep
    /\ pages[p].at \in {"opened", "live", "stopped"}
    /\ arrives => ~ pages[p].busy
    /\ touches < MaxTouches /\ touches' = touches + 1
    /\ pages' = [pages EXCEPT ![p] =
          [Unborn EXCEPT !.at = "closed", !.last = pages[p].last, !.named = pages[p].named]]
    /\ IF arrives /\ p = current
       THEN /\ current' = Nothing /\ seen' = FALSE /\ report' = Nothing /\ pending' = {}
       ELSE UNCHANGED <<current, seen, report, pending>>
    /\ UNCHANGED <<sequence, acknowledged>>
-----------------------------------------------------------------------------
(* The page: web/player.js, and YouTube in its iframe.  What goes on in a    *)
(* page that was stopped reaches nobody and is left out.                     *)

PageOnly == UNCHANGED <<queueVars, channelVars, serviceVars>>

\* A person opens the page a second time.
OpenAgain(p) ==
    /\ PageOnly
    /\ touches < MaxTouches /\ touches' = touches + 1
    /\ pages[p].at = "unborn"
    /\ \A q \in 1 .. p - 1 : pages[q].at # "unborn"
    /\ pages' = [pages EXCEPT ![p].at = "opened"]

\* run.  The first video builds the iframe; one that comes before it is ready is
\* only remembered by name.
Load(page, c) ==
    LET named == [page EXCEPT !.named = c.video, !.error = FALSE] IN
    IF page.iframe = "building" THEN named
    ELSE IF page.iframe = "ready" THEN [named EXCEPT !.asks = Append(@, c)]
    ELSE IF page.api THEN [named EXCEPT !.iframe = "building", !.asks = <<c>>]
    ELSE [named EXCEPT !.wanted = c.video]

Run(page, c) == IF c.name = "load" THEN Load(page, c)
                ELSE IF page.iframe = "ready" THEN [page EXCEPT !.asks = Append(@, c)]
                ELSE page

\* One command of an answer: not one that ran before; acknowledged after it ran.
Obeyed(page, c) ==
    IF c.n <= page.last THEN page
    ELSE [Run(page, c) EXCEPT !.last = c.n, !.acks = @ \cup {c.n}]

\* The answered poll arrives: its commands run one after the other, and no other
\* callback of the page in between.
RunCommand(p) ==
    /\ PageOnly
    /\ \E c \in pages[p].answer :
          /\ Oldest(c, pages[p].answer)
          /\ LET left == pages[p].answer \ {c} IN
             pages' = [pages EXCEPT
                ![p] = [Obeyed(@, c) EXCEPT !.answer = left, !.busy = left # {}]]
    /\ UNCHANGED touches

\* onYouTubeIframeAPIReady: a video that was waiting builds the iframe.
ApiReady(p) ==
    /\ PageOnly
    /\ pages[p].at \in {"opened", "live"} /\ ~ pages[p].api /\ ~ pages[p].busy
    /\ pages' = [pages EXCEPT
          ![p].api = TRUE, ![p].wanted = Nothing,
          ![p].iframe = IF pages[p].wanted # Nothing THEN "building" ELSE @,
          ![p].asks = IF pages[p].wanted # Nothing
                      THEN <<Command(0, "load", pages[p].wanted)>> ELSE @]
    /\ UNCHANGED touches

\* YouTube follows the next instruction: a load plays, is blocked by the browser
\* or is an error, and readies an iframe that was being built.
YoutubeFollows(p) ==
    /\ PageOnly
    /\ pages[p].at = "live" /\ pages[p].asks # <<>> /\ ~ pages[p].busy
    /\ LET c == Head(pages[p].asks) IN
       \E s \in States, e \in BOOLEAN :
          /\ s \in CASE c.name = "load"  -> {"playing", "blocked", "idle"}
                     [] c.name = "play"  -> {"playing", "blocked"}
                     [] c.name = "pause" -> {"paused"}
          /\ e => c.name = "load" /\ s = "idle"
          /\ pages' = [pages EXCEPT
                ![p].asks = Tail(@), ![p].iframe = "ready",
                ![p].video = IF c.name = "load" THEN c.video ELSE @,
                ![p].state = s, ![p].error = @ \/ e]
    /\ UNCHANGED touches

\* A person clicks in the player.
Click(p) ==
    /\ PageOnly
    /\ touches < MaxTouches /\ touches' = touches + 1
    /\ pages[p].at = "live" /\ pages[p].iframe = "ready" /\ ~ pages[p].error
    /\ \E s \in {"playing", "paused"} : pages' = [pages EXCEPT ![p].state = s]

\* beat: read from the player, but for the video, which is what the page was told.  A report that
\* says nothing new is left out.
ReadState(page) ==
    IF page.iframe = "ready"
    THEN PlayerReport(page.named, page.state, page.error)
    ELSE PlayerReport(Nothing, IF page.state = "blocked" THEN "blocked" ELSE "idle", page.error)

Beat(p) ==
    /\ PageOnly
    /\ pages[p].at = "live" /\ pages[p].beat = Nothing /\ ~ pages[p].busy
    /\ Refused(p) \/ ~ seen \/ ReadState(pages[p]) # report
    /\ pages' = [pages EXCEPT ![p].beat = ReadState(pages[p])]
    /\ UNCHANGED touches
-----------------------------------------------------------------------------
PageActs(p) == \/ Register(p) \/ ReportArrives(p) \/ Collect(p) \/ AckArrives(p)
               \/ RunCommand(p) \/ ApiReady(p) \/ YoutubeFollows(p) \/ Beat(p)

PlayerNext ==
    \/ \E v \in Videos : Add(v) \/ BeginPlay(v) \/ BeginCold("load", v)
    \/ BeginCold("open", Nothing)
    \/ \E i \in 1 .. Len(items) : RemoveItem(i)
    \/ Clear
    \/ \E forward \in BOOLEAN : BeginSkip(forward)
    \/ \E kind \in {"play", "pause"} : BeginTransport(kind)
    \/ StopWaiting \/ Enqueue \/ Send \/ Acknowledged \/ NotAcknowledged
    \/ ConfirmVideo \/ RefuseError \/ Answer \/ NotObserved
    \/ Expire \/ GoStale
    \/ \E p \in Pages : \/ PageActs(p) \/ Click(p) \/ OpenAgain(p)
                        \/ \E arrives \in BOOLEAN : Close(p, arrives)

PlayerSpec == PlayerInit /\ [][PlayerNext]_playerVars

\* A page that is open keeps polling: each poll is re-armed when the one before
\* it was answered, and the channel answers it within POLL_WAIT_SECONDS.
FairPlayerSpec == PlayerSpec /\ \A p \in Pages : WF_playerVars(Collect(p)) /\ WF_playerVars(RunCommand(p))
-----------------------------------------------------------------------------
PlayerTypeOK ==
    /\ cursor \in 0 .. Len(items) /\ Len(items) <= Limit
    /\ \A i, j \in DOMAIN items : items[i].id = items[j].id => i = j
    /\ current \in Pages \cup {Nothing} /\ (seen => current # Nothing)
    /\ \A c, d \in pending : c.n = d.n => c = d
    /\ acknowledged <= sequence
    /\ shownAs \in VideoOrNone
    /\ \A p \in Pages : pages[p].last <= sequence /\ pages[p].state \in States

\* An acknowledgement counts for the command it is waited for with: whenever an
\* action has gone past it, some page ran that very command and, for a load,
\* names that video, however many pages registered, were superseded or
\* acknowledged late in between (channel.py, acknowledge; player.js, pollOnce).
AcknowledgedWasRun ==
    action.at \in {"identity", "error", "state"} =>
        \E p \in Pages : /\ pages[p].last = action.n
                         /\ action.kind = "load" => pages[p].named = action.item.video

\* The list, the channel and the pages agree, and so do their answers.
ChannelIsSound == PlayerTypeOK /\ AcknowledgedWasRun

\* The list is kept as the person built it: no step but a removal or a clearing
\* drops or reorders what is coming, not even a Play now on a full list; and a
\* removal leaves the cursor on the item it stood on, unless that is the one
\* removed (queue.py, "Bounds, and what happens at the bound").
Upcoming == SubSeq(items, cursor + 1, Len(items))
At(list, i) == IF i = 0 THEN <<>> ELSE <<list[i]>>

KeepsUpcoming ==
    IF Len(items') >= Len(items)
    THEN \/ IsPrefix(Upcoming, Upcoming')
         \/ Upcoming = At(items', cursor') \o Upcoming'
         \/ Upcoming' = At(items, cursor) \o Upcoming
    ELSE \/ items' = <<>>
         \/ At(items', cursor') = At(items, cursor)
         \/ items[cursor] \notin ToSet(items')

UpcomingIsKept == [][KeepsUpcoming]_playerVars

\* A page that was superseded stops: it does not go on collecting commands.
SupersededStops ==
    \A p \in Pages : (pages[p].at = "live" /\ p # current) ~>
                     (pages[p].at # "live" \/ p = current)

\* What is answered as playing is the video that was asked for, not another one
\* that is on the screen (_confirm_playing).
PlayingIsTrue ==
    [][Answer /\ action.kind = "load" => pages[current].video = action.item.video]_playerVars

\* The older page stops rather than competing (player.js, supersede).
OnePlays ==
    Cardinality({p \in Pages : pages[p].at # "closed" /\ pages[p].state = "playing"}) <= 1

\* A player in which nothing is loaded has no current video (snapshot).
NothingLoadedNothingShown ==
    Connected /\ pages[current].named = Nothing => shownAs = Nothing

\* The cursor is on the item that is loaded in the player (PlayQueue).
CursorIsLoaded ==
    action = Idle /\ Connected /\ shownAs # Nothing /\ cursor # 0 =>
        items[cursor].video = shownAs
=============================================================================
