--------------------------- MODULE SpotifyAccount ---------------------------
(***************************************************************************)
(* The user authorization of the Spotify player.                            *)
(*                                                                          *)
(* TokenStore keeps it twice, in a file and in an object that every request *)
(* shares and changes in place.  Requests run in a thread pool; reading the *)
(* playback holds the lock of the service, writing to it and disconnecting  *)
(* do not, and a renewal may happen inside either.  An authorization runs   *)
(* in a thread of its own, and its registry has a lock of its own.          *)
(*                                                                          *)
(* A request that Spotify answers otherwise than with success or 401 ends,  *)
(* whatever the reason, and so does one whose scopes fall short.  The name  *)
(* of the account, read once after an exchange, is left out.                *)
(***************************************************************************)
EXTENDS Naturals, FiniteSets, Sequences

CONSTANTS Calls,        \* the worker threads
          None,
          MaxRequests,  \* bound on requests made
          MaxTokens,    \* bound on refresh tokens Spotify issues
          MaxAttempts,  \* bound on authorizations asked for
          MaxFaults     \* bound on access tokens that end early, and on writes that fail

ASSUME SpotifyAccountAssumption ==
    /\ {MaxRequests, MaxTokens, MaxAttempts, MaxFaults} \subseteq Nat
    /\ None \notin Nat

VARIABLES file,      \* spotify_user_oauth.json: [grant, token], or None
          cached,    \* TokenStore._cached: an object, or None
          objects,   \* every UserTokens ever made: [grant, token, access]
          accepted,  \* Spotify: the refresh tokens it takes
          issued,
          lost,      \* history: tokens Spotify retired in an answer that never arrived
          lock,      \* SpotifyPlayerService._lock: who holds it
          call,      \* the requests
          attempt,   \* AttemptRegistry._attempt
          thread,    \* AuthorizationRunner._thread
          runner,    \* the thread of each attempt
          pending,   \* _pending_status
          asked,     \* requests and authorizations so far
          faults,
          past       \* history, for the properties

store == <<file, cached, objects>>
spotify == <<accepted, issued, lost>>
authorization == <<attempt, thread, runner, pending>>
bounds == <<asked, faults>>
vars == <<store, spotify, lock, call, authorization, bounds, past>>

Attempts == 1..MaxAttempts

Operations == {"read", "act", "disconnect", "start", "cancel"}

Idle == [op |-> None, at |-> "idle", phase |-> "after", obj |-> 0, left |-> 0,
         again |-> FALSE, answer |-> None, payload |-> None, then |-> "send", mine |-> 0]

Durable(o) == [grant |-> objects[o].grant, token |-> objects[o].token]

\* The daemon has just started, with or without an account.
Init == /\ file \in {None, [grant |-> 1, token |-> 1]}
        /\ cached = None
        /\ objects = <<>>
        /\ accepted = {1}
        /\ issued = 1
        /\ lost = {}
        /\ lock = None
        /\ call = [c \in Calls |-> Idle]
        /\ attempt = None
        /\ thread = None
        /\ runner = [a \in Attempts |-> [at |-> "none", obj |-> 0]]
        /\ pending = FALSE
        /\ asked = [requests |-> 0, attempts |-> 0]
        /\ faults = 0
        /\ past = [gone |-> FALSE, removed |-> FALSE, connected |-> None,
                   cancelled |-> {}, exchanged |-> {}, stuck |-> FALSE]

At(c, at) == call[c].at = at

Goto(c, at) == call' = [call EXCEPT ![c].at = at]

\* Leaving a with block releases the lock, however it is left.
Release(c) == lock' = IF lock = c THEN None ELSE lock

Finish(c) == /\ call' = [call EXCEPT ![c] = Idle]
             /\ Release(c)
-----------------------------------------------------------------------------
(* Requests *)

Begin(c, op) ==
    /\ At(c, "idle")
    /\ asked.requests < MaxRequests
    /\ op = "start" => asked.attempts < MaxAttempts
    /\ asked' = [requests |-> asked.requests + 1,
                 attempts |-> asked.attempts + IF op = "start" THEN 1 ELSE 0]
    /\ call' = [call EXCEPT ![c] =
                 [Idle EXCEPT !.op = op,
                              !.at = CASE op \in {"read", "act"} -> "enter"
                                       [] op = "disconnect"      -> "clear"
                                       [] op = "start"           -> "check"
                                       [] OTHER                  -> "cancel",
                              !.phase = IF op = "act" THEN "before" ELSE "after",
                              !.mine = IF op = "start" THEN asked.attempts + 1 ELSE 0]]
    /\ UNCHANGED <<store, spotify, lock, authorization, faults, past>>

\* snapshot(refresh=True).
Enter(c) == /\ At(c, "enter")
            /\ lock = None
            /\ lock' = c
            /\ Goto(c, "load")
            /\ UNCHANGED <<store, spotify, authorization, bounds, past>>

\* What a request does with the object it has: two reads, or one write.
Hold(c, o) == call' = [call EXCEPT ![c].obj = o, ![c].at = "api", ![c].again = FALSE,
                                   ![c].left = IF call[c].phase = "write" THEN 1 ELSE 2]

Load(c) ==
    /\ At(c, "load")
    /\ \/ /\ cached # None
          /\ Hold(c, cached)
          /\ UNCHANGED <<store, lock>>
       \/ /\ cached = None
          /\ file # None
          /\ objects' = Append(objects, [grant |-> file.grant, token |-> file.token,
                                         access |-> "none"])
          /\ cached' = Len(objects')
          /\ Hold(c, Len(objects'))
          /\ UNCHANGED <<file, lock>>
       \/ /\ cached = None
          /\ file = None
          /\ Finish(c)
          /\ UNCHANGED store
    /\ UNCHANGED <<spotify, authorization, bounds, past>>

Access(c) == objects[call[c].obj].access

Token(c) == objects[call[c].obj].token

\* Renewing rotates the refresh token or does not; a rotated one is retired at
\* once or is not; and what is retired is refused.
Rotate(c) ==
    /\ Token(c) \in accepted
    /\ issued < MaxTokens
    /\ issued' = issued + 1

Renew(c) ==
    /\ At(c, "api")
    /\ Access(c) = "none"
    /\ \/ Finish(c) /\ UNCHANGED spotify
       \/ /\ Token(c) \in accepted
          /\ call' = [call EXCEPT ![c].at = "granted", ![c].answer = None]
          /\ UNCHANGED <<spotify, lock>>
       \/ /\ Rotate(c)
          /\ \E retired \in {{}, {Token(c)}} : accepted' = (accepted \cup {issued'}) \ retired
          /\ call' = [call EXCEPT ![c].at = "granted", ![c].answer = issued']
          /\ UNCHANGED <<lost, lock>>
       \* The answer comes too late, or cannot be read.
       \/ /\ Rotate(c)
          /\ accepted' = (accepted \cup {issued'}) \ {Token(c)}
          /\ lost' = lost \cup {Token(c)}
          /\ Finish(c)
    /\ UNCHANGED <<store, authorization, bounds, past>>

\* apply_refresh: an answer without a refresh token keeps the one that is held.
Renewed(token, answer) == IF answer = None THEN token ELSE answer

Apply(c) == /\ At(c, "granted")
            /\ objects' = [objects EXCEPT ![call[c].obj].access = "good",
                                          ![call[c].obj].token = Renewed(@, call[c].answer)]
            /\ call' = [call EXCEPT ![c].at = "persist", ![c].then = "send"]
            /\ UNCHANGED <<file, cached, spotify, lock, authorization, bounds, past>>

\* Where a request goes on once the store has what it has: to what it renewed
\* its access for, or out of the snapshot, a write from the one before it.
Proceed(c) ==
    \/ /\ call[c].then = "send"
       /\ Goto(c, "send")
       /\ UNCHANGED lock
    \/ /\ call[c].then = "leave"
       /\ call[c].phase = "before"
       /\ call' = [call EXCEPT ![c].at = "load", ![c].phase = "write"]
       /\ Release(c)
    \/ /\ call[c].then = "leave"
       /\ call[c].phase # "before"
       /\ Finish(c)

\* persist_if_changed reads the file; save has its payload before it has a file.
Persist(c) ==
    /\ At(c, "persist")
    /\ IF file = Durable(call[c].obj)
       THEN Proceed(c)
       ELSE /\ call' = [call EXCEPT ![c].at = "replace",
                                    ![c].payload = Durable(call[c].obj)]
            /\ UNCHANGED lock
    /\ UNCHANGED <<store, spotify, authorization, bounds, past>>

Replace(c) == /\ At(c, "replace")
              /\ file' = call[c].payload
              /\ Goto(c, "remember")
              /\ UNCHANGED <<cached, objects, spotify, lock, authorization, bounds, past>>

ReplaceFails(c) == /\ At(c, "replace")
                   /\ faults < MaxFaults
                   /\ faults' = faults + 1
                   /\ Finish(c)
                   /\ UNCHANGED <<store, spotify, authorization, asked, past>>

Remember(c) == /\ At(c, "remember")
               /\ cached' = call[c].obj
               /\ Proceed(c)
               /\ UNCHANGED <<file, objects, spotify, authorization, bounds, past>>

\* After the first read comes the second, after a write the snapshot that
\* observes it, and after a snapshot what it learnt is persisted.
Answered(c) ==
    \/ /\ call[c].left > 1
       /\ call' = [call EXCEPT ![c].left = 1, ![c].again = FALSE, ![c].at = "api"]
    \/ /\ call[c].left <= 1
       /\ call[c].phase = "write"
       /\ call' = [call EXCEPT ![c].at = "enter", ![c].phase = "after"]
    \/ /\ call[c].left <= 1
       /\ call[c].phase # "write"
       /\ call' = [call EXCEPT ![c].at = "persist", ![c].then = "leave"]

Send(c) ==
    /\ At(c, "send") \/ (At(c, "api") /\ Access(c) # "none")
    /\ \/ Finish(c)
       \/ /\ Access(c) = "good"
          /\ Answered(c)
          /\ UNCHANGED lock
       \/ /\ Access(c) # "good"
          /\ ~ call[c].again
          /\ Goto(c, "denied")
          /\ UNCHANGED lock
    /\ UNCHANGED <<store, spotify, authorization, bounds, past>>

\* A 401 drops the access token the object has now.
Denied(c) == /\ At(c, "denied")
             /\ objects' = [objects EXCEPT ![call[c].obj].access = "none"]
             /\ call' = [call EXCEPT ![c].at = "api", ![c].again = TRUE]
             /\ UNCHANGED <<file, cached, spotify, lock, authorization, bounds, past>>

\* Nobody else is between a load and the end of what it does with it.
Alone(c) == /\ \A d \in Calls \ {c} :
                   call[d].at \notin {"api", "send", "granted", "persist", "replace",
                                      "remember", "denied"}
            /\ \A a \in Attempts : runner[a].at # "remember"

\* Mutant: the file goes, the object that was read from it stays.
ClearMutant(c) == /\ At(c, "clear")
                  /\ file' = None
                  /\ past' = [past EXCEPT !.gone = Alone(c),
                                          !.removed = @ \/ file # None,
                                          !.connected = None]
                  /\ Goto(c, "enter")
                  /\ UNCHANGED <<cached, objects, spotify, lock, authorization, bounds>>

\* disconnect, whose clear holds the lock of the store.
Clear(c) == /\ At(c, "clear")
            /\ file' = None
            /\ cached' = None
            /\ past' = [past EXCEPT !.gone = Alone(c),
                                    !.removed = @ \/ file # None,
                                    !.connected = None]
            /\ Goto(c, "enter")
            /\ UNCHANGED <<objects, spotify, lock, authorization, bounds>>

\* start: a look at the thread of the last one, under a lock it then gives up.
Check(c) == /\ At(c, "check")
            /\ IF thread # None /\ runner[thread].at # "ended"
               THEN /\ Finish(c)
                    /\ past' = [past EXCEPT !.stuck = @ \/ thread \in past.cancelled]
               ELSE Goto(c, "register") /\ UNCHANGED <<lock, past>>
            /\ UNCHANGED <<store, spotify, authorization, bounds>>

Register(c) == /\ At(c, "register")
               /\ attempt' = call[c].mine
               /\ Goto(c, "pend")
               /\ UNCHANGED <<store, spotify, lock, thread, runner, pending, bounds, past>>

SetPending(c) == /\ At(c, "pend")
                 /\ lock = None
                 /\ pending' = TRUE
                 /\ Goto(c, "launch")
                 /\ UNCHANGED <<store, spotify, lock, attempt, thread, runner, bounds, past>>

Launch(c) == /\ At(c, "launch")
             /\ thread' = call[c].mine
             /\ runner' = [runner EXCEPT ![call[c].mine].at = "bind"]
             /\ Finish(c)
             /\ UNCHANGED <<store, spotify, attempt, pending, bounds, past>>

Cancel(c) == /\ At(c, "cancel")
             /\ attempt' = None
             /\ past' = [past EXCEPT !.cancelled = @ \cup ({attempt} \ {None})]
             /\ Goto(c, "unpend")
             /\ UNCHANGED <<store, spotify, lock, thread, runner, pending, bounds>>

ClearPending(c) == /\ At(c, "unpend")
                   /\ lock = None
                   /\ pending' = FALSE
                   /\ Finish(c)
                   /\ UNCHANGED <<store, spotify, attempt, thread, runner, bounds, past>>
-----------------------------------------------------------------------------
(* The thread of an authorization *)

RunnerAt(a, at) == runner[a].at = at

RunnerGoes(a, at) == runner' = [runner EXCEPT ![a].at = at]

\* One listener has the port; a second bind fails.  The browser opens after it.
Bind(a) == /\ RunnerAt(a, "bind")
           /\ RunnerGoes(a, IF \E b \in Attempts : RunnerAt(b, "listen")
                            THEN "failed" ELSE "listen")
           /\ UNCHANGED <<store, spotify, lock, call, attempt, thread, pending, bounds, past>>

\* The redirect of this attempt; any other is shown a failure page.
Callback(a) == /\ RunnerAt(a, "listen")
               /\ RunnerGoes(a, "consume")
               /\ UNCHANGED <<store, spotify, lock, call, attempt, thread, pending, bounds, past>>

\* The wait lasts as long as the attempt would.
TimeOut(a) == /\ RunnerAt(a, "listen")
              /\ RunnerGoes(a, "failed")
              /\ attempt' = IF attempt = a THEN None ELSE attempt
              /\ UNCHANGED <<store, spotify, lock, call, thread, pending, bounds, past>>

\* consume: the registry gives the attempt up once, and only to its own state.
Matches(a) == attempt = a

Consume(a) == /\ RunnerAt(a, "consume")
              /\ IF Matches(a)
                 THEN /\ attempt' = None
                      /\ \/ RunnerGoes(a, "exchange")
                         \/ RunnerGoes(a, "failed")  \* expired since
                 ELSE RunnerGoes(a, "failed") /\ UNCHANGED attempt
              /\ UNCHANGED <<store, spotify, lock, call, thread, pending, bounds, past>>

Exchange(a) ==
    /\ RunnerAt(a, "exchange")
    /\ past' = [past EXCEPT !.exchanged = @ \cup {a}]
    /\ \/ RunnerGoes(a, "failed") /\ UNCHANGED <<spotify, objects>>
       \/ /\ issued < MaxTokens
          /\ issued' = issued + 1
          /\ accepted' = accepted \cup {issued'}
          /\ objects' = Append(objects, [grant |-> issued', token |-> issued',
                                         access |-> "good"])
          /\ runner' = [runner EXCEPT ![a] = [at |-> "save", obj |-> Len(objects')]]
    /\ UNCHANGED <<file, cached, lost, lock, call, attempt, thread, pending, bounds>>

Save(a) == /\ RunnerAt(a, "save")
           /\ \/ /\ file' = Durable(runner[a].obj)
                 /\ RunnerGoes(a, "remember")
                 /\ past' = [past EXCEPT !.gone = FALSE, !.removed = FALSE,
                                         !.connected = objects[runner[a].obj].grant]
                 /\ UNCHANGED faults
              \/ /\ faults < MaxFaults
                 /\ faults' = faults + 1
                 /\ RunnerGoes(a, "failed")
                 /\ UNCHANGED <<file, past>>
           /\ UNCHANGED <<cached, objects, spotify, lock, call, attempt, thread, pending, asked>>

RememberNew(a) == /\ RunnerAt(a, "remember")
                  /\ cached' = runner[a].obj
                  /\ RunnerGoes(a, "connected")
                  /\ UNCHANGED <<file, objects, spotify, lock, call, attempt, thread, pending,
                                 bounds, past>>

\* Mutant: only an authorization that connected leaves the pending state.
ConcludeMutant(a) ==
    /\ runner[a].at \in {"failed", "connected"}
    /\ lock = None
    /\ pending' = IF RunnerAt(a, "connected") THEN FALSE ELSE pending
    /\ RunnerGoes(a, "ended")
    /\ UNCHANGED <<store, spotify, lock, call, attempt, thread, bounds, past>>

\* _finish, and the finally of _run, which needs the lock of the service.
Conclude(a) ==
    /\ runner[a].at \in {"failed", "connected"}
    /\ lock = None
    /\ pending' = FALSE
    /\ RunnerGoes(a, "ended")
    /\ UNCHANGED <<store, spotify, lock, call, attempt, thread, bounds, past>>
-----------------------------------------------------------------------------
\* An access token expires, or Spotify drops it before its time.
Wear(o) == /\ objects[o].access = "good"
           /\ faults < MaxFaults
           /\ faults' = faults + 1
           /\ \E access \in {"none", "stale"} :
                  objects' = [objects EXCEPT ![o].access = access]
           /\ UNCHANGED <<file, cached, spotify, lock, call, authorization, asked, past>>

CallStep(c) == \/ Enter(c) \/ Load(c) \/ Renew(c) \/ Apply(c) \/ Persist(c) \/ Replace(c)
               \/ Remember(c) \/ Send(c) \/ Denied(c) \/ Clear(c) \/ Check(c) \/ Register(c)
               \/ SetPending(c) \/ Launch(c) \/ Cancel(c) \/ ClearPending(c)

RunnerStep(a) == \/ Bind(a) \/ TimeOut(a) \/ Consume(a) \/ Exchange(a) \/ Save(a)
                 \/ RememberNew(a) \/ Conclude(a)

Next == \/ \E c \in Calls, op \in Operations : Begin(c, op)
        \/ \E c \in Calls : CallStep(c) \/ ReplaceFails(c)
        \/ \E a \in Attempts : RunnerStep(a) \/ Callback(a)
        \/ \E o \in DOMAIN objects : Wear(o)

Spec == Init /\ [][Next]_vars

\* Threads run, and Spotify answers or the transport times out.  The requests
\* are bounded, so that a lock is in the end free for whoever still waits.
FairSpec == /\ Spec
            /\ \A c \in Calls : WF_vars(CallStep(c))
            /\ \A a \in Attempts : WF_vars(RunnerStep(a))
-----------------------------------------------------------------------------
TypeOK ==
    /\ file \in {None} \cup [grant : 1..issued, token : 1..issued]
    /\ cached \in {None} \cup DOMAIN objects
    /\ \A o \in DOMAIN objects : /\ objects[o].token \in 1..issued
                                 /\ objects[o].access \in {"none", "good", "stale"}
    /\ accepted \subseteq 1..issued /\ lost \subseteq 1..issued
    /\ issued \in 1..(MaxTokens + 1)
    /\ lock \in {None} \cup Calls
    /\ attempt \in {None} \cup Attempts
    /\ thread \in {None} \cup Attempts
    /\ pending \in BOOLEAN

\* An account disconnected while nobody was at work with it stays disconnected
\* until somebody authorizes again: no later request finds it in the file, in
\* memory, or puts it back (TokenStore.clear against load and persist_if_changed).
DisconnectStays == past.gone => file = None

\* Renewals that overlap never leave the daemon without a refresh token that
\* Spotify takes: the one in memory works, or its successor is on its way to it.
\* One thing alone takes it away: an answer that never arrived to a renewal in
\* which Spotify retired this very token.  Said of a grant with one object, for a
\* second is renewed on its own (the rotation rule of apply_refresh, and the object
\* all requests share).
LiveTokenIsHeld ==
    \A o \in {cached} \ {None} :
        Cardinality({p \in DOMAIN objects : objects[p].grant = objects[o].grant}) = 1 =>
            \/ objects[o].token \in accepted \cup lost
            \/ \E c \in Calls : /\ At(c, "granted")
                                /\ call[c].obj = o
                                /\ call[c].answer \in accepted

\* An attempt that was cancelled never exchanges its code, at whatever point of
\* its thread, or of the start of another attempt, the cancel fell
\* (AttemptRegistry: consume, cancel and start).
CancelledNeverConnects == past.cancelled \cap past.exchanged = {}

\* What was given up, an account or an attempt, stays given up, and what was
\* not keeps working.
AuthorizationIsSound ==
    TypeOK /\ DisconnectStays /\ LiveTokenIsHeld /\ CancelledNeverConnects

\* No start, cancel, refusal, time-out or failed bind leaves the phone waiting
\* for an authorization nobody runs, and no request waits for ever for the lock
\* (the finally of _run, set_pending and the lock of the service).
AttemptEnds == /\ pending ~> ~ pending
               /\ \A c \in Calls : ~ At(c, "idle") ~> At(c, "idle")
-----------------------------------------------------------------------------
\* What the code says of itself and does not do; see the findings.

Quiet == /\ \A c \in Calls : At(c, "idle")
         /\ \A a \in Attempts : runner[a].at \in {"none", "listen", "ended"}

\* A disconnect that answered "disconnected" left no authorization here.
RemovedIsGone == Quiet /\ past.removed => file = None

\* An account that was stored, and said to be connected, is the one in the store.
ConnectedIsStored ==
    Quiet /\ past.connected # None => file # None /\ file.grant = past.connected

\* The stored refresh token is one Spotify takes, but for an answer that was lost.
StoredIsLive == Quiet /\ file # None => file.token \in accepted \cup lost

\* An attempt that was cancelled does not stand in the way of another.
CancelMakesRoom == ~ past.stuck
=============================================================================
