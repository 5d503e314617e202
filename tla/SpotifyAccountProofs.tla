------------------------ MODULE SpotifyAccountProofs ------------------------
(***************************************************************************)
(* The inductive invariant of the Spotify account and its theorems, for any *)
(* threads, requests, tokens, attempts and faults.                          *)
(***************************************************************************)
EXTENDS SpotifyAccount, FiniteSetTheorems, TLAPS

Tokens == 1 .. issued
Accesses == {"none", "good", "stale"}

\* Where a request has an object in its hands, and where a start is on its way.
Holding == {"api", "send", "granted", "persist", "replace", "remember", "denied"}
Starting == {"check", "register", "pend", "launch"}
Points == Holding \cup Starting \cup {"idle", "enter", "load", "clear", "cancel", "unpend"}

CallRecords ==
    [op: Operations \cup {None},
     at: Points,
     phase: {"before", "write", "after"}, obj: Nat, left: 0 .. 2, again: BOOLEAN,
     answer: Nat \cup {None}, payload: [grant: Nat, token: Nat] \cup {None},
     then: {"send", "leave"}, mine: Nat]
Stages == {"none", "bind", "listen", "consume", "exchange", "save", "remember", "failed",
           "connected", "ended"}
RunnerRecords == [at: Stages, obj: Nat]

Histories ==
    [gone: BOOLEAN, removed: BOOLEAN, connected: Nat \cup {None},
     cancelled: SUBSET Attempts, exchanged: SUBSET Attempts, stuck: BOOLEAN]

Typed ==
    /\ TypeOK
    /\ objects \in Seq([grant: Nat, token: Nat, access: Accesses])
    /\ \A o \in DOMAIN objects : objects[o].grant \in Tokens
    /\ call \in [Calls -> CallRecords]
    /\ runner \in [Attempts -> RunnerRecords]
    /\ asked.attempts \in 0 .. MaxAttempts /\ asked.requests \in Nat
    /\ DOMAIN asked = {"requests", "attempts"}
    /\ faults \in Nat
    /\ past \in Histories

\* What a thread holds is an object there is; what it is about to write was read
\* from that object.
HeldOK ==
    /\ \A c \in Calls :
        /\ call[c].at \in Holding => call[c].obj \in DOMAIN objects
        /\ At(c, "replace") => /\ call[c].payload \in [grant: Tokens, token: Tokens]
                               /\ call[c].payload.grant = objects[call[c].obj].grant
    /\ \A a \in Attempts :
        runner[a].at \in {"save", "remember"} => runner[a].obj \in DOMAIN objects

\* An account that was given up is nowhere: not in the file, not in memory, and
\* nobody is at work with it.
GoneOK ==
    past.gone => /\ file = None /\ cached = None
                 /\ \A c \in Calls : call[c].at \notin Holding
                 /\ \A a \in Attempts : runner[a].at # "remember"

\* The refresh tokens written somewhere here, each with the grant it belongs to.
Pairs == {Durable(o) : o \in DOMAIN objects}
         \cup {call[c].payload : c \in {d \in Calls : At(d, "replace")}}
         \cup ({file} \ {None})

\* A token belongs to one grant.
GrantsOK == \A x, y \in Pairs : x.token = y.token => x.grant = y.grant

\* A token Spotify has just issued is good, and nobody but the thread it was
\* given to knows it.
Carries(c) == At(c, "granted") /\ call[c].answer # None
AnswersOK ==
    \A c \in Calls : Carries(c) =>
        /\ call[c].answer \in accepted
        /\ \A x \in Pairs : x.token # call[c].answer
        /\ \A d \in Calls \ {c} : Carries(d) => call[d].answer # call[c].answer

\* The only object of a grant has a token that works, or one is on its way to it,
\* or its successor was lost; so has the file while no object was made from it.
Taken == accepted \cup lost
Sole(o) == \A p \in DOMAIN objects : objects[p].grant = objects[o].grant => p = o
Live(o) == \/ objects[o].token \in Taken
           \/ \E c \in Calls : Carries(c) /\ call[c].obj = o
LiveOK ==
    /\ \A o \in DOMAIN objects : Sole(o) => Live(o)
    /\ file # None /\ (\A o \in DOMAIN objects : objects[o].grant # file.grant) =>
          file.token \in Taken

\* Every start has an attempt of its own, whose thread is not launched yet.
StartsOK ==
    \A c \in Calls : call[c].at \in Starting =>
        /\ call[c].mine \in 1 .. asked.attempts /\ runner[call[c].mine].at = "none"
        /\ call[c].at \in {"check", "register"} =>
              attempt # call[c].mine /\ call[c].mine \notin past.cancelled
        /\ \A d \in Calls \ {c} : call[d].at \in Starting => call[d].mine # call[c].mine

\* The attempt the registry holds was neither cancelled nor consumed; what is
\* cancelled is never consumed.
AttemptsOK ==
    /\ attempt # None => /\ attempt \in 1 .. asked.attempts
                         /\ attempt \notin past.cancelled \cup past.exchanged
                         /\ runner[attempt].at # "exchange"
    /\ past.cancelled \subseteq 1 .. asked.attempts
    /\ \A a \in Attempts :
        /\ runner[a].at # "none" => a \in 1 .. asked.attempts
        /\ runner[a].at = "exchange" => a \notin past.cancelled
        /\ a \in past.exchanged =>
              /\ a \notin past.cancelled
              /\ runner[a].at \in {"save", "remember", "failed", "connected", "ended"}

AccountInv ==
    /\ Typed /\ HeldOK /\ GoneOK /\ GrantsOK /\ AnswersOK /\ LiveOK /\ StartsOK /\ AttemptsOK
-----------------------------------------------------------------------------
(* What is read everywhere.                                                 *)

\* A sequence yields what it holds.
LEMMA Element ==
    ASSUME NEW S, NEW s \in Seq(S), NEW i \in 1 .. Len(s)
    PROVE  s[i] \in S
OBVIOUS

LEMMA Updated ==
    ASSUME NEW S, NEW s \in Seq(S), NEW i \in 1 .. Len(s), NEW e \in S, NEW t,
           t = [s EXCEPT ![i] = e]
    PROVE  /\ t \in Seq(S) /\ DOMAIN t = DOMAIN s /\ t[i] = e
           /\ \A j \in DOMAIN s \ {i} : t[j] = s[j]
OBVIOUS

\* The fields of an object, of a request and of a runner.
LEMMA Fields ==
    ASSUME Typed
    PROVE  /\ issued \in Nat /\ accepted \subseteq Tokens
           /\ DOMAIN objects = 1 .. Len(objects) /\ Len(objects) \in Nat
           /\ \A o \in DOMAIN objects :
                /\ objects[o].grant \in Tokens /\ objects[o].token \in Tokens
                /\ objects[o].access \in Accesses
                /\ objects[o] = [grant |-> objects[o].grant, token |-> objects[o].token,
                                 access |-> objects[o].access]
                /\ Durable(o) \in [grant: Tokens, token: Tokens]
           /\ \A c \in Calls : call[c] \in CallRecords
           /\ \A a \in Attempts : runner[a] \in RunnerRecords
           /\ None \notin Nat
           /\ file # None => file \in [grant: Tokens, token: Tokens]
<1>1. issued \in Nat /\ accepted \subseteq Tokens /\ None \notin Nat
  BY SpotifyAccountAssumption DEF Typed, TypeOK, Tokens
<1>2. DOMAIN objects = 1 .. Len(objects) /\ Len(objects) \in Nat BY DEF Typed
<1>3. ASSUME NEW o \in DOMAIN objects
      PROVE  /\ objects[o].grant \in Tokens /\ objects[o].token \in Tokens
             /\ objects[o].access \in Accesses
             /\ objects[o] = [grant |-> objects[o].grant, token |-> objects[o].token,
                              access |-> objects[o].access]
             /\ Durable(o) \in [grant: Tokens, token: Tokens]
  <2>1. objects \in Seq([grant: Nat, token: Nat, access: Accesses]) BY DEF Typed
  <2>2. objects[o] \in [grant: Nat, token: Nat, access: Accesses] BY <1>2, <2>1, Element
  <2> QED BY <2>2 DEF Typed, TypeOK, Tokens, Durable
<1>4. file # None => file \in [grant: Tokens, token: Tokens] BY DEF Typed, TypeOK, Tokens
<1> QED BY <1>1, <1>2, <1>3, <1>4 DEF Typed

\* A step of one request changes that request and no other.
OneCall(c) == /\ call' \in [Calls -> CallRecords]
              /\ \A d \in Calls \ {c} : call'[d] = call[d]

LEMMA CallUpdated ==
    ASSUME Typed, NEW c \in Calls, NEW r \in CallRecords, call' = [call EXCEPT ![c] = r]
    PROVE  OneCall(c) /\ call'[c] = r
BY DEF Typed, OneCall

\* What changes in a request, with values of the type of the field.
LEMMA ChangedBegin ==
    ASSUME NEW r \in CallRecords, NEW at \in Points, NEW op \in Operations,
           NEW p \in {"before", "write", "after"}, NEW n \in Nat
    PROVE  [r EXCEPT !.op = op, !.at = at, !.phase = p, !.mine = n] \in CallRecords
BY DEF CallRecords

LEMMA ChangedObject ==
    ASSUME NEW r \in CallRecords, NEW at \in Points, NEW o \in Nat, NEW n \in 0 .. 2, NEW b \in BOOLEAN
    PROVE  [r EXCEPT !.obj = o, !.at = at, !.again = b, !.left = n] \in CallRecords
BY DEF CallRecords

LEMMA ChangedLeft ==
    ASSUME NEW r \in CallRecords, NEW at \in Points, NEW n \in 0 .. 2, NEW b \in BOOLEAN
    PROVE  [r EXCEPT !.left = n, !.again = b, !.at = at] \in CallRecords
BY DEF CallRecords

LEMMA ChangedPhase ==
    ASSUME NEW r \in CallRecords, NEW at \in Points, NEW p \in {"before", "write", "after"}
    PROVE  [r EXCEPT !.at = at, !.phase = p] \in CallRecords
BY DEF CallRecords

LEMMA ChangedThen ==
    ASSUME NEW r \in CallRecords, NEW at \in Points, NEW w \in {"send", "leave"}
    PROVE  [r EXCEPT !.at = at, !.then = w] \in CallRecords
BY DEF CallRecords

LEMMA ChangedAnswer ==
    ASSUME NEW r \in CallRecords, NEW at \in Points, NEW y \in Nat \cup {None}
    PROVE  [r EXCEPT !.at = at, !.answer = y] \in CallRecords
BY DEF CallRecords

LEMMA ChangedPayload ==
    ASSUME NEW r \in CallRecords, NEW at \in Points, NEW d \in [grant: Nat, token: Nat]
    PROVE  [r EXCEPT !.at = at, !.payload = d] \in CallRecords
BY DEF CallRecords

LEMMA ChangedAgain ==
    ASSUME NEW r \in CallRecords, NEW at \in Points, NEW b \in BOOLEAN
    PROVE  [r EXCEPT !.at = at, !.again = b] \in CallRecords
BY DEF CallRecords

LEMMA Went ==
    ASSUME Typed, NEW c \in Calls, NEW at \in Points, Goto(c, at)
    PROVE  OneCall(c) /\ call'[c] = [call[c] EXCEPT !.at = at]
<1>1. call[c] \in CallRecords BY Fields
<1>2. [call[c] EXCEPT !.at = at] \in CallRecords BY <1>1 DEF CallRecords
<1>3. call' = [call EXCEPT ![c] = [call[c] EXCEPT !.at = at]] BY DEF Goto
<1> QED BY <1>2, <1>3, CallUpdated

LEMMA Finished ==
    ASSUME Typed, NEW c \in Calls, Finish(c)
    PROVE  OneCall(c) /\ call'[c] = Idle /\ lock' \in {None} \cup Calls
<1>1. Idle \in CallRecords BY DEF Idle, CallRecords, Operations, Points
<1>2. lock' \in {None} \cup Calls BY DEF Finish, Release, Typed, TypeOK
<1> QED BY <1>1, <1>2, CallUpdated DEF Finish

LEMMA Held ==
    ASSUME Typed, NEW c \in Calls, NEW o \in Nat, Hold(c, o)
    PROVE  OneCall(c) /\ call'[c].at = "api" /\ call'[c].obj = o
<1>1. call[c] \in CallRecords BY Fields
<1> DEFINE n == IF call[c].phase = "write" THEN 1 ELSE 2
           r == [call[c] EXCEPT !.obj = o, !.at = "api", !.again = FALSE, !.left = n]
<1>2. n \in 0 .. 2 /\ "api" \in Points BY DEF Points, Holding
<1>3. r \in CallRecords
  <2> HIDE DEF n
  <2> QED BY <1>1, <1>2, ChangedObject
<1>4. r.at = "api" /\ r.obj = o BY <1>1 DEF CallRecords
<1>5. call' = [call EXCEPT ![c] = r] BY DEF Hold
<1> HIDE DEF r
<1> QED BY <1>3, <1>4, <1>5, CallUpdated

\* Where a request is after it has proceeded, or was answered.
LEMMA Proceeded ==
    ASSUME Typed, NEW c \in Calls, Proceed(c)
    PROVE  /\ OneCall(c) /\ lock' \in {None} \cup Calls
           /\ call'[c].at \in {"send", "load", "idle"}
           /\ call'[c].at = "send" => call'[c].obj = call[c].obj
<1>0. call[c] \in CallRecords /\ lock \in {None} \cup Calls BY Fields DEF Typed, TypeOK
<1>1. CASE Goto(c, "send") /\ UNCHANGED lock
  <2>1. "send" \in Points BY DEF Points, Holding
  <2>2. OneCall(c) /\ call'[c] = [call[c] EXCEPT !.at = "send"] BY <1>1, <2>1, Went
  <2> QED BY <1>0, <1>1, <2>2 DEF CallRecords
<1>2. CASE call' = [call EXCEPT ![c].at = "load", ![c].phase = "write"] /\ Release(c)
  <2> DEFINE r == [call[c] EXCEPT !.at = "load", !.phase = "write"]
  <2>1. "load" \in Points BY DEF Points
  <2>2. r \in CallRecords BY <1>0, <2>1, ChangedPhase
  <2>3. r.at = "load" BY <1>0 DEF CallRecords
  <2>4. call' = [call EXCEPT ![c] = r] BY <1>2
  <2> HIDE DEF r
  <2>5. OneCall(c) /\ call'[c] = r BY <2>2, <2>4, CallUpdated
  <2> QED BY <1>0, <1>2, <2>3, <2>5 DEF Release
<1>3. CASE Finish(c) BY <1>3, Finished DEF Idle
<1> QED BY <1>1, <1>2, <1>3 DEF Proceed

LEMMA GotAnswer ==
    ASSUME Typed, NEW c \in Calls, Answered(c)
    PROVE  /\ OneCall(c)
           /\ call'[c].at \in {"api", "enter", "persist"} /\ call'[c].obj = call[c].obj
<1>0. call[c] \in CallRecords BY Fields
<1>1. CASE call' = [call EXCEPT ![c].left = 1, ![c].again = FALSE, ![c].at = "api"]
  <2> DEFINE r == [call[c] EXCEPT !.left = 1, !.again = FALSE, !.at = "api"]
  <2>1. "api" \in Points /\ 1 \in 0 .. 2 BY DEF Points, Holding
  <2>2. r \in CallRecords BY <1>0, <2>1, ChangedLeft
  <2>3. r.at = "api" /\ r.obj = call[c].obj BY <1>0 DEF CallRecords
  <2>4. call' = [call EXCEPT ![c] = r] BY <1>1
  <2> HIDE DEF r
  <2> QED BY <2>2, <2>3, <2>4, CallUpdated
<1>2. CASE call' = [call EXCEPT ![c].at = "enter", ![c].phase = "after"]
  <2> DEFINE r == [call[c] EXCEPT !.at = "enter", !.phase = "after"]
  <2>1. "enter" \in Points BY DEF Points
  <2>2. r \in CallRecords BY <1>0, <2>1, ChangedPhase
  <2>3. r.at = "enter" /\ r.obj = call[c].obj BY <1>0 DEF CallRecords
  <2>4. call' = [call EXCEPT ![c] = r] BY <1>2
  <2> HIDE DEF r
  <2> QED BY <2>2, <2>3, <2>4, CallUpdated
<1>3. CASE call' = [call EXCEPT ![c].at = "persist", ![c].then = "leave"]
  <2> DEFINE r == [call[c] EXCEPT !.at = "persist", !.then = "leave"]
  <2>1. "persist" \in Points BY DEF Points, Holding
  <2>2. r \in CallRecords BY <1>0, <2>1, ChangedThen
  <2>3. r.at = "persist" /\ r.obj = call[c].obj BY <1>0 DEF CallRecords
  <2>4. call' = [call EXCEPT ![c] = r] BY <1>3
  <2> HIDE DEF r
  <2> QED BY <2>2, <2>3, <2>4, CallUpdated
<1> QED BY <1>1, <1>2, <1>3 DEF Answered

\* A thread of an authorization that goes somewhere changes no other.
LEMMA RunnerWent ==
    ASSUME Typed, NEW a \in Attempts,
           NEW at \in Stages,
           RunnerGoes(a, at)
    PROVE  /\ runner' \in [Attempts -> RunnerRecords]
           /\ runner'[a] = [runner[a] EXCEPT !.at = at]
           /\ \A b \in Attempts \ {a} : runner'[b] = runner[b]
<1>1. [runner[a] EXCEPT !.at = at] \in RunnerRecords BY Fields DEF RunnerRecords
<1> QED BY <1>1 DEF RunnerGoes, Typed
-----------------------------------------------------------------------------
(* What each step of a request does to the request.                         *)

LEMMA PointsAre ==
    Points = {"api", "send", "granted", "persist", "replace", "remember", "denied",
              "check", "register", "pend", "launch",
              "idle", "enter", "load", "clear", "cancel", "unpend"}
BY DEF Points, Holding, Starting

LEMMA BeginMoves ==
    ASSUME Typed, NEW c \in Calls, NEW op \in Operations, Begin(c, op)
    PROVE  /\ OneCall(c) /\ At(c, "idle")
           /\ call'[c].at \in {"enter", "clear", "check", "cancel"}
           /\ call'[c].at = "check" => /\ asked.attempts < MaxAttempts
                                       /\ call'[c].mine = asked.attempts + 1
                                       /\ asked'.attempts = asked.attempts + 1
           /\ asked'.attempts \in asked.attempts .. MaxAttempts
           /\ asked'.requests \in Nat /\ DOMAIN asked' = {"requests", "attempts"}
<1> DEFINE at == CASE op \in {"read", "act"} -> "enter"
                   [] op = "disconnect"      -> "clear"
                   [] op = "start"           -> "check"
                   [] OTHER                  -> "cancel"
           ph == IF op = "act" THEN "before" ELSE "after"
           mi == IF op = "start" THEN asked.attempts + 1 ELSE 0
           r == [Idle EXCEPT !.op = op, !.at = at, !.phase = ph, !.mine = mi]
<1>0. asked.attempts \in 0 .. MaxAttempts /\ MaxAttempts \in Nat /\ asked.requests \in Nat
  BY SpotifyAccountAssumption DEF Typed
<1>1. at \in {"enter", "clear", "check", "cancel"} /\ (at = "check" <=> op = "start")
  BY DEF Operations
<1>2. ph \in {"before", "after"} /\ mi \in Nat /\ at \in Points BY <1>0, <1>1, PointsAre
<1>3. call' = [call EXCEPT ![c] = r] BY DEF Begin
<1>4. op = "start" => mi = asked.attempts + 1 OBVIOUS
<1>5. r \in CallRecords /\ r.at = at /\ r.mine = mi
  <2> HIDE DEF at, ph, mi
  <2>1. Idle \in CallRecords BY PointsAre DEF Idle, CallRecords
  <2>2. r \in CallRecords BY <1>2, <2>1, ChangedBegin
  <2>3. r.at = at /\ r.mine = mi BY <2>1 DEF CallRecords
  <2> QED BY <2>2, <2>3
<1>6. OneCall(c) /\ call'[c] = r
  <2> HIDE DEF r
  <2> QED BY <1>3, <1>5, CallUpdated
<1>7. /\ asked'.attempts = asked.attempts + (IF op = "start" THEN 1 ELSE 0)
      /\ asked'.requests = asked.requests + 1 /\ DOMAIN asked' = {"requests", "attempts"}
      /\ op = "start" => asked.attempts < MaxAttempts
  BY DEF Begin
<1> HIDE DEF at, mi, r
<1> QED BY <1>0, <1>1, <1>4, <1>5, <1>6, <1>7 DEF Begin

LEMMA LoadMoves ==
    ASSUME Typed, NEW c \in Calls, Load(c)
    PROVE  /\ OneCall(c) /\ At(c, "load") /\ lock' \in {None} \cup Calls
           /\ \/ /\ cached # None /\ UNCHANGED store
                 /\ call'[c].at = "api" /\ call'[c].obj = cached
              \/ /\ cached = None /\ file # None /\ file' = file
                 /\ objects' = Append(objects, [grant |-> file.grant, token |-> file.token,
                                                access |-> "none"])
                 /\ cached' = Len(objects) + 1
                 /\ call'[c].at = "api" /\ call'[c].obj = Len(objects) + 1
              \/ file = None /\ UNCHANGED store /\ call'[c].at = "idle"
<1>1. CASE cached # None /\ Hold(c, cached) /\ UNCHANGED <<store, lock>>
  <2>1. cached \in Nat BY <1>1, Fields DEF Typed, TypeOK
  <2> QED BY <1>1, <2>1, Held DEF Load, Typed, TypeOK
<1>2. CASE /\ cached = None /\ file # None
           /\ objects' = Append(objects, [grant |-> file.grant, token |-> file.token,
                                          access |-> "none"])
           /\ cached' = Len(objects')
           /\ Hold(c, Len(objects'))
           /\ UNCHANGED <<file, lock>>
  <2>1. Len(objects') = Len(objects) + 1 /\ Len(objects') \in Nat BY <1>2, Fields DEF Typed
  <2> QED BY <1>2, <2>1, Held DEF Load, Typed, TypeOK
<1>3. CASE cached = None /\ file = None /\ Finish(c) /\ UNCHANGED store
  BY <1>3, Finished DEF Load, Idle
<1> QED BY <1>1, <1>2, <1>3 DEF Load

\* A renewal may bring an answer without a refresh token, or with a new one.
LEMMA RenewMoves ==
    ASSUME Typed, HeldOK, NEW c \in Calls, Renew(c)
    PROVE  /\ OneCall(c) /\ At(c, "api") /\ lock' \in {None} \cup Calls
           /\ \/ call'[c].at = "idle" /\ UNCHANGED spotify
              \/ /\ call'[c].at = "granted" /\ call'[c].obj = call[c].obj
                 /\ call'[c].answer = None /\ UNCHANGED spotify
              \/ /\ \/ /\ call'[c].at = "granted" /\ call'[c].obj = call[c].obj
                       /\ call'[c].answer = issued' /\ UNCHANGED lost
                    \/ call'[c].at = "idle" /\ lost' = lost \cup {Token(c)}
                 /\ issued < MaxTokens /\ issued' = issued + 1
                 /\ (accepted \ {Token(c)}) \cup {issued'} \subseteq accepted'
                 /\ accepted' \subseteq accepted \cup {issued'}
<1>0. call[c] \in CallRecords /\ "granted" \in Points /\ lock \in {None} \cup Calls
  BY Fields, PointsAre DEF Typed, TypeOK
<1>1. CASE Finish(c) /\ UNCHANGED spotify BY <1>1, Finished DEF Renew, Idle
<1>2. ASSUME NEW y \in Nat \cup {None},
             call' = [call EXCEPT ![c].at = "granted", ![c].answer = y]
      PROVE  /\ OneCall(c) /\ call'[c].at = "granted" /\ call'[c].obj = call[c].obj
             /\ call'[c].answer = y
  <2> DEFINE r == [call[c] EXCEPT !.at = "granted", !.answer = y]
  <2>1. r \in CallRecords BY <1>0, ChangedAnswer
  <2>2. r.at = "granted" /\ r.obj = call[c].obj /\ r.answer = y BY <1>0 DEF CallRecords
  <2>3. call' = [call EXCEPT ![c] = r] BY <1>2
  <2> HIDE DEF r
  <2> QED BY <2>1, <2>2, <2>3, CallUpdated
<1>3. CASE /\ call' = [call EXCEPT ![c].at = "granted", ![c].answer = None]
           /\ UNCHANGED <<spotify, lock>>
  BY <1>0, <1>2, <1>3 DEF Renew
<1>4. ASSUME Rotate(c), \E retired \in {{}, {Token(c)}} :
                             accepted' = (accepted \cup {issued'}) \ retired
      PROVE  /\ issued < MaxTokens /\ issued' = issued + 1 /\ issued' \in Nat
             /\ (accepted \ {Token(c)}) \cup {issued'} \subseteq accepted'
             /\ accepted' \subseteq accepted \cup {issued'}
  <2>1. issued < MaxTokens /\ issued' = issued + 1 BY <1>4 DEF Rotate
  <2>2. Token(c) \in Tokens /\ issued \in Nat
    BY Fields DEF Renew, At, HeldOK, Holding, Token
  <2>3. issued' # Token(c) BY <2>1, <2>2 DEF Tokens
  <2> QED BY <1>4, <2>1, <2>2, <2>3
<1>5. CASE /\ Rotate(c)
           /\ \E retired \in {{}, {Token(c)}} :
                  accepted' = (accepted \cup {issued'}) \ retired
           /\ call' = [call EXCEPT ![c].at = "granted", ![c].answer = issued']
           /\ UNCHANGED <<lost, lock>>
  <2>1. /\ call'[c].at = "granted" /\ call'[c].obj = call[c].obj /\ OneCall(c)
        /\ call'[c].answer = issued'
    BY <1>2, <1>4, <1>5
  <2> QED BY <1>0, <1>4, <1>5, <2>1 DEF Renew
<1>6. CASE /\ Rotate(c)
           /\ accepted' = (accepted \cup {issued'}) \ {Token(c)}
           /\ lost' = lost \cup {Token(c)}
           /\ Finish(c)
  <2>1. call'[c].at = "idle" /\ OneCall(c) /\ lock' \in {None} \cup Calls
    BY <1>6, Finished DEF Idle
  <2> QED BY <1>4, <1>6, <2>1 DEF Renew
<1> QED BY <1>1, <1>3, <1>5, <1>6 DEF Renew

LEMMA ApplyMoves ==
    ASSUME Typed, HeldOK, NEW c \in Calls, Apply(c)
    PROVE  /\ OneCall(c) /\ At(c, "granted") /\ call[c].obj \in DOMAIN objects
           /\ call'[c].at = "persist" /\ call'[c].obj = call[c].obj
           /\ objects' \in Seq([grant: Nat, token: Nat, access: Accesses])
           /\ DOMAIN objects' = DOMAIN objects
           /\ \A o \in DOMAIN objects :
                /\ objects'[o].grant = objects[o].grant
                /\ o # call[c].obj => objects'[o] = objects[o]
                /\ o = call[c].obj =>
                      objects'[o].token = Renewed(objects[o].token, call[c].answer)
<1>0. call[c] \in CallRecords /\ "persist" \in Points /\ call[c].obj \in DOMAIN objects
  BY Fields, PointsAre DEF Apply, At, HeldOK, Holding
<1> DEFINE r == [call[c] EXCEPT !.at = "persist", !.then = "send"]
           o == call[c].obj
           t == Renewed(objects[o].token, call[c].answer)
           b == [objects[o] EXCEPT !.access = "good", !.token = t]
<1>1. r \in CallRecords BY <1>0, ChangedThen
<1>2. r.at = "persist" /\ r.obj = call[c].obj BY <1>0 DEF CallRecords
<1>3. call' = [call EXCEPT ![c] = r] BY DEF Apply
<1>4. OneCall(c) /\ call'[c] = r
  <2> HIDE DEF r
  <2> QED BY <1>1, <1>3, CallUpdated
<1>5. t \in Nat BY <1>0, Fields DEF Renewed, CallRecords, Tokens
<1>6. /\ objects[o] \in [grant: Nat, token: Nat, access: Accesses]
      /\ objects \in Seq([grant: Nat, token: Nat, access: Accesses])
      /\ o \in 1 .. Len(objects)
  BY <1>0, Element, Fields DEF Typed
<1>7. /\ b \in [grant: Nat, token: Nat, access: Accesses]
      /\ b.grant = objects[o].grant /\ b.token = t
  <2> HIDE DEF t, o
  <2> QED BY <1>5, <1>6 DEF Accesses
<1>8. objects' = [objects EXCEPT ![o] = b] BY DEF Apply
<1> HIDE DEF r, b
<1>9. /\ objects' \in Seq([grant: Nat, token: Nat, access: Accesses])
      /\ DOMAIN objects' = DOMAIN objects
      /\ objects'[o] = b /\ \A p \in DOMAIN objects \ {o} : objects'[p] = objects[p]
  BY <1>6, <1>7, <1>8
<1> QED BY <1>0, <1>2, <1>4, <1>7, <1>9 DEF Apply

LEMMA PersistMoves ==
    ASSUME Typed, HeldOK, NEW c \in Calls, Persist(c)
    PROVE  /\ OneCall(c) /\ At(c, "persist") /\ lock' \in {None} \cup Calls
           /\ call'[c].at \in {"send", "load", "idle", "replace"}
           /\ call'[c].at \in Holding =>
                 call'[c].obj = call[c].obj /\ call[c].obj \in DOMAIN objects
           /\ call'[c].at = "replace" => call'[c].payload = Durable(call[c].obj)
<1>0. /\ call[c] \in CallRecords /\ "replace" \in Points /\ call[c].obj \in DOMAIN objects
      /\ lock \in {None} \cup Calls
  BY Fields, PointsAre DEF Persist, At, HeldOK, Holding, Typed, TypeOK
<1>1. CASE Proceed(c) BY <1>0, <1>1, Proceeded DEF Persist, Holding
<1>2. CASE /\ call' = [call EXCEPT ![c].at = "replace",
                                   ![c].payload = Durable(call[c].obj)]
           /\ UNCHANGED lock
  <2> DEFINE d == Durable(call[c].obj)
             r == [call[c] EXCEPT !.at = "replace", !.payload = d]
  <2>1. d \in [grant: Nat, token: Nat] BY <1>0, Fields DEF Tokens
  <2> HIDE DEF d
  <2>2. r \in CallRecords BY <1>0, <2>1, ChangedPayload
  <2>3. r.at = "replace" /\ r.obj = call[c].obj /\ r.payload = d BY <1>0 DEF CallRecords
  <2>4. call' = [call EXCEPT ![c] = r] BY <1>2 DEF d
  <2> HIDE DEF r
  <2>5. OneCall(c) /\ call'[c] = r BY <2>2, <2>4, CallUpdated
  <2> QED BY <1>0, <1>2, <2>3, <2>5 DEF Persist, d
<1> QED BY <1>1, <1>2 DEF Persist

LEMMA DeniedMoves ==
    ASSUME Typed, HeldOK, NEW c \in Calls, Denied(c)
    PROVE  /\ OneCall(c) /\ At(c, "denied") /\ call[c].obj \in DOMAIN objects
           /\ call'[c].at = "api" /\ call'[c].obj = call[c].obj
<1>0. call[c] \in CallRecords /\ "api" \in Points /\ call[c].obj \in DOMAIN objects
  BY Fields, PointsAre DEF Denied, At, HeldOK, Holding
<1> DEFINE r == [call[c] EXCEPT !.at = "api", !.again = TRUE]
<1>1. r \in CallRecords BY <1>0, ChangedAgain
<1>2. r.at = "api" /\ r.obj = call[c].obj BY <1>0 DEF CallRecords
<1>3. call' = [call EXCEPT ![c] = r] BY DEF Denied
<1> HIDE DEF r
<1> QED BY <1>0, <1>1, <1>2, <1>3, CallUpdated DEF Denied

LEMMA SendMoves ==
    ASSUME Typed, HeldOK, NEW c \in Calls, Send(c)
    PROVE  /\ OneCall(c) /\ call[c].at \in {"send", "api"} /\ lock' \in {None} \cup Calls
           /\ call'[c].at \in {"idle", "api", "enter", "persist", "denied"}
           /\ call'[c].at \in Holding =>
                 call'[c].obj = call[c].obj /\ call[c].obj \in DOMAIN objects
<1>0. /\ call[c] \in CallRecords /\ "denied" \in Points /\ call[c].obj \in DOMAIN objects
      /\ lock \in {None} \cup Calls /\ call[c].at \in {"send", "api"}
  BY Fields, PointsAre DEF Send, At, HeldOK, Holding, Typed, TypeOK
<1>1. CASE Finish(c) BY <1>0, <1>1, Finished DEF Idle, Holding
<1>2. CASE Answered(c) /\ UNCHANGED lock BY <1>0, <1>2, GotAnswer
<1>3. CASE Goto(c, "denied") /\ UNCHANGED lock
  <2>1. OneCall(c) /\ call'[c] = [call[c] EXCEPT !.at = "denied"] BY <1>0, <1>3, Went
  <2> QED BY <1>0, <1>3, <2>1 DEF CallRecords
<1> QED BY <1>1, <1>2, <1>3 DEF Send
-----------------------------------------------------------------------------
(* Every step keeps the variables typed.                                    *)

\* A step that moves one request and issues no token.
LEMMA CallTypes ==
    ASSUME Typed, NEW c \in Calls, OneCall(c), UNCHANGED <<store, spotify, runner>>,
           lock' \in {None} \cup Calls, attempt' \in {None} \cup Attempts,
           thread' \in {None} \cup Attempts, pending' \in BOOLEAN,
           asked' = asked, faults' \in Nat, past' \in Histories
    PROVE  Typed'
BY DEF Typed, TypeOK, OneCall, store, spotify, Tokens

LEMMA TypesKeptByCalls ==
    ASSUME Typed, HeldOK, NEW c \in Calls,
           \/ Enter(c) \/ Persist(c) \/ Send(c) \/ ReplaceFails(c)
           \/ Check(c) \/ SetPending(c) \/ Cancel(c) \/ ClearPending(c)
    PROVE  Typed'
<1> USE DEF authorization, bounds
<1>0. /\ call[c] \in CallRecords /\ lock \in {None} \cup Calls
      /\ attempt \in {None} \cup Attempts /\ thread \in {None} \cup Attempts
      /\ pending \in BOOLEAN /\ faults \in Nat /\ past \in Histories
  BY Fields DEF Typed, TypeOK
<1>1. CASE Enter(c)
  <2>1. OneCall(c) BY <1>1, Went, PointsAre DEF Enter
  <2> QED BY <1>0, <1>1, <2>1, CallTypes DEF Enter
<1>2. CASE Persist(c) BY <1>0, <1>2, PersistMoves, CallTypes DEF Persist
<1>3. CASE Send(c) BY <1>0, <1>3, SendMoves, CallTypes DEF Send
<1>4. CASE ReplaceFails(c)
  <2>1. OneCall(c) /\ lock' \in {None} \cup Calls BY <1>4, Finished DEF ReplaceFails
  <2> QED BY <1>0, <1>4, <2>1, CallTypes DEF ReplaceFails
<1>5. CASE Check(c)
  <2>1. OneCall(c) /\ lock' \in {None} \cup Calls
    BY <1>0, <1>5, Went, Finished, PointsAre DEF Check
  <2>2. past' \in Histories BY <1>0, <1>5 DEF Check, Histories
  <2> QED BY <1>0, <1>5, <2>1, <2>2, CallTypes DEF Check
<1>6. CASE SetPending(c)
  <2>1. OneCall(c) BY <1>6, Went, PointsAre DEF SetPending
  <2> QED BY <1>0, <1>6, <2>1, CallTypes DEF SetPending
<1>7. CASE Cancel(c)
  <2>1. OneCall(c) BY <1>7, Went, PointsAre DEF Cancel
  <2>2. past' \in Histories BY <1>0, <1>7 DEF Cancel, Histories
  <2> QED BY <1>0, <1>7, <2>1, <2>2, CallTypes DEF Cancel
<1>8. CASE ClearPending(c)
  <2>1. OneCall(c) /\ lock' \in {None} \cup Calls BY <1>8, Finished DEF ClearPending
  <2> QED BY <1>0, <1>8, <2>1, CallTypes DEF ClearPending
<1> QED BY <1>1, <1>2, <1>3, <1>4, <1>5, <1>6, <1>7, <1>8

\* An access token that ends leaves every refresh token where it is.
LEMMA AccessChanges ==
    ASSUME Typed, NEW o \in DOMAIN objects, NEW x \in Accesses,
           objects' = [objects EXCEPT ![o].access = x]
    PROVE  /\ objects' \in Seq([grant: Nat, token: Nat, access: Accesses])
           /\ DOMAIN objects' = DOMAIN objects
           /\ \A p \in DOMAIN objects :
                /\ objects'[p].grant = objects[p].grant
                /\ objects'[p].token = objects[p].token
                /\ objects'[p].access \in Accesses
<1> DEFINE S == [grant: Nat, token: Nat, access: Accesses]
           b == [objects[o] EXCEPT !.access = x]
<1>1. objects \in Seq(S) /\ o \in 1 .. Len(objects) BY Fields DEF Typed
<1>2. objects[o] \in S
  <2> HIDE DEF S
  <2> QED BY <1>1, Element
<1>3. /\ b \in S /\ b.access = x
      /\ b.grant = objects[o].grant /\ b.token = objects[o].token
  BY <1>2
<1>4. objects' = [objects EXCEPT ![o] = b] OBVIOUS
<1>5. /\ objects' \in Seq(S) /\ DOMAIN objects' = DOMAIN objects /\ objects'[o] = b
      /\ \A p \in DOMAIN objects \ {o} : objects'[p] = objects[p]
  <2> HIDE DEF S, b
  <2> QED BY <1>1, <1>3, <1>4, Updated
<1> HIDE DEF b
<1> QED BY <1>3, <1>5, Fields

\* A step of a request that writes to the store, or makes or renews a token.
LEMMA TypesKeptByWriters ==
    ASSUME Typed, HeldOK, AnswersOK, NEW c \in Calls,
           \/ Load(c) \/ Renew(c) \/ Apply(c) \/ Replace(c) \/ Remember(c) \/ Denied(c)
           \/ Clear(c)
    PROVE  Typed'
<1> USE DEF authorization, bounds, store, spotify
<1>1. CASE Load(c)
  <2>1. /\ OneCall(c) /\ lock' \in {None} \cup Calls
        /\ UNCHANGED <<spotify, authorization, bounds, past>>
    BY <1>1, LoadMoves DEF Load
  <2>2. CASE UNCHANGED store BY <2>1, <2>2 DEF Typed, TypeOK, OneCall, Tokens
  <2>3. CASE /\ file # None /\ file' = file
             /\ objects' = Append(objects, [grant |-> file.grant, token |-> file.token,
                                            access |-> "none"])
             /\ cached' = Len(objects) + 1
    <3> DEFINE b == [grant |-> file.grant, token |-> file.token, access |-> "none"]
    <3>1. b \in [grant: Nat, token: Nat, access: Accesses] /\ b.grant \in Tokens
          /\ b.token \in Tokens /\ b.access \in Accesses
      BY <2>3, Fields DEF Tokens, Accesses
    <3> HIDE DEF b
    <3>2. objects' = Append(objects, b) BY <2>3 DEF b
    <3>3. /\ objects' \in Seq([grant: Nat, token: Nat, access: Accesses])
          /\ Len(objects') = Len(objects) + 1 /\ DOMAIN objects' = 1 .. Len(objects')
          /\ objects'[Len(objects) + 1] = b
          /\ \A o \in DOMAIN objects : objects'[o] = objects[o]
      BY <3>1, <3>2, Fields DEF Typed
    <3>4. \A o \in DOMAIN objects' :
            /\ objects'[o].grant \in Tokens /\ objects'[o].token \in Tokens
            /\ objects'[o].access \in Accesses
      <4> TAKE o \in DOMAIN objects'
      <4>1. o \in DOMAIN objects \/ o = Len(objects) + 1 BY <3>3, Fields
      <4> QED BY <3>1, <3>3, <4>1, Fields
    <3>5. cached' \in DOMAIN objects' BY <2>3, <3>3, Fields
    <3> QED BY <2>1, <2>3, <3>3, <3>4, <3>5 DEF Typed, TypeOK, OneCall, Tokens, Accesses
  <2> QED BY <1>1, <2>2, <2>3, LoadMoves
<1>2. CASE Renew(c)
  <2>1. OneCall(c) /\ lock' \in {None} \cup Calls BY <1>2, RenewMoves
  <2>2. /\ issued' \in issued .. (MaxTokens + 1) /\ accepted' \subseteq 1 .. issued'
        /\ lost' \subseteq 1 .. issued' /\ issued \in Nat /\ MaxTokens \in Nat
    <3>0. Token(c) \in 1 .. issued
      BY <1>2, Fields DEF Renew, At, HeldOK, Holding, Token, Tokens
    <3>1. /\ issued \in 1 .. (MaxTokens + 1) /\ accepted \subseteq 1 .. issued
          /\ lost \subseteq 1 .. issued /\ MaxTokens \in Nat
      BY SpotifyAccountAssumption DEF Typed, TypeOK
    <3>2. \/ UNCHANGED spotify
          \/ /\ issued < MaxTokens /\ issued' = issued + 1
             /\ accepted' \subseteq accepted \cup {issued'}
             /\ lost' \subseteq lost \cup {Token(c)}
      BY <1>2, RenewMoves
    <3>3. CASE UNCHANGED spotify BY <3>1, <3>3
    <3>4. CASE /\ issued < MaxTokens /\ issued' = issued + 1
               /\ accepted' \subseteq accepted \cup {issued'}
               /\ lost' \subseteq lost \cup {Token(c)}
      <4>1. issued' \in issued .. (MaxTokens + 1) /\ issued \in Nat BY <3>1, <3>4
      <4>2. accepted' \subseteq 1 .. issued' BY <3>1, <3>4
      <4>3. lost' \subseteq 1 .. issued' BY <3>0, <3>1, <3>4
      <4> QED BY <3>1, <4>1, <4>2, <4>3
    <3> QED BY <3>2, <3>3, <3>4
  <2>3. UNCHANGED <<store, authorization, bounds, past>> BY <1>2 DEF Renew
  <2>4. 1 .. issued \subseteq 1 .. issued' BY <2>2
  <2>5. TypeOK'
    <3>1. file' \in {None} \cup [grant: 1 .. issued', token: 1 .. issued']
      BY <2>3, <2>4 DEF Typed, TypeOK
    <3> QED BY <2>1, <2>2, <2>3, <2>4, <3>1 DEF Typed, TypeOK
  <2> QED BY <2>1, <2>2, <2>3, <2>4, <2>5 DEF Typed, OneCall, Tokens
<1>3. CASE Apply(c)
  <2>1. UNCHANGED <<file, cached, spotify, lock, authorization, bounds, past>>
    BY <1>3 DEF Apply
  <2>2. /\ OneCall(c) /\ DOMAIN objects' = DOMAIN objects
        /\ objects' \in Seq([grant: Nat, token: Nat, access: Accesses])
        /\ call[c].obj \in DOMAIN objects
    BY <1>3, ApplyMoves
  <2>3. \A o \in DOMAIN objects' :
          /\ objects'[o].grant \in Tokens /\ objects'[o].token \in Tokens
          /\ objects'[o].access \in Accesses
    <3> TAKE o \in DOMAIN objects'
    <3>1. objects'[o].grant \in Tokens BY <1>3, <2>2, ApplyMoves, Fields
    <3>2. objects'[o].access \in Accesses
      <4>1. o \in 1 .. Len(objects') BY <2>2
      <4>2. objects'[o] \in [grant: Nat, token: Nat, access: Accesses]
        BY <2>2, <4>1, Element
      <4> QED BY <4>2
    <3>3. objects'[o].token \in Tokens
      <4>1. call[c].answer # None => call[c].answer \in Tokens
        BY <1>3, Fields DEF Apply, AnswersOK, Carries
      <4>2. Renewed(objects[call[c].obj].token, call[c].answer) \in Tokens
        BY <2>2, <4>1, Fields DEF Renewed
      <4> QED BY <1>3, <2>2, <4>2, ApplyMoves, Fields
    <3> QED BY <3>1, <3>2, <3>3
  <2> QED BY <2>1, <2>2, <2>3 DEF Typed, TypeOK, OneCall, Tokens, Accesses
<1>4. CASE Replace(c)
  <2>1. OneCall(c) BY <1>4, Went, PointsAre DEF Replace
  <2>2. file' \in [grant: Tokens, token: Tokens] BY <1>4 DEF Replace, HeldOK
  <2>3. UNCHANGED <<cached, objects, spotify, lock, authorization, bounds, past>>
    BY <1>4 DEF Replace
  <2> QED BY <2>1, <2>2, <2>3 DEF Typed, TypeOK, OneCall, Tokens
<1>5. CASE Remember(c)
  <2>1. OneCall(c) /\ lock' \in {None} \cup Calls BY <1>5, Proceeded DEF Remember
  <2>2. cached' \in DOMAIN objects BY <1>5 DEF Remember, HeldOK, At, Holding
  <2>3. UNCHANGED <<file, objects, spotify, authorization, bounds, past>>
    BY <1>5 DEF Remember
  <2> QED BY <2>1, <2>2, <2>3 DEF Typed, TypeOK, OneCall, Tokens
<1>6. CASE Denied(c)
  <2>1. UNCHANGED <<file, cached, spotify, lock, authorization, bounds, past>>
    BY <1>6 DEF Denied
  <2>2. OneCall(c) /\ call[c].obj \in DOMAIN objects BY <1>6, DeniedMoves
  <2>3. /\ DOMAIN objects' = DOMAIN objects
        /\ objects' \in Seq([grant: Nat, token: Nat, access: Accesses])
        /\ \A o \in DOMAIN objects' :
             /\ objects'[o].grant \in Tokens /\ objects'[o].token \in Tokens
             /\ objects'[o].access \in Accesses
    BY <1>6, <2>2, AccessChanges, Fields DEF Denied, Accesses
  <2> QED BY <2>1, <2>2, <2>3 DEF Typed, TypeOK, OneCall, Tokens, Accesses
<1>7. CASE Clear(c)
  <2>1. OneCall(c) BY <1>7, Went, PointsAre DEF Clear
  <2>2. past' \in Histories BY <1>7 DEF Clear, Histories, Typed, Alone
  <2>3. UNCHANGED <<objects, spotify, lock, authorization, bounds>>
    BY <1>7 DEF Clear
  <2> QED BY <1>7, <2>1, <2>2, <2>3 DEF Typed, TypeOK, OneCall, Tokens, Clear
<1> QED BY <1>1, <1>2, <1>3, <1>4, <1>5, <1>6, <1>7
\* Asking for something, the start of an authorization, and its thread.
LEMMA TypesKeptByTheRest ==
    ASSUME Typed, HeldOK, StartsOK,
           \/ \E c \in Calls, op \in Operations : Begin(c, op)
           \/ \E c \in Calls : Register(c)
           \/ \E c \in Calls : Launch(c)
           \/ \E o \in DOMAIN objects : Wear(o)
    PROVE  Typed'
<1> USE DEF authorization, bounds, store, spotify
<1>1. ASSUME NEW c \in Calls, NEW op \in Operations, Begin(c, op)
      PROVE  Typed'
  <2>1. /\ OneCall(c) /\ asked.attempts \in 0 .. MaxAttempts
        /\ asked'.attempts \in 0 .. MaxAttempts
        /\ asked'.requests \in Nat /\ DOMAIN asked' = {"requests", "attempts"}
    BY <1>1, BeginMoves DEF Typed
  <2>2. UNCHANGED <<store, spotify, lock, authorization, faults, past>> BY <1>1 DEF Begin
  <2> QED BY <2>1, <2>2 DEF Typed, TypeOK, OneCall, Tokens
<1>2. ASSUME NEW c \in Calls, Register(c)
      PROVE  Typed'
  <2>1. OneCall(c) BY <1>2, Went, PointsAre DEF Register
  <2>2. call[c].mine \in Attempts
    BY <1>2, SpotifyAccountAssumption
    DEF Register, At, StartsOK, Starting, Attempts, Typed
  <2> QED BY <1>2, <2>1, <2>2, CallTypes DEF Register, Typed, TypeOK
<1>3. ASSUME NEW c \in Calls, Launch(c)
      PROVE  Typed'
  <2>1. OneCall(c) /\ lock' \in {None} \cup Calls BY <1>3, Finished DEF Launch
  <2>2. call[c].mine \in Attempts
    BY <1>3, SpotifyAccountAssumption
    DEF Launch, At, StartsOK, Starting, Attempts, Typed
  <2>3. runner' \in [Attempts -> RunnerRecords]
    BY <1>3, <2>2, RunnerWent DEF Launch, RunnerGoes, Stages
  <2>4. UNCHANGED <<store, spotify, attempt, pending, bounds, past>> BY <1>3 DEF Launch
  <2>5. thread' \in Attempts BY <1>3, <2>2 DEF Launch
  <2> QED BY <2>1, <2>3, <2>4, <2>5 DEF Typed, TypeOK, OneCall, Tokens
<1>4. ASSUME NEW o \in DOMAIN objects, Wear(o)
      PROVE  Typed'
  <2>1. UNCHANGED <<file, cached, spotify, lock, call, authorization, asked, past>>
        /\ faults' \in Nat
    BY <1>4 DEF Wear, Typed
  <2>2. /\ DOMAIN objects' = DOMAIN objects
        /\ objects' \in Seq([grant: Nat, token: Nat, access: Accesses])
        /\ \A p \in DOMAIN objects' :
             /\ objects'[p].grant \in Tokens /\ objects'[p].token \in Tokens
             /\ objects'[p].access \in Accesses
    <3>1. PICK x \in Accesses : objects' = [objects EXCEPT ![o].access = x]
      BY <1>4 DEF Wear, Accesses
    <3> QED BY <3>1, AccessChanges, Fields
  <2> QED BY <2>1, <2>2 DEF Typed, TypeOK, Tokens, Accesses
<1> QED BY <1>1, <1>2, <1>3, <1>4
\* The thread of an authorization.
LEMMA TypesKeptByRunners ==
    ASSUME Typed, HeldOK, NEW a \in Attempts, RunnerStep(a) \/ Callback(a)
    PROVE  Typed'
<1> USE DEF bounds, store, spotify
<1>0. /\ attempt \in {None} \cup Attempts /\ thread \in {None} \cup Attempts
      /\ pending \in BOOLEAN /\ faults \in Nat /\ past \in Histories
  BY DEF Typed, TypeOK
<1>1. ASSUME NEW at \in Stages, RunnerGoes(a, at), UNCHANGED <<objects, spotify, lock>>,
             UNCHANGED <<call, thread, asked>>, faults' \in Nat,
             file' \in {None} \cup [grant: Tokens, token: Tokens],
             cached' \in {None} \cup DOMAIN objects,
             attempt' \in {None} \cup Attempts, pending' \in BOOLEAN, past' \in Histories
      PROVE  Typed'
  BY <1>1, RunnerWent DEF Typed, TypeOK, Tokens
<1>2. file \in {None} \cup [grant: Tokens, token: Tokens] /\ cached \in {None} \cup DOMAIN objects
  BY DEF Typed, TypeOK, Tokens
<1>3. CASE Bind(a) BY <1>0, <1>1, <1>2, <1>3 DEF Bind, Stages
<1>4. CASE TimeOut(a) BY <1>0, <1>1, <1>2, <1>4 DEF TimeOut, Stages
<1>5. CASE Consume(a) BY <1>0, <1>1, <1>2, <1>5 DEF Consume, Stages
<1>6. CASE Exchange(a)
  <2>1. past' \in Histories BY <1>0, <1>6 DEF Exchange, Histories
  <2>2. CASE RunnerGoes(a, "failed") /\ UNCHANGED <<spotify, objects>>
    BY <1>0, <1>1, <1>2, <1>6, <2>1, <2>2 DEF Exchange, Stages
  <2>3. CASE /\ issued < MaxTokens
             /\ issued' = issued + 1
             /\ accepted' = accepted \cup {issued'}
             /\ objects' = Append(objects, [grant |-> issued', token |-> issued',
                                            access |-> "good"])
             /\ runner' = [runner EXCEPT ![a] = [at |-> "save", obj |-> Len(objects')]]
    <3> DEFINE b == [grant |-> issued', token |-> issued', access |-> "good"]
    <3>1. /\ issued' \in 1 .. (MaxTokens + 1) /\ issued' = issued + 1 /\ issued' \in Nat
          /\ Tokens \subseteq 1 .. issued' /\ issued' \in 1 .. issued'
      BY <2>3, Fields, SpotifyAccountAssumption DEF Typed, TypeOK, Tokens
    <3>2. /\ b \in [grant: Nat, token: Nat, access: Accesses] /\ b.grant = issued'
          /\ b.token = issued' /\ b.access \in Accesses
      BY <3>1 DEF Accesses
    <3> HIDE DEF b
    <3>3. objects' = Append(objects, b) BY <2>3 DEF b
    <3>4. /\ objects' \in Seq([grant: Nat, token: Nat, access: Accesses])
          /\ Len(objects') = Len(objects) + 1 /\ DOMAIN objects' = 1 .. Len(objects')
          /\ objects'[Len(objects) + 1] = b
          /\ \A o \in DOMAIN objects : objects'[o] = objects[o]
      BY <3>2, <3>3, Fields DEF Typed
    <3>5. \A o \in DOMAIN objects' :
            /\ objects'[o].grant \in 1 .. issued' /\ objects'[o].token \in 1 .. issued'
            /\ objects'[o].access \in Accesses
      <4> TAKE o \in DOMAIN objects'
      <4>1. o \in DOMAIN objects \/ o = Len(objects) + 1 BY <3>4, Fields
      <4> QED BY <3>1, <3>2, <3>4, <4>1, Fields
    <3>6. runner' \in [Attempts -> RunnerRecords]
      <4>1. [at |-> "save", obj |-> Len(objects')] \in RunnerRecords
        BY <3>4, Fields DEF RunnerRecords, Stages
      <4> QED BY <2>3, <4>1 DEF Typed
    <3>7. file' \in {None} \cup [grant: 1 .. issued', token: 1 .. issued']
      BY <1>2, <1>6, <3>1 DEF Exchange
    <3>8. accepted' \subseteq 1 .. issued' BY <2>3, <3>1, Fields
    <3>9. cached' \in {None} \cup DOMAIN objects' BY <1>2, <1>6, <3>4, Fields DEF Exchange
    <3>10. UNCHANGED <<lock, call, attempt, thread, pending, bounds>> BY <1>6 DEF Exchange
    <3>11. lost' \subseteq 1 .. issued'
      <4>1. lost' = lost BY <1>6 DEF Exchange
      <4>2. lost \subseteq Tokens BY DEF Typed, TypeOK, Tokens
      <4> QED BY <3>1, <4>1, <4>2
    <3> QED BY <2>1, <3>1, <3>4, <3>5, <3>6, <3>7, <3>8, <3>9, <3>10, <3>11
      DEF Typed, TypeOK, Tokens, Accesses
  <2> QED BY <1>6, <2>2, <2>3 DEF Exchange
<1>7. CASE Save(a)
  <2>1. runner[a].obj \in DOMAIN objects BY <1>7 DEF Save, RunnerAt, HeldOK
  <2>2. Durable(runner[a].obj) \in [grant: Tokens, token: Tokens] BY <2>1, Fields
  <2>3. past' \in Histories
    <3>1. objects[runner[a].obj].grant \in Nat BY <2>1, Fields DEF Tokens
    <3>2. CASE past' = [past EXCEPT !.gone = FALSE, !.removed = FALSE,
                                    !.connected = objects[runner[a].obj].grant]
      BY <1>0, <3>1, <3>2 DEF Histories
    <3> QED BY <1>0, <1>7, <3>2 DEF Save
  <2> QED BY <1>0, <1>1, <1>2, <1>7, <2>2, <2>3 DEF Save, Stages
<1>8. CASE RememberNew(a)
  <2>1. runner[a].obj \in DOMAIN objects BY <1>8 DEF RememberNew, RunnerAt, HeldOK
  <2> QED BY <1>0, <1>1, <1>2, <1>8, <2>1 DEF RememberNew, Stages
<1>9. CASE Conclude(a) BY <1>0, <1>1, <1>2, <1>9 DEF Conclude, Stages
<1>10. CASE Callback(a) BY <1>0, <1>1, <1>2, <1>10 DEF Callback, Stages
<1> QED BY <1>3, <1>4, <1>5, <1>6, <1>7, <1>8, <1>9, <1>10 DEF RunnerStep
-----------------------------------------------------------------------------
(* The tokens.                                                              *)

\* Objects are made and never dropped, each for a grant it keeps.
Grows ==
    /\ DOMAIN objects \subseteq DOMAIN objects' /\ issued <= issued' /\ issued' \in Nat
    /\ \A o \in DOMAIN objects : objects'[o].grant = objects[o].grant

LEMMA PairsAre ==
    ASSUME Typed, HeldOK
    PROVE  /\ \A x : x \in Pairs <=>
                  \/ \E o \in DOMAIN objects : x = Durable(o)
                  \/ \E d \in Calls : At(d, "replace") /\ x = call[d].payload
                  \/ x = file /\ file # None
           /\ \A x \in Pairs : x \in [grant: Tokens, token: Tokens]
<1>1. \A x : x \in Pairs <=>
                  \/ \E o \in DOMAIN objects : x = Durable(o)
                  \/ \E d \in Calls : At(d, "replace") /\ x = call[d].payload
                  \/ x = file /\ file # None
  BY DEF Pairs
<1>2. \A d \in Calls : At(d, "replace") => call[d].payload \in [grant: Tokens, token: Tokens]
  BY DEF HeldOK
<1> QED BY <1>1, <1>2, Fields

\* A step that touches no refresh token: at most it copies one, from the file to
\* an object, or from an object to a request or to the file.
SameTokens ==
    /\ Grows /\ UNCHANGED <<accepted, lost>>
    /\ \A o \in DOMAIN objects : objects'[o].token = objects[o].token
    /\ \A o \in DOMAIN objects' \ DOMAIN objects :
          file # None /\ objects'[o].grant = file.grant /\ objects'[o].token = file.token
    /\ \A d \in Calls :
          /\ Carries(d)' <=> Carries(d)
          /\ Carries(d) => call'[d].answer = call[d].answer /\ call'[d].obj = call[d].obj
          /\ call'[d].at = "replace" => call'[d].payload \in Pairs
    /\ file' \in {None, file} \/ (file' \in Pairs /\ \E o \in DOMAIN objects :
                                                     objects[o].grant = file'.grant)

LEMMA PairsKept ==
    ASSUME Typed, HeldOK, SameTokens
    PROVE  Pairs' \subseteq Pairs
<1> SUFFICES ASSUME NEW x \in Pairs' PROVE x \in Pairs OBVIOUS
<1>1. \/ \E o \in DOMAIN objects' : x = Durable(o)'
      \/ \E d \in Calls : call'[d].at = "replace" /\ x = call'[d].payload
      \/ x = file' /\ file' # None
  BY DEF Pairs, At
<1>2. ASSUME NEW o \in DOMAIN objects', x = Durable(o)' PROVE x \in Pairs
  <2>1. CASE o \in DOMAIN objects
    <3>1. Durable(o)' = Durable(o) BY <2>1 DEF Durable, SameTokens, Grows
    <3> QED BY <1>2, <2>1, <3>1, PairsAre
  <2>2. CASE o \notin DOMAIN objects
    <3>1. /\ file # None
          /\ x = [grant |-> file.grant, token |-> file.token]
      BY <1>2, <2>2 DEF Durable, SameTokens
    <3>2. file \in [grant: Tokens, token: Tokens] BY <3>1, Fields
    <3>3. x = file BY <3>1, <3>2
    <3> QED BY <3>1, <3>3, PairsAre
  <2> QED BY <2>1, <2>2
<1>3. ASSUME NEW d \in Calls, call'[d].at = "replace", x = call'[d].payload
      PROVE x \in Pairs
  BY <1>3 DEF SameTokens
<1>4. ASSUME x = file', file' # None PROVE x \in Pairs
  BY <1>4, PairsAre DEF SameTokens
<1> QED BY <1>1, <1>2, <1>3, <1>4

LEMMA TokensKept ==
    ASSUME Typed, HeldOK, GrantsOK, AnswersOK, LiveOK, SameTokens
    PROVE  GrantsOK' /\ AnswersOK' /\ LiveOK'
<1>0. Pairs' \subseteq Pairs BY PairsKept
<1>1. GrantsOK' BY <1>0 DEF GrantsOK
<1>2. AnswersOK'
  <2>1. ASSUME NEW c \in Calls, Carries(c)'
        PROVE  /\ call'[c].answer \in accepted'
               /\ \A x \in Pairs' : x.token # call'[c].answer
               /\ \A d \in Calls \ {c} : Carries(d)' => call'[d].answer # call'[c].answer
    BY <1>0, <2>1 DEF AnswersOK, SameTokens
  <2> QED BY <2>1 DEF AnswersOK
<1>3. ASSUME NEW o \in DOMAIN objects', Sole(o)' PROVE Live(o)'
  <2>1. CASE o \in DOMAIN objects
    <3>1. Sole(o) BY <1>3, <2>1 DEF Sole, SameTokens, Grows
    <3>2. Live(o) BY <2>1, <3>1 DEF LiveOK
    <3> QED BY <2>1, <3>2 DEF Live, Taken, SameTokens
  <2>2. CASE o \notin DOMAIN objects
    <3>1. /\ file # None
          /\ objects'[o].grant = file.grant /\ objects'[o].token = file.token
      BY <2>2 DEF SameTokens
    <3>2. \A p \in DOMAIN objects : objects[p].grant # file.grant
      BY <1>3, <2>2, <3>1 DEF Sole, SameTokens, Grows
    <3>3. file.token \in Taken BY <3>1, <3>2 DEF LiveOK
    <3> QED BY <3>1, <3>3 DEF Live, Taken, SameTokens
  <2> QED BY <2>1, <2>2
<1>4. ASSUME file' # None, \A o \in DOMAIN objects' : objects'[o].grant # file'.grant
      PROVE  file'.token \in Taken'
  <2>1. file' = file /\ file # None BY <1>4 DEF SameTokens, Grows
  <2>2. \A o \in DOMAIN objects : objects[o].grant # file.grant
    BY <1>4, <2>1 DEF SameTokens, Grows
  <2> QED BY <2>1, <2>2 DEF LiveOK, Taken, SameTokens
<1>5. LiveOK' BY <1>3, <1>4 DEF LiveOK
<1> QED BY <1>1, <1>2, <1>5

\* A request that neither gets a token nor takes one in.
LEMMA QuietCall ==
    ASSUME Typed, HeldOK, NEW c \in Calls, OneCall(c), Grows, UNCHANGED <<accepted, lost>>,
           DOMAIN objects' = DOMAIN objects,
           \A o \in DOMAIN objects : objects'[o].token = objects[o].token,
           file' \in {None, file}, ~ Carries(c), ~ Carries(c)',
           call'[c].at = "replace" => call'[c].payload \in Pairs
    PROVE  SameTokens
<1>1. ASSUME NEW d \in Calls
      PROVE  /\ Carries(d)' <=> Carries(d)
             /\ Carries(d) => call'[d].answer = call[d].answer /\ call'[d].obj = call[d].obj
             /\ call'[d].at = "replace" => call'[d].payload \in Pairs
  <2>1. CASE d = c BY <2>1
  <2>2. CASE d # c
    <3>1. call'[d] = call[d] BY <2>2 DEF OneCall
    <3> QED BY <3>1, PairsAre DEF Carries, At
  <2> QED BY <2>1, <2>2
<1> QED BY <1>1 DEF SameTokens
-----------------------------------------------------------------------------
(* What the threads hold, and the tokens, after each step.                  *)

TokenInv == HeldOK /\ GoneOK /\ GrantsOK /\ AnswersOK /\ LiveOK

LEMMA HeldByCall ==
    ASSUME Typed, HeldOK, NEW c \in Calls, OneCall(c), Grows,
           call'[c].at \in Holding => call'[c].obj \in DOMAIN objects',
           call'[c].at = "replace" =>
              /\ call'[c].obj \in DOMAIN objects
              /\ call'[c].payload = Durable(call'[c].obj),
           \A a \in Attempts : runner'[a].at \in {"save", "remember"} => runner'[a] = runner[a]
    PROVE  HeldOK'
<1>0. issued \in Nat /\ Tokens \subseteq Tokens' BY Fields DEF Grows, Tokens
<1>1. ASSUME NEW d \in Calls
      PROVE  /\ call'[d].at \in Holding => call'[d].obj \in DOMAIN objects'
             /\ call'[d].at = "replace" =>
                   /\ call'[d].payload \in [grant: Tokens', token: Tokens']
                   /\ call'[d].payload.grant = objects'[call'[d].obj].grant
  <2>1. CASE d = c
    <3>1. ASSUME call'[c].at = "replace"
          PROVE  /\ call'[c].payload \in [grant: Tokens, token: Tokens]
                 /\ call'[c].payload.grant = objects[call'[c].obj].grant
                 /\ call'[c].obj \in DOMAIN objects
      BY <3>1, Fields DEF Durable
    <3> QED BY <1>0, <2>1, <3>1 DEF Grows
  <2>2. CASE d # c
    <3>1. call'[d] = call[d] BY <2>2 DEF OneCall
    <3>2. /\ call[d].at \in Holding => call[d].obj \in DOMAIN objects
          /\ call[d].at = "replace" =>
                /\ call[d].obj \in DOMAIN objects
                /\ call[d].payload \in [grant: Tokens, token: Tokens]
                /\ call[d].payload.grant = objects[call[d].obj].grant
      BY DEF HeldOK, At, Holding
    <3> QED BY <1>0, <3>1, <3>2 DEF Grows
  <2> QED BY <2>1, <2>2
<1>2. \A a \in Attempts :
        runner'[a].at \in {"save", "remember"} => runner'[a].obj \in DOMAIN objects'
  BY DEF HeldOK, Grows
<1> QED BY <1>1, <1>2 DEF HeldOK, At, Tokens

LEMMA GoneByCall ==
    ASSUME Typed, GoneOK, NEW c \in Calls, OneCall(c), past'.gone => past.gone,
           past.gone => file' = None /\ cached' = None /\ call'[c].at \notin Holding,
           \A a \in Attempts : runner'[a].at = "remember" => runner'[a] = runner[a]
    PROVE  GoneOK'
<1> SUFFICES ASSUME past'.gone
             PROVE  /\ file' = None /\ cached' = None
                    /\ \A d \in Calls : call'[d].at \notin Holding
                    /\ \A a \in Attempts : runner'[a].at # "remember"
  BY DEF GoneOK
<1>1. /\ file' = None /\ cached' = None /\ call'[c].at \notin Holding
      /\ \A d \in Calls : call[d].at \notin Holding
      /\ \A a \in Attempts : runner[a].at # "remember"
  BY DEF GoneOK
<1>2. \A d \in Calls : call'[d].at \notin Holding BY <1>1 DEF OneCall
<1> QED BY <1>1, <1>2

\* Most steps of a request neither write to the store nor get a token.
LEMMA PlainCall ==
    ASSUME Typed, TokenInv, NEW c \in Calls, OneCall(c),
           UNCHANGED <<file, cached, issued, accepted, lost>>, past'.gone = past.gone,
           DOMAIN objects' = DOMAIN objects,
           \A o \in DOMAIN objects : /\ objects'[o].grant = objects[o].grant
                                     /\ objects'[o].token = objects[o].token,
           call[c].at # "granted", call'[c].at # "granted",
           call'[c].at \in Holding => call[c].at \in Holding /\ call'[c].obj = call[c].obj,
           call'[c].at = "replace" => call'[c].payload = Durable(call[c].obj),
           \A a \in Attempts : runner'[a].at \in {"save", "remember"} => runner'[a] = runner[a]
    PROVE  TokenInv'
<1> USE DEF TokenInv
<1>1. Grows BY Fields DEF Grows
<1>2. "replace" \in Holding BY DEF Holding
<1>3. call[c].at \in Holding => call[c].obj \in DOMAIN objects BY DEF HeldOK
<1>4. HeldOK' BY <1>1, <1>2, <1>3, HeldByCall
<1>5. GoneOK' BY GoneByCall DEF GoneOK
<1>6. call'[c].at = "replace" => call'[c].payload \in Pairs BY <1>2, <1>3, PairsAre
<1>7. SameTokens BY <1>1, <1>6, QuietCall DEF Carries, At
<1>8. GrantsOK' /\ AnswersOK' /\ LiveOK' BY <1>7, TokensKept
<1> QED BY <1>4, <1>5, <1>8

LEMMA TokensByPlainCalls ==
    ASSUME Typed, TokenInv, NEW c \in Calls,
           \/ Enter(c) \/ Persist(c) \/ Send(c) \/ ReplaceFails(c) \/ Denied(c)
           \/ Check(c) \/ SetPending(c) \/ Cancel(c) \/ ClearPending(c) \/ Register(c)
           \/ \E op \in Operations : Begin(c, op)
    PROVE  TokenInv'
<1> USE DEF authorization, bounds, store, spotify, At
<1>0. HeldOK /\ call[c] \in CallRecords BY Fields DEF TokenInv
<1>1. \A at \in Points : Goto(c, at) => OneCall(c) /\ call'[c].at = at
  <2>1. ASSUME NEW at \in Points, Goto(c, at)
        PROVE  OneCall(c) /\ call'[c].at = at
    <3>1. OneCall(c) /\ call'[c] = [call[c] EXCEPT !.at = at] BY <1>0, <2>1, Went
    <3> QED BY <1>0, <3>1 DEF CallRecords
  <2> QED BY <2>1
<1>2. CASE Enter(c)
  <2>1. OneCall(c) /\ call'[c].at = "load" BY <1>1, <1>2, PointsAre DEF Enter
  <2> QED BY <1>2, <2>1, PlainCall DEF Enter, Holding
<1>3. CASE Persist(c)
  <2>1. OneCall(c) /\ call[c].at = "persist" BY <1>0, <1>3, PersistMoves
  <2>2. /\ call'[c].at # "granted"
        /\ call'[c].at \in Holding => call[c].at \in Holding /\ call'[c].obj = call[c].obj
        /\ call'[c].at = "replace" => call'[c].payload = Durable(call[c].obj)
    BY <1>0, <1>3, <2>1, PersistMoves DEF Holding
  <2> QED BY <1>3, <2>1, <2>2, PlainCall DEF Persist
<1>4. CASE Send(c)
  <2>1. /\ OneCall(c) /\ call[c].at \in {"send", "api"}
        /\ call'[c].at \notin {"granted", "replace"}
        /\ call'[c].at \in Holding => call[c].at \in Holding /\ call'[c].obj = call[c].obj
    BY <1>0, <1>4, SendMoves DEF Holding
  <2> QED BY <1>4, <2>1, PlainCall DEF Send
<1>5. CASE ReplaceFails(c)
  <2>1. OneCall(c) /\ call'[c].at = "idle" BY <1>5, Finished DEF ReplaceFails, Idle
  <2> QED BY <1>5, <2>1, PlainCall DEF ReplaceFails, Holding
<1>6. CASE Denied(c)
  <2>1. OneCall(c) /\ call'[c].at = "api" /\ call'[c].obj = call[c].obj
        /\ call[c].at = "denied" /\ call[c].obj \in DOMAIN objects
    BY <1>0, <1>6, DeniedMoves
  <2>2. /\ DOMAIN objects' = DOMAIN objects
        /\ \A o \in DOMAIN objects : /\ objects'[o].grant = objects[o].grant
                                     /\ objects'[o].token = objects[o].token
    BY <1>6, <2>1, AccessChanges DEF Denied, Accesses
  <2> QED BY <1>6, <2>1, <2>2, PlainCall DEF Denied, Holding
<1>7. CASE Check(c)
  <2>1. OneCall(c) /\ call'[c].at \in {"idle", "register"}
    BY <1>1, <1>7, Finished, PointsAre DEF Check, Idle
  <2>2. past'.gone = past.gone BY <1>7 DEF Check, Typed, Histories
  <2> QED BY <1>7, <2>1, <2>2, PlainCall DEF Check, Holding
<1>8. CASE SetPending(c)
  <2>1. OneCall(c) /\ call'[c].at = "launch" BY <1>1, <1>8, PointsAre DEF SetPending
  <2> QED BY <1>8, <2>1, PlainCall DEF SetPending, Holding
<1>9. CASE Cancel(c)
  <2>1. OneCall(c) /\ call'[c].at = "unpend" BY <1>1, <1>9, PointsAre DEF Cancel
  <2>2. past'.gone = past.gone BY <1>9 DEF Cancel, Typed, Histories
  <2> QED BY <1>9, <2>1, <2>2, PlainCall DEF Cancel, Holding
<1>10. CASE ClearPending(c)
  <2>1. OneCall(c) /\ call'[c].at = "idle" BY <1>10, Finished DEF ClearPending, Idle
  <2> QED BY <1>10, <2>1, PlainCall DEF ClearPending, Holding
<1>11. CASE Register(c)
  <2>1. OneCall(c) /\ call'[c].at = "pend" BY <1>1, <1>11, PointsAre DEF Register
  <2> QED BY <1>11, <2>1, PlainCall DEF Register, Holding
<1>12. ASSUME NEW op \in Operations, Begin(c, op) PROVE TokenInv'
  <2>1. /\ OneCall(c) /\ call[c].at = "idle"
        /\ call'[c].at \in {"enter", "clear", "check", "cancel"}
    BY <1>12, BeginMoves
  <2> QED BY <1>12, <2>1, PlainCall DEF Begin, Holding
<1> QED BY <1>2, <1>3, <1>4, <1>5, <1>6, <1>7, <1>8, <1>9, <1>10, <1>11, <1>12
\* A request that writes to the store: what it puts there is what it held.
LEMMA TokensByWriters ==
    ASSUME Typed, TokenInv, NEW c \in Calls,
           \/ Load(c) \/ Replace(c) \/ Remember(c) \/ Clear(c)
    PROVE  TokenInv'
<1> USE DEF TokenInv, store, spotify, authorization, bounds
<1>0. HeldOK /\ call[c] \in CallRecords BY Fields
<1>1. \A at \in Points : Goto(c, at) =>
         OneCall(c) /\ call'[c].at = at /\ call'[c].obj = call[c].obj
  <2>1. ASSUME NEW at \in Points, Goto(c, at)
        PROVE  OneCall(c) /\ call'[c].at = at /\ call'[c].obj = call[c].obj
    <3>1. OneCall(c) /\ call'[c] = [call[c] EXCEPT !.at = at] BY <1>0, <2>1, Went
    <3> QED BY <1>0, <3>1 DEF CallRecords
  <2> QED BY <2>1
<1>2. CASE Load(c)
  <2>1. /\ OneCall(c) /\ call[c].at = "load"
        /\ UNCHANGED <<spotify, authorization, bounds, past>>
    BY <1>2, LoadMoves DEF Load, At
  <2>2. CASE /\ cached # None /\ UNCHANGED store
             /\ call'[c].at = "api" /\ call'[c].obj = cached
    <3>1. Grows BY <2>1, <2>2, Fields DEF Grows
    <3>2. cached \in DOMAIN objects BY <2>2 DEF Typed, TypeOK
    <3>3. HeldOK' BY <2>1, <2>2, <3>1, <3>2, HeldByCall
    <3>4. GoneOK' BY <2>1, <2>2, GoneByCall DEF GoneOK
    <3>5. SameTokens BY <2>1, <2>2, <3>1, QuietCall DEF Carries, At
    <3> QED BY <3>3, <3>4, <3>5, TokensKept
  <2>3. CASE /\ cached = None /\ file # None /\ file' = file
             /\ objects' = Append(objects, [grant |-> file.grant, token |-> file.token,
                                            access |-> "none"])
             /\ cached' = Len(objects) + 1
             /\ call'[c].at = "api" /\ call'[c].obj = Len(objects) + 1
    <3> DEFINE b == [grant |-> file.grant, token |-> file.token, access |-> "none"]
    <3>1. /\ b \in [grant: Nat, token: Nat, access: Accesses]
          /\ b.grant = file.grant /\ b.token = file.token
      BY <2>3, Fields DEF Tokens, Accesses
    <3> HIDE DEF b
    <3>2. objects' = Append(objects, b) BY <2>3 DEF b
    <3>3. /\ DOMAIN objects' = 1 .. Len(objects) + 1
          /\ objects'[Len(objects) + 1] = b
          /\ \A o \in DOMAIN objects : objects'[o] = objects[o]
      BY <3>1, <3>2, Fields DEF Typed
    <3>4. Grows BY <2>1, <3>3, Fields DEF Grows
    <3>5. HeldOK'
      <4>1. call'[c].obj \in DOMAIN objects' BY <2>3, <3>3, Fields
      <4> QED BY <2>1, <2>3, <3>4, <4>1, HeldByCall
    <3>6. GoneOK' BY <2>1, <2>3, GoneByCall DEF GoneOK
    <3>7. \A o \in DOMAIN objects' \ DOMAIN objects :
             file # None /\ objects'[o].grant = file.grant /\ objects'[o].token = file.token
      <4> TAKE o \in DOMAIN objects' \ DOMAIN objects
      <4>1. o = Len(objects) + 1 BY <3>3, Fields
      <4> QED BY <2>3, <3>1, <3>3, <4>1
    <3>8. ASSUME NEW d \in Calls
          PROVE  /\ Carries(d)' <=> Carries(d)
                 /\ Carries(d) => call'[d].answer = call[d].answer /\ call'[d].obj = call[d].obj
                 /\ call'[d].at = "replace" => call'[d].payload \in Pairs
      <4>1. CASE d = c BY <2>1, <2>3, <4>1 DEF Carries, At
      <4>2. CASE d # c
        <5>1. call'[d] = call[d] BY <2>1, <4>2 DEF OneCall
        <5> QED BY <5>1, PairsAre DEF Carries, At
      <4> QED BY <4>1, <4>2
    <3>9. SameTokens BY <2>1, <2>3, <3>3, <3>4, <3>7, <3>8 DEF SameTokens
    <3> QED BY <3>5, <3>6, <3>9, TokensKept
  <2>4. CASE file = None /\ UNCHANGED store /\ call'[c].at = "idle"
    BY <2>1, <2>4, PlainCall DEF Holding
  <2> QED BY <1>2, <2>2, <2>3, <2>4, LoadMoves
<1>3. CASE Replace(c)
  <2>1. OneCall(c) /\ call'[c].at = "remember" /\ call'[c].obj = call[c].obj
    BY <1>1, <1>3, PointsAre DEF Replace
  <2>2. /\ call[c].at = "replace" /\ call[c].obj \in DOMAIN objects
        /\ call[c].payload.grant = objects[call[c].obj].grant
        /\ file' = call[c].payload
        /\ UNCHANGED <<cached, objects, spotify, lock, authorization, bounds, past>>
    BY <1>3 DEF Replace, At, HeldOK, Holding
  <2>3. Grows BY <2>2, Fields DEF Grows
  <2>4. HeldOK' BY <2>1, <2>2, <2>3, HeldByCall
  <2>5. ~ past.gone BY <2>2 DEF GoneOK, Holding
  <2>6. GoneOK' BY <2>2, <2>5 DEF GoneOK
  <2>7. ASSUME NEW d \in Calls
        PROVE  /\ Carries(d)' <=> Carries(d)
               /\ Carries(d) => call'[d].answer = call[d].answer /\ call'[d].obj = call[d].obj
               /\ call'[d].at = "replace" => call'[d].payload \in Pairs
    <3>1. CASE d = c BY <2>1, <2>2, <3>1 DEF Carries, At
    <3>2. CASE d # c
      <4>1. call'[d] = call[d] BY <2>1, <3>2 DEF OneCall
      <4> QED BY <4>1, PairsAre DEF Carries, At
    <3> QED BY <3>1, <3>2
  <2>8. file' \in Pairs BY <2>2, PairsAre DEF At
  <2>9. SameTokens BY <2>2, <2>3, <2>7, <2>8 DEF SameTokens
  <2> QED BY <2>4, <2>6, <2>9, TokensKept
<1>4. CASE Remember(c)
  <2>1. /\ OneCall(c) /\ call'[c].at \in {"send", "load", "idle"}
        /\ call'[c].at = "send" => call'[c].obj = call[c].obj
    BY <1>4, Proceeded DEF Remember
  <2>2. /\ call[c].at = "remember" /\ call[c].obj \in DOMAIN objects
        /\ cached' = call[c].obj
        /\ UNCHANGED <<file, objects, spotify, authorization, bounds, past>>
    BY <1>4 DEF Remember, At, HeldOK, Holding
  <2>3. Grows BY <2>2, Fields DEF Grows
  <2>4. HeldOK' BY <2>1, <2>2, <2>3, HeldByCall DEF Holding
  <2>5. ~ past.gone BY <2>2 DEF GoneOK, Holding
  <2>6. GoneOK' BY <2>2, <2>5 DEF GoneOK
  <2>7. SameTokens BY <2>1, <2>2, <2>3, QuietCall DEF Carries, At
  <2> QED BY <2>4, <2>6, <2>7, TokensKept
<1>5. CASE Clear(c)
  <2>1. OneCall(c) /\ call'[c].at = "enter" BY <1>1, <1>5, PointsAre DEF Clear
  <2>2. /\ call[c].at = "clear" /\ file' = None /\ cached' = None
        /\ past'.gone = Alone(c)
        /\ UNCHANGED <<objects, spotify, lock, authorization, bounds>>
    BY <1>5 DEF Clear, At, Typed, Histories
  <2>3. Grows BY <2>2, Fields DEF Grows
  <2>4. HeldOK' BY <2>1, <2>2, <2>3, HeldByCall DEF Holding
  <2>5. GoneOK'
    <3>1. Alone(c) => /\ \A d \in Calls \ {c} : call[d].at \notin Holding
                      /\ \A a \in Attempts : runner[a].at # "remember"
      BY DEF Alone, Holding
    <3>2. call'[c].at \notin Holding BY <2>1 DEF Holding
    <3> QED BY <2>1, <2>2, <3>1, <3>2 DEF GoneOK, OneCall
  <2>6. SameTokens BY <2>1, <2>2, <2>3, QuietCall DEF Carries, At
  <2> QED BY <2>4, <2>5, <2>6, TokensKept
<1> QED BY <1>2, <1>3, <1>4, <1>5

\* An answer that brings a new token retires at most the one it was asked with,
\* and only the objects of its grant have that one.
LEMMA TokensByRenew ==
    ASSUME Typed, TokenInv, NEW c \in Calls, Renew(c)
    PROVE  TokenInv'
<1> USE DEF TokenInv
<1> DEFINE o == call[c].obj
<1>0. HeldOK /\ OneCall(c) /\ call[c].at = "api" /\ o \in DOMAIN objects
  BY RenewMoves DEF Renew, At, HeldOK, Holding
<1>1. UNCHANGED <<store, authorization, bounds, past>> BY DEF Renew
<1>2. CASE call'[c].at = "idle" /\ UNCHANGED spotify
  BY <1>0, <1>1, <1>2, PlainCall DEF store, spotify, authorization, Holding
<1>3. ASSUME call'[c].at = "idle" \/ (call'[c].at = "granted" /\ call'[c].obj = o),
             issued <= issued', issued' \in Nat
      PROVE  Grows /\ HeldOK' /\ GoneOK'
  <2>1. Grows BY <1>1, <1>3, Fields DEF Grows, store
  <2>2. HeldOK' BY <1>0, <1>1, <1>3, <2>1, HeldByCall DEF store, authorization, Holding
  <2>3. ~ past.gone BY <1>0 DEF GoneOK, Holding
  <2>4. GoneOK' BY <1>1, <2>3 DEF GoneOK
  <2> QED BY <2>1, <2>2, <2>4
<1>4. CASE /\ call'[c].at = "granted" /\ call'[c].obj = o
           /\ call'[c].answer = None /\ UNCHANGED spotify
  <2>1. Grows /\ HeldOK' /\ GoneOK' BY <1>3, <1>4, Fields DEF spotify
  <2>2. SameTokens
    BY <1>0, <1>1, <1>4, <2>1, QuietCall DEF Carries, At, store, spotify
  <2> QED BY <2>1, <2>2, TokensKept
<1>5. CASE /\ \/ /\ call'[c].at = "granted" /\ call'[c].obj = o
                 /\ call'[c].answer = issued' /\ UNCHANGED lost
              \/ call'[c].at = "idle" /\ lost' = lost \cup {Token(c)}
           /\ issued' = issued + 1
           /\ (accepted \ {Token(c)}) \cup {issued'} \subseteq accepted'
           /\ accepted' \subseteq accepted \cup {issued'}
  <2>0. issued \in Nat /\ issued' \in Nat /\ issued' \notin Tokens
    BY <1>5, Fields DEF Tokens
  <2>1. Grows /\ HeldOK' /\ GoneOK' BY <1>3, <1>5, <2>0
  <2>2. Pairs' \subseteq Pairs
    <3>1. \A d \in Calls : call'[d].at = "replace" => call'[d] = call[d]
      BY <1>0, <1>5 DEF OneCall
    <3>2. \A p \in DOMAIN objects : Durable(p)' = Durable(p) BY <1>1 DEF Durable, store
    <3> QED BY <1>1, <3>1, <3>2 DEF Pairs, At, store
  <2>3. GrantsOK' BY <2>2 DEF GrantsOK
  <2>4. \A d \in Calls \ {c} : call'[d] = call[d] BY <1>0 DEF OneCall
  <2>5. Durable(o) \in Pairs /\ Durable(o).token = Token(c)
    BY <1>0, PairsAre DEF Durable, Token
  <2>6. call'[c].at = "granted" <=> Carries(c)'
    BY <1>5, <2>0, SpotifyAccountAssumption DEF Carries, At
  <2>7. Carries(c)' => call'[c].obj = o /\ call'[c].answer = issued'
    BY <1>5, <2>6
  <2>8. AnswersOK'
    <3>1. \A d \in Calls \ {c} : Carries(d) =>
             call[d].answer # Token(c) /\ call[d].answer \in Tokens
      BY <1>0, <2>5, Fields DEF AnswersOK
    <3>2. \A x \in Pairs : x.token \in Tokens BY <1>0, PairsAre
    <3>3. ASSUME NEW d \in Calls, Carries(d)'
          PROVE  /\ call'[d].answer \in accepted'
                 /\ \A x \in Pairs' : x.token # call'[d].answer
                 /\ \A e \in Calls \ {d} : Carries(e)' => call'[e].answer # call'[d].answer
      <4>1. CASE d = c
        <5>1. \A e \in Calls \ {c} : Carries(e)' => call'[e].answer \in Tokens
          BY <2>4, <3>1 DEF Carries, At
        <5> QED BY <1>5, <2>0, <2>2, <2>7, <3>2, <3>3, <4>1, <5>1
      <4>2. CASE d # c
        <5>1. Carries(d) /\ call'[d] = call[d] BY <2>4, <3>3, <4>2 DEF Carries, At
        <5>2. /\ call[d].answer \in accepted'
              /\ \A x \in Pairs' : x.token # call[d].answer
          BY <1>5, <2>2, <3>1, <4>2, <5>1 DEF AnswersOK
        <5>3. ASSUME NEW e \in Calls \ {d}, Carries(e)'
              PROVE  call'[e].answer # call[d].answer
          <6>1. CASE e = c BY <2>0, <2>7, <3>1, <4>2, <5>1, <5>3, <6>1
          <6>2. CASE e # c
            <7>1. Carries(e) /\ call'[e] = call[e] BY <2>4, <5>3, <6>2 DEF Carries, At
            <7> QED BY <5>1, <5>3, <7>1 DEF AnswersOK
          <6> QED BY <6>1, <6>2
        <5> QED BY <5>1, <5>2, <5>3
      <4> QED BY <4>1, <4>2
    <3> QED BY <3>3 DEF AnswersOK
  <2>9. ASSUME NEW p \in DOMAIN objects, Sole(p) PROVE Live(p)'
    <3>1. CASE \E d \in Calls : Carries(d) /\ call[d].obj = p
      <4>1. PICK d \in Calls : Carries(d) /\ call[d].obj = p BY <3>1
      <4>2. d # c BY <1>0, <4>1 DEF Carries, At
      <4>3. Carries(d)' /\ call'[d].obj = p BY <2>4, <4>1, <4>2 DEF Carries, At
      <4> QED BY <4>3 DEF Live
    <3>2. CASE objects[p].token \in Taken
      <4>1. CASE objects[p].token = Token(c) /\ call'[c].at = "granted"
        <5>1. Durable(p) \in Pairs /\ Durable(p).token = Durable(o).token
          BY <1>0, <2>5, <4>1, PairsAre DEF Durable
        <5>2. Durable(p).grant = Durable(o).grant BY <2>5, <5>1 DEF GrantsOK
        <5>3. p = o BY <1>0, <2>9, <5>2 DEF Sole, Durable
        <5>4. Carries(c)' /\ call'[c].obj = p BY <2>6, <2>7, <4>1, <5>3
        <5> QED BY <5>4 DEF Live
      <4>2. CASE objects[p].token # Token(c) \/ call'[c].at = "idle"
        BY <1>1, <1>5, <3>2, <4>2 DEF Live, Taken, store
      <4> QED BY <1>5, <4>1, <4>2
    <3> QED BY <2>9, <3>1, <3>2 DEF LiveOK, Live
  <2>10. ASSUME file # None, \A p \in DOMAIN objects : objects[p].grant # file.grant
        PROVE  file.token \in Taken'
    <3>1. file.token \in Taken /\ file \in Pairs BY <1>0, <2>10, PairsAre DEF LiveOK
    <3>2. Durable(o).grant # file.grant BY <1>0, <2>10 DEF Durable
    <3>3. file.token # Token(c) BY <2>5, <3>1, <3>2 DEF GrantsOK
    <3> QED BY <1>5, <3>1, <3>3 DEF Taken
  <2>11. \A p \in DOMAIN objects : Sole(p)' <=> Sole(p) BY <1>1 DEF Sole, store
  <2>12. LiveOK' BY <1>1, <2>9, <2>10, <2>11 DEF LiveOK, store
  <2> QED BY <2>1, <2>3, <2>8, <2>12
<1> QED BY <1>0, <1>2, <1>4, <1>5, RenewMoves DEF Renew
\* Taking an answer in makes its token the one of the object.
LEMMA TokensByApply ==
    ASSUME Typed, TokenInv, NEW c \in Calls, Apply(c)
    PROVE  TokenInv'
<1> USE DEF TokenInv
<1> DEFINE o == call[c].obj
           y == call[c].answer
<1>0. /\ OneCall(c) /\ call[c].at = "granted" /\ o \in DOMAIN objects
      /\ call'[c].at = "persist" /\ call'[c].obj = o
      /\ DOMAIN objects' = DOMAIN objects
      /\ \A p \in DOMAIN objects :
           /\ objects'[p].grant = objects[p].grant
           /\ p # o => objects'[p].token = objects[p].token
           /\ p = o => objects'[p].token = Renewed(objects[p].token, y)
  BY ApplyMoves DEF At
<1>1. UNCHANGED <<file, cached, spotify, lock, authorization, bounds, past>> BY DEF Apply
<1>2. Grows BY <1>0, <1>1, Fields DEF Grows, spotify
<1>3. HeldOK' BY <1>0, <1>1, <1>2, HeldByCall DEF authorization
<1>4. ~ past.gone BY <1>0 DEF GoneOK, Holding
<1>5. GoneOK' BY <1>1, <1>4 DEF GoneOK
<1>6. CASE y = None
  <2>1. \A p \in DOMAIN objects : objects'[p].token = objects[p].token
    BY <1>0, <1>6 DEF Renewed
  <2>2. SameTokens BY <1>0, <1>1, <1>2, <1>6, <2>1, QuietCall DEF Carries, At, spotify
  <2> QED BY <1>3, <1>5, <2>2, TokensKept
<1>7. CASE y # None
  <2>0. Carries(c) /\ ~ Carries(c)' BY <1>0, <1>7 DEF Carries, At
  <2>1. \A d \in Calls \ {c} : call'[d] = call[d] BY <1>0 DEF OneCall
  <2>2. \A d \in Calls : Carries(d)' => Carries(d) /\ d # c /\ call'[d] = call[d]
    BY <2>0, <2>1 DEF Carries, At
  <2>3. objects'[o].token = y BY <1>0, <1>7 DEF Renewed
  <2>4. ASSUME NEW x \in Pairs'
        PROVE  x \in Pairs \/ (x.token = y /\ x.grant = objects[o].grant)
    <3>1. \/ \E p \in DOMAIN objects' : x = Durable(p)'
          \/ \E d \in Calls : call'[d].at = "replace" /\ x = call'[d].payload
          \/ x = file' /\ file' # None
      BY DEF Pairs, At
    <3>2. ASSUME NEW p \in DOMAIN objects', x = Durable(p)'
          PROVE  x \in Pairs \/ (x.token = y /\ x.grant = objects[o].grant)
      <4>1. CASE p = o BY <1>0, <2>3, <3>2, <4>1 DEF Durable
      <4>2. CASE p # o
        <5>1. x = Durable(p) /\ p \in DOMAIN objects BY <1>0, <3>2, <4>2 DEF Durable
        <5> QED BY <5>1, PairsAre
      <4> QED BY <4>1, <4>2
    <3>3. ASSUME NEW d \in Calls, call'[d].at = "replace", x = call'[d].payload
          PROVE  x \in Pairs
      <4>1. d # c BY <1>0, <3>3
      <4>2. At(d, "replace") /\ x = call[d].payload BY <2>1, <3>3, <4>1 DEF At
      <4> QED BY <4>2, PairsAre
    <3>4. ASSUME x = file', file' # None PROVE x \in Pairs BY <1>1, <3>4, PairsAre
    <3> QED BY <3>1, <3>2, <3>3, <3>4
  <2>5. /\ y \in accepted /\ \A x \in Pairs : x.token # y
        /\ \A d \in Calls \ {c} : Carries(d) => call[d].answer # y
    BY <2>0 DEF AnswersOK
  <2>6. GrantsOK' BY <2>4, <2>5 DEF GrantsOK
  <2>7. AnswersOK'
    <3>1. ASSUME NEW d \in Calls, Carries(d)'
          PROVE  /\ call'[d].answer \in accepted'
                 /\ \A x \in Pairs' : x.token # call'[d].answer
                 /\ \A e \in Calls \ {d} : Carries(e)' => call'[e].answer # call'[d].answer
      <4>1. Carries(d) /\ d # c /\ call'[d] = call[d] BY <2>2, <3>1
      <4>2. \A x \in Pairs' : x.token # call[d].answer BY <2>4, <2>5, <4>1 DEF AnswersOK
      <4>3. \A e \in Calls \ {d} : Carries(e)' => call'[e].answer # call[d].answer
        BY <2>2, <4>1 DEF AnswersOK
      <4> QED BY <1>1, <4>1, <4>2, <4>3 DEF AnswersOK, spotify
    <3> QED BY <3>1 DEF AnswersOK
  <2>8. ASSUME NEW p \in DOMAIN objects, Sole(p) PROVE Live(p)'
    <3>1. CASE p = o BY <1>1, <2>3, <2>5, <3>1 DEF Live, Taken, spotify
    <3>2. CASE p # o
      <4>1. Live(p) BY <2>8 DEF LiveOK
      <4>2. ASSUME NEW d \in Calls, Carries(d), call[d].obj = p
            PROVE  Carries(d)' /\ call'[d].obj = p
        <5>1. call'[d] = call[d] BY <2>1, <3>2, <4>2
        <5> QED BY <4>2, <5>1 DEF Carries, At
      <4> QED BY <1>0, <1>1, <3>2, <4>1, <4>2 DEF Live, Taken, spotify
    <3> QED BY <3>1, <3>2
  <2>9. \A p \in DOMAIN objects : Sole(p)' <=> Sole(p) BY <1>0 DEF Sole
  <2>10. LiveOK' BY <1>0, <1>1, <2>8, <2>9 DEF LiveOK, Taken, spotify
  <2> QED BY <1>3, <1>5, <2>6, <2>7, <2>10
<1> QED BY <1>6, <1>7

\* A step that moves no request and no token.
LEMMA PlainRunner ==
    ASSUME Typed, TokenInv, UNCHANGED <<file, cached, issued, accepted, lost, call>>,
           past'.gone = past.gone, DOMAIN objects' = DOMAIN objects,
           \A o \in DOMAIN objects : /\ objects'[o].grant = objects[o].grant
                                     /\ objects'[o].token = objects[o].token,
           \A a \in Attempts : runner'[a].at \in {"save", "remember"} => runner'[a] = runner[a]
    PROVE  TokenInv'
<1> USE DEF TokenInv
<1>1. Grows BY Fields DEF Grows
<1>2. HeldOK' BY DEF HeldOK, At, Tokens, Holding
<1>3. GoneOK' BY DEF GoneOK
<1>4. \A d \in Calls : call[d].at = "replace" => call[d].payload \in Pairs
  BY PairsAre DEF At
<1>5. SameTokens BY <1>1, <1>4 DEF SameTokens, Carries, At
<1> QED BY <1>2, <1>3, <1>5, TokensKept

LEMMA TokensByPlainRunners ==
    ASSUME Typed, TokenInv,
           \/ \E a \in Attempts :
                \/ Bind(a) \/ Callback(a) \/ TimeOut(a) \/ Consume(a) \/ Conclude(a)
           \/ \E o \in DOMAIN objects : Wear(o)
    PROVE  TokenInv'
<1> USE DEF store, spotify, bounds, authorization
<1>1. ASSUME NEW a \in Attempts, NEW at \in Stages, RunnerGoes(a, at),
             at \notin {"save", "remember"}
      PROVE  \A b \in Attempts : runner'[b].at \in {"save", "remember"} => runner'[b] = runner[b]
  <2>1. runner[a] \in RunnerRecords BY Fields
  <2>2. /\ runner'[a] = [runner[a] EXCEPT !.at = at]
        /\ \A b \in Attempts \ {a} : runner'[b] = runner[b]
    BY <1>1, RunnerWent
  <2>3. runner'[a].at = at BY <2>1, <2>2 DEF RunnerRecords
  <2> QED BY <1>1, <2>2, <2>3
<1>2. ASSUME NEW a \in Attempts, Bind(a) PROVE TokenInv'
  BY <1>1, <1>2, PlainRunner DEF Bind, Stages
<1>3. ASSUME NEW a \in Attempts, Callback(a) PROVE TokenInv'
  BY <1>1, <1>3, PlainRunner DEF Callback, Stages
<1>4. ASSUME NEW a \in Attempts, TimeOut(a) PROVE TokenInv'
  BY <1>1, <1>4, PlainRunner DEF TimeOut, Stages
<1>5. ASSUME NEW a \in Attempts, Consume(a) PROVE TokenInv'
  BY <1>1, <1>5, PlainRunner DEF Consume, Stages
<1>6. ASSUME NEW a \in Attempts, Conclude(a) PROVE TokenInv'
  BY <1>1, <1>6, PlainRunner DEF Conclude, Stages
<1>7. ASSUME NEW o \in DOMAIN objects, Wear(o) PROVE TokenInv'
  <2>1. PICK x \in Accesses : objects' = [objects EXCEPT ![o].access = x]
    BY <1>7 DEF Wear, Accesses
  <2>2. /\ DOMAIN objects' = DOMAIN objects
        /\ \A p \in DOMAIN objects : /\ objects'[p].grant = objects[p].grant
                                     /\ objects'[p].token = objects[p].token
    BY <2>1, AccessChanges
  <2> QED BY <1>7, <2>2, PlainRunner DEF Wear
<1> QED BY <1>2, <1>3, <1>4, <1>5, <1>6, <1>7

\* The authorization thread brings a grant nobody has seen, and stores it.
LEMMA TokensByAuthorization ==
    ASSUME Typed, TokenInv, NEW a \in Attempts,
           Exchange(a) \/ Save(a) \/ RememberNew(a)
    PROVE  TokenInv'
<1> USE DEF TokenInv, store, spotify, bounds
<1>0. runner[a] \in RunnerRecords BY Fields
<1>1. ASSUME NEW at \in Stages, RunnerGoes(a, at)
      PROVE  /\ runner'[a].at = at /\ runner'[a].obj = runner[a].obj
             /\ \A b \in Attempts \ {a} : runner'[b] = runner[b]
  <2>1. /\ runner'[a] = [runner[a] EXCEPT !.at = at]
        /\ \A b \in Attempts \ {a} : runner'[b] = runner[b]
    BY <1>1, RunnerWent
  <2>2. runner'[a].at = at /\ runner'[a].obj = runner[a].obj
    BY <1>0, <2>1 DEF RunnerRecords
  <2> QED BY <2>1, <2>2
<1>2. ASSUME RunnerGoes(a, "failed")
      PROVE  \A b \in Attempts : runner'[b].at \in {"save", "remember"} => runner'[b] = runner[b]
  BY <1>1, <1>2 DEF Stages
<1>3. CASE Exchange(a) /\ RunnerGoes(a, "failed") /\ UNCHANGED <<spotify, objects>>
  <2>1. past'.gone = past.gone BY <1>3 DEF Exchange, Typed, Histories
  <2> QED BY <1>2, <1>3, <2>1, PlainRunner DEF Exchange
<1>4. CASE /\ Exchange(a)
           /\ issued' = issued + 1
           /\ accepted' = accepted \cup {issued'}
           /\ objects' = Append(objects, [grant |-> issued', token |-> issued',
                                          access |-> "good"])
           /\ runner' = [runner EXCEPT ![a] = [at |-> "save", obj |-> Len(objects')]]
  <2> DEFINE n == Len(objects) + 1
             b == [grant |-> issued', token |-> issued', access |-> "good"]
  <2>0. /\ issued \in Nat /\ issued' \in Nat /\ issued' \notin Tokens
        /\ Tokens \subseteq Tokens' /\ issued <= issued'
    BY <1>4, Fields DEF Tokens
  <2>1. /\ b \in [grant: Nat, token: Nat, access: Accesses]
        /\ b.grant = issued' /\ b.token = issued'
    BY <2>0 DEF Accesses
  <2>2. objects' = Append(objects, b) BY <1>4
  <2> HIDE DEF b
  <2>3. /\ DOMAIN objects' = 1 .. n /\ Len(objects') = n /\ objects'[n] = b
        /\ n \notin DOMAIN objects /\ n \in DOMAIN objects'
        /\ \A o \in DOMAIN objects' : o \in DOMAIN objects \/ o = n
        /\ \A o \in DOMAIN objects : objects'[o] = objects[o] /\ o \in DOMAIN objects'
    BY <2>1, <2>2, Fields DEF Typed
  <2>4. /\ UNCHANGED <<file, cached, lost, lock, call, attempt, thread, pending, bounds>>
        /\ past'.gone = past.gone
    BY <1>4 DEF Exchange, Typed, Histories
  <2>5. HeldOK'
    <3>1. runner'[a].obj = n /\ \A d \in Attempts \ {a} : runner'[d] = runner[d]
      BY <1>4, <2>3 DEF Typed
    <3>2. \A d \in Attempts :
            runner'[d].at \in {"save", "remember"} => runner'[d].obj \in DOMAIN objects'
      BY <2>3, <3>1 DEF HeldOK
    <3>3. ASSUME NEW c \in Calls
          PROVE  /\ call'[c].at \in Holding => call'[c].obj \in DOMAIN objects'
                 /\ call'[c].at = "replace" =>
                      /\ call'[c].payload \in [grant: Tokens', token: Tokens']
                      /\ call'[c].payload.grant = objects'[call'[c].obj].grant
      <4>1. call[c].at = "replace" => call[c].at \in Holding BY DEF Holding
      <4>2. /\ call[c].at \in Holding => call[c].obj \in DOMAIN objects
            /\ call[c].at = "replace" =>
                 /\ call[c].payload \in [grant: Tokens, token: Tokens]
                 /\ call[c].payload.grant = objects[call[c].obj].grant
        BY DEF HeldOK, At
      <4> QED BY <2>0, <2>3, <2>4, <4>1, <4>2
    <3> QED BY <3>2, <3>3 DEF HeldOK, At, Tokens
  <2>6. GoneOK'
    <3>1. runner'[a].at = "save" /\ \A d \in Attempts \ {a} : runner'[d] = runner[d]
      BY <1>4 DEF Typed
    <3> QED BY <2>4, <3>1 DEF GoneOK
  <2>7. ASSUME NEW x \in Pairs'
        PROVE  x \in Pairs \/ (x.token = issued' /\ x.grant = issued')
    <3>1. \/ \E p \in DOMAIN objects' : x = Durable(p)'
          \/ \E d \in Calls : call'[d].at = "replace" /\ x = call'[d].payload
          \/ x = file' /\ file' # None
      BY DEF Pairs, At
    <3>2. ASSUME NEW p \in DOMAIN objects', x = Durable(p)'
          PROVE  x \in Pairs \/ (x.token = issued' /\ x.grant = issued')
      <4>1. CASE p = n BY <2>1, <2>3, <3>2, <4>1 DEF Durable
      <4>2. CASE p # n
        <5>1. x = Durable(p) /\ p \in DOMAIN objects BY <2>3, <3>2, <4>2 DEF Durable
        <5> QED BY <5>1, PairsAre
      <4> QED BY <4>1, <4>2
    <3>3. ASSUME NEW d \in Calls, call'[d].at = "replace", x = call'[d].payload
          PROVE  x \in Pairs
      BY <2>4, <3>3, PairsAre DEF At
    <3>4. ASSUME x = file', file' # None PROVE x \in Pairs BY <2>4, <3>4, PairsAre
    <3> QED BY <3>1, <3>2, <3>3, <3>4
  <2>8. \A x \in Pairs : x.token \in Tokens BY PairsAre
  <2>9. GrantsOK' BY <2>0, <2>7, <2>8 DEF GrantsOK
  <2>10. AnswersOK'
    <3>1. ASSUME NEW c \in Calls, Carries(c)'
          PROVE  /\ call'[c].answer \in accepted'
                 /\ \A x \in Pairs' : x.token # call'[c].answer
                 /\ \A d \in Calls \ {c} : Carries(d)' => call'[d].answer # call'[c].answer
      <4>1. Carries(c) /\ call' = call BY <2>4, <3>1 DEF Carries, At
      <4>2. call[c].answer \in accepted /\ call[c].answer \in Tokens
        BY <4>1, Fields DEF AnswersOK
      <4>3. \A x \in Pairs' : x.token # call[c].answer
        BY <2>0, <2>7, <4>1, <4>2 DEF AnswersOK
      <4>4. \A d \in Calls \ {c} : Carries(d)' => call[d].answer # call[c].answer
        BY <4>1 DEF AnswersOK, Carries, At
      <4> QED BY <1>4, <4>1, <4>2, <4>3, <4>4
    <3> QED BY <3>1 DEF AnswersOK
  <2>11. ASSUME NEW o \in DOMAIN objects', Sole(o)' PROVE Live(o)'
    <3>1. CASE o = n BY <1>4, <2>1, <2>3, <3>1 DEF Live, Taken
    <3>2. CASE o # n
      <4>1. o \in DOMAIN objects /\ Sole(o) BY <2>3, <2>11, <3>2 DEF Sole
      <4>2. Live(o) BY <4>1 DEF LiveOK
      <4> QED BY <1>4, <2>3, <2>4, <4>1, <4>2 DEF Live, Taken, Carries, At
    <3> QED BY <3>1, <3>2
  <2>12. ASSUME file' # None, \A o \in DOMAIN objects' : objects'[o].grant # file'.grant
         PROVE  file'.token \in Taken'
    <3>1. \A o \in DOMAIN objects : objects[o].grant # file.grant BY <2>3, <2>4, <2>12
    <3> QED BY <1>4, <2>4, <2>12, <3>1 DEF LiveOK, Taken
  <2>13. LiveOK' BY <2>11, <2>12 DEF LiveOK
  <2> QED BY <2>5, <2>6, <2>9, <2>10, <2>13
<1>5. CASE Save(a) /\ RunnerGoes(a, "failed") /\ UNCHANGED <<file, past>>
  BY <1>2, <1>5, PlainRunner DEF Save
<1>6. CASE /\ Save(a) /\ file' = Durable(runner[a].obj) /\ RunnerGoes(a, "remember")
           /\ past' = [past EXCEPT !.gone = FALSE, !.removed = FALSE,
                                   !.connected = objects[runner[a].obj].grant]
  <2> DEFINE o == runner[a].obj
  <2>1. o \in DOMAIN objects BY <1>6 DEF Save, RunnerAt, HeldOK
  <2>2. UNCHANGED <<cached, objects, spotify, lock, call, attempt, thread, pending, asked>>
    BY <1>6 DEF Save
  <2>3. ~ past'.gone BY <1>6 DEF Typed, Histories
  <2>4. GoneOK' BY <2>3 DEF GoneOK
  <2>5. /\ runner'[a].obj = o /\ \A d \in Attempts \ {a} : runner'[d] = runner[d]
    BY <1>1, <1>6 DEF Stages
  <2>6. HeldOK'
    <3>1. \A d \in Attempts :
            runner'[d].at \in {"save", "remember"} => runner'[d].obj \in DOMAIN objects
      BY <2>1, <2>5 DEF HeldOK
    <3> QED BY <2>2, <3>1 DEF HeldOK, At, Tokens
  <2>7. /\ file' \in Pairs /\ objects[o].grant = file'.grant
    BY <1>6, <2>1, PairsAre DEF Durable
  <2>8. \A d \in Calls : call[d].at = "replace" => call[d].payload \in Pairs
    BY PairsAre DEF At
  <2>9. SameTokens BY <2>1, <2>2, <2>7, <2>8, Fields DEF SameTokens, Grows, Carries, At
  <2> QED BY <2>4, <2>6, <2>9, TokensKept
<1>7. CASE RememberNew(a)
  <2>1. /\ RunnerAt(a, "remember") /\ RunnerGoes(a, "connected") /\ call' = call
        /\ UNCHANGED <<file, objects, spotify, lock, bounds, past>>
    BY <1>7 DEF RememberNew
  <2>2. ~ past.gone BY <2>1 DEF GoneOK, RunnerAt
  <2>3. GoneOK' BY <2>1, <2>2 DEF GoneOK
  <2>4. /\ runner'[a].at = "connected" /\ \A d \in Attempts \ {a} : runner'[d] = runner[d]
    BY <1>1, <2>1 DEF Stages
  <2>5. HeldOK'
    <3>1. \A d \in Attempts :
            runner'[d].at \in {"save", "remember"} => runner'[d].obj \in DOMAIN objects
      BY <2>4 DEF HeldOK
    <3> QED BY <2>1, <3>1 DEF HeldOK, At, Tokens
  <2>6. \A d \in Calls : call[d].at = "replace" => call[d].payload \in Pairs
    BY PairsAre DEF At
  <2>7. SameTokens BY <2>1, <2>6, Fields DEF SameTokens, Grows, Carries, At
  <2> QED BY <2>3, <2>5, <2>7, TokensKept
<1> QED BY <1>3, <1>4, <1>5, <1>6, <1>7 DEF Exchange, Save
-----------------------------------------------------------------------------
(* The attempts.                                                            *)

\* Past the exchange of its code.
Later == {"save", "remember", "failed", "connected", "ended"}

\* A request that is not about to start or cancel an attempt, or only moves on.
LEMMA AttemptsByCall ==
    ASSUME Typed, StartsOK, AttemptsOK, NEW c \in Calls, OneCall(c),
           UNCHANGED <<attempt, runner, asked>>,
           past'.cancelled = past.cancelled, past'.exchanged = past.exchanged,
           call'[c].at \in Starting =>
              call[c].at \in Starting /\ call'[c].mine = call[c].mine,
           call'[c].at \in {"check", "register"} => call[c].at \in {"check", "register"}
    PROVE  StartsOK' /\ AttemptsOK'
<1>1. \A d \in Calls :
        /\ call'[d].at \in Starting => call[d].at \in Starting /\ call'[d].mine = call[d].mine
        /\ call'[d].at \in {"check", "register"} => call[d].at \in {"check", "register"}
  BY DEF OneCall
<1>2. ASSUME NEW d \in Calls, call'[d].at \in Starting
      PROVE  /\ call'[d].mine \in 1 .. asked'.attempts /\ runner'[call'[d].mine].at = "none"
             /\ call'[d].at \in {"check", "register"} =>
                   attempt' # call'[d].mine /\ call'[d].mine \notin past'.cancelled
             /\ \A e \in Calls \ {d} :
                   call'[e].at \in Starting => call'[e].mine # call'[d].mine
  BY <1>1, <1>2 DEF StartsOK
<1>3. StartsOK' BY <1>2 DEF StartsOK
<1>4. AttemptsOK' BY DEF AttemptsOK
<1> QED BY <1>3, <1>4

LEMMA AttemptsByCalls ==
    ASSUME Typed, HeldOK, StartsOK, AttemptsOK, NEW c \in Calls,
           \/ Enter(c) \/ Load(c) \/ Renew(c) \/ Apply(c) \/ Persist(c) \/ Replace(c)
           \/ Remember(c) \/ Send(c) \/ Denied(c) \/ Clear(c) \/ Check(c) \/ SetPending(c)
           \/ ClearPending(c) \/ ReplaceFails(c)
    PROVE  StartsOK' /\ AttemptsOK'
<1> USE DEF authorization, bounds, At, Holding, Starting
<1>0. call[c] \in CallRecords BY Fields
<1>1. ASSUME NEW at \in Points, Goto(c, at)
      PROVE  OneCall(c) /\ call'[c].at = at /\ call'[c].mine = call[c].mine
  <2>1. OneCall(c) /\ call'[c] = [call[c] EXCEPT !.at = at] BY <1>1, Went
  <2> QED BY <1>0, <2>1 DEF CallRecords
<1>2. Finish(c) => OneCall(c) /\ call'[c].at = "idle" BY Finished DEF Idle
<1>3. CASE Enter(c) BY <1>1, <1>3, PointsAre, AttemptsByCall DEF Enter
<1>4. CASE Load(c) BY <1>4, LoadMoves, AttemptsByCall DEF Load
<1>5. CASE Renew(c) BY <1>5, RenewMoves, AttemptsByCall DEF Renew
<1>6. CASE Apply(c) BY <1>6, ApplyMoves, AttemptsByCall DEF Apply
<1>7. CASE Persist(c) BY <1>7, PersistMoves, AttemptsByCall DEF Persist
<1>8. CASE Replace(c) BY <1>1, <1>8, PointsAre, AttemptsByCall DEF Replace
<1>9. CASE Remember(c) BY <1>9, Proceeded, AttemptsByCall DEF Remember
<1>10. CASE Send(c) BY <1>10, SendMoves, AttemptsByCall DEF Send
<1>11. CASE Denied(c) BY <1>11, DeniedMoves, AttemptsByCall DEF Denied
<1>12. CASE Clear(c)
  <2>1. past'.cancelled = past.cancelled /\ past'.exchanged = past.exchanged
    BY <1>12 DEF Clear, Typed, Histories
  <2> QED BY <1>1, <1>12, <2>1, PointsAre, AttemptsByCall DEF Clear
<1>13. CASE Check(c)
  <2>1. past'.cancelled = past.cancelled /\ past'.exchanged = past.exchanged
    BY <1>13 DEF Check, Typed, Histories
  <2>2. OneCall(c) /\ (call'[c].at = "idle" \/ (call'[c].at = "register" /\ call'[c].mine = call[c].mine))
    BY <1>1, <1>2, <1>13, PointsAre DEF Check
  <2> QED BY <1>13, <2>1, <2>2, AttemptsByCall DEF Check
<1>14. CASE SetPending(c) BY <1>1, <1>14, PointsAre, AttemptsByCall DEF SetPending
<1>15. CASE ClearPending(c) BY <1>2, <1>15, AttemptsByCall DEF ClearPending
<1>16. CASE ReplaceFails(c) BY <1>2, <1>16, AttemptsByCall DEF ReplaceFails
<1> QED BY <1>3, <1>4, <1>5, <1>6, <1>7, <1>8, <1>9, <1>10, <1>11, <1>12, <1>13, <1>14,
           <1>15, <1>16

\* A start gets an attempt nobody had before.
LEMMA AttemptsByBegin ==
    ASSUME Typed, StartsOK, AttemptsOK, NEW c \in Calls, NEW op \in Operations, Begin(c, op)
    PROVE  StartsOK' /\ AttemptsOK'
<1>1. /\ OneCall(c) /\ asked.attempts \in Nat /\ asked'.attempts \in Nat
      /\ asked'.attempts >= asked.attempts
      /\ call'[c].at \in {"enter", "clear", "check", "cancel"}
      /\ call'[c].at = "check" => /\ asked.attempts + 1 \in Attempts
                                  /\ call'[c].mine = asked.attempts + 1
                                  /\ asked'.attempts = asked.attempts + 1
  BY BeginMoves, SpotifyAccountAssumption DEF Typed, Attempts
<1>2. UNCHANGED <<attempt, runner, past>> BY DEF Begin, authorization
<1>3. AttemptsOK' BY <1>1, <1>2 DEF AttemptsOK
<1>4. ASSUME NEW d \in Calls, call'[d].at \in Starting
      PROVE  /\ call'[d].mine \in 1 .. asked'.attempts /\ runner'[call'[d].mine].at = "none"
             /\ call'[d].at \in {"check", "register"} =>
                   attempt' # call'[d].mine /\ call'[d].mine \notin past'.cancelled
             /\ \A e \in Calls \ {d} :
                   call'[e].at \in Starting => call'[e].mine # call'[d].mine
  <2>1. \A e \in Calls \ {c} : call'[e] = call[e] BY <1>1 DEF OneCall
  <2>2. CASE d = c
    <3>1. call'[c].at = "check" BY <1>1, <1>4, <2>2 DEF Starting
    <3>2. /\ asked.attempts + 1 \notin 1 .. asked.attempts
          /\ asked.attempts + 1 \in 1 .. asked'.attempts
      BY <1>1, <3>1
    <3>3. /\ attempt # asked.attempts + 1 /\ asked.attempts + 1 \notin past.cancelled
          /\ runner[asked.attempts + 1].at = "none"
      BY <1>1, <3>1, <3>2, SpotifyAccountAssumption DEF AttemptsOK
    <3>4. \A e \in Calls \ {c} : call'[e].at \in Starting => call'[e].mine \in 1 .. asked.attempts
      BY <2>1 DEF StartsOK
    <3> QED BY <1>1, <1>2, <2>2, <3>1, <3>2, <3>3, <3>4
  <2>3. CASE d # c
    <3>1. call'[d] = call[d] BY <2>1, <2>3
    <3>2. call'[c].at \in Starting => call'[c].mine \notin 1 .. asked.attempts
      BY <1>1 DEF Starting
    <3> QED BY <1>1, <1>2, <1>4, <2>1, <2>3, <3>1, <3>2 DEF StartsOK
  <2> QED BY <2>2, <2>3
<1> QED BY <1>3, <1>4 DEF StartsOK

LEMMA AttemptsByRegistry ==
    ASSUME Typed, StartsOK, AttemptsOK, NEW c \in Calls,
           Register(c) \/ Launch(c) \/ Cancel(c)
    PROVE  StartsOK' /\ AttemptsOK'
<1> USE DEF At, bounds
<1>0. /\ call[c] \in CallRecords /\ asked.attempts \in 0 .. MaxAttempts
      /\ 1 .. asked.attempts \subseteq Attempts
  BY Fields, SpotifyAccountAssumption DEF Typed, Attempts
<1>1. ASSUME NEW at \in Points, Goto(c, at)
      PROVE  OneCall(c) /\ call'[c].at = at /\ call'[c].mine = call[c].mine
  <2>1. OneCall(c) /\ call'[c] = [call[c] EXCEPT !.at = at] BY <1>1, Went
  <2> QED BY <1>0, <2>1 DEF CallRecords
<1>2. CASE Register(c)
  <2> DEFINE m == call[c].mine
  <2>1. OneCall(c) /\ call'[c].at = "pend" /\ call'[c].mine = m
    BY <1>1, <1>2, PointsAre DEF Register
  <2>2. /\ call[c].at = "register" /\ attempt' = m /\ UNCHANGED <<runner, asked, past>>
    BY <1>2 DEF Register
  <2>3. /\ m \in 1 .. asked.attempts /\ runner[m].at = "none" /\ m \notin past.cancelled
        /\ \A d \in Calls \ {c} : call[d].at \in Starting => call[d].mine # m
    BY <2>2 DEF StartsOK, Starting
  <2>4. m \notin past.exchanged BY <1>0, <2>3 DEF AttemptsOK
  <2>5. AttemptsOK' BY <2>2, <2>3, <2>4 DEF AttemptsOK
  <2>6. \A d \in Calls : /\ call'[d].mine = call[d].mine
                         /\ call'[d].at \in Starting => call[d].at \in Starting
                         /\ d # c => call'[d].at = call[d].at
    BY <2>1, <2>2 DEF OneCall, Starting
  <2>7. StartsOK' BY <2>1, <2>2, <2>3, <2>6 DEF StartsOK, Starting
  <2> QED BY <2>5, <2>7
<1>3. CASE Launch(c)
  <2> DEFINE m == call[c].mine
  <2>1. OneCall(c) /\ call'[c].at = "idle" BY <1>3, Finished DEF Launch, Idle
  <2>2. /\ call[c].at = "launch" /\ UNCHANGED <<attempt, asked, past>>
        /\ runner' = [runner EXCEPT ![m].at = "bind"]
    BY <1>3 DEF Launch
  <2>3. /\ m \in 1 .. asked.attempts /\ m \in Attempts /\ runner[m].at = "none"
        /\ \A d \in Calls \ {c} : call[d].at \in Starting => call[d].mine # m
    BY <1>0, <2>2 DEF StartsOK, Starting
  <2>4. /\ runner'[m].at = "bind" /\ \A b \in Attempts \ {m} : runner'[b] = runner[b]
    <3>1. runner[m] \in RunnerRecords BY <2>3, Fields
    <3>2. /\ runner'[m] = [runner[m] EXCEPT !.at = "bind"]
          /\ \A b \in Attempts \ {m} : runner'[b] = runner[b]
      BY <2>2, <2>3, RunnerWent DEF RunnerGoes, Stages
    <3> QED BY <3>1, <3>2 DEF RunnerRecords
  <2>5. AttemptsOK'
    <3>1. /\ attempt # None => runner'[attempt].at # "exchange"
      BY <2>3, <2>4 DEF AttemptsOK, Typed, TypeOK
    <3>2. \A a \in Attempts :
            /\ runner'[a].at # "none" => a \in 1 .. asked.attempts
            /\ runner'[a].at = "exchange" => a \notin past.cancelled
            /\ a \in past.exchanged => runner'[a].at \in Later
      BY <2>3, <2>4 DEF AttemptsOK, Later
    <3> QED BY <2>2, <3>1, <3>2 DEF AttemptsOK, Later
  <2>6. \A d \in Calls : call'[d].at \in Starting => d # c /\ call'[d] = call[d]
    BY <2>1 DEF OneCall, Starting
  <2>7. StartsOK'
    <3>1. ASSUME NEW d \in Calls, call'[d].at \in Starting
          PROVE  /\ call'[d].mine \in 1 .. asked'.attempts
                 /\ runner'[call'[d].mine].at = "none"
                 /\ call'[d].at \in {"check", "register"} =>
                       attempt' # call'[d].mine /\ call'[d].mine \notin past'.cancelled
                 /\ \A e \in Calls \ {d} :
                       call'[e].at \in Starting => call'[e].mine # call'[d].mine
      <4>1. d # c /\ call'[d] = call[d] BY <2>6, <3>1
      <4>2. /\ call[d].mine \in 1 .. asked.attempts /\ call[d].mine # m
            /\ runner[call[d].mine].at = "none"
        BY <2>3, <3>1, <4>1 DEF StartsOK
      <4>3. runner'[call[d].mine].at = "none" BY <1>0, <2>4, <4>2
      <4> QED BY <2>2, <2>6, <3>1, <4>1, <4>2, <4>3 DEF StartsOK
    <3> QED BY <3>1 DEF StartsOK
  <2> QED BY <2>5, <2>7
<1>4. CASE Cancel(c)
  <2>1. OneCall(c) /\ call'[c].at = "unpend" BY <1>1, <1>4, PointsAre DEF Cancel
  <2>2. /\ attempt' = None /\ UNCHANGED <<runner, asked>>
        /\ past'.cancelled = past.cancelled \cup ({attempt} \ {None})
        /\ past'.exchanged = past.exchanged
    BY <1>4 DEF Cancel, Typed, Histories
  <2>3. AttemptsOK'
    <3>1. \A a \in past'.cancelled : a \in past.cancelled \/ (a = attempt /\ attempt # None)
      BY <2>2
    <3> QED BY <2>2, <3>1 DEF AttemptsOK
  <2>4. \A d \in Calls : call'[d].at \in Starting => d # c /\ call'[d] = call[d]
    BY <2>1 DEF OneCall, Starting
  <2>5. StartsOK'
    <3>1. ASSUME NEW d \in Calls, call'[d].at \in Starting
          PROVE  /\ call'[d].mine \in 1 .. asked'.attempts
                 /\ runner'[call'[d].mine].at = "none"
                 /\ call'[d].at \in {"check", "register"} =>
                       attempt' # call'[d].mine /\ call'[d].mine \notin past'.cancelled
                 /\ \A e \in Calls \ {d} :
                       call'[e].at \in Starting => call'[e].mine # call'[d].mine
      <4>1. call'[d] = call[d] /\ call[d].mine \in Nat /\ None \notin Nat
        BY <2>4, <3>1, Fields DEF CallRecords
      <4> QED BY <2>2, <2>4, <3>1, <4>1 DEF StartsOK
    <3> QED BY <3>1 DEF StartsOK
  <2> QED BY <2>3, <2>5
<1> QED BY <1>2, <1>3, <1>4

\* The thread of an attempt goes to the exchange only from the registry, which
\* then has given the attempt up.
LEMMA AttemptsByRunner ==
    ASSUME Typed, StartsOK, AttemptsOK, NEW a \in Attempts, call' = call, asked' = asked,
           past'.cancelled = past.cancelled,
           runner[a].at # "none", runner'[a].at # "none",
           \A b \in Attempts \ {a} : runner'[b] = runner[b],
           attempt' \in {attempt, None},
           past'.exchanged \subseteq past.exchanged \cup {a},
           runner'[a].at = "exchange" => attempt = a /\ attempt' = None,
           a \in past'.exchanged =>
              (a \in past.exchanged \/ runner[a].at = "exchange") /\ runner'[a].at \in Later
    PROVE  StartsOK' /\ AttemptsOK'
<1>1. \A b \in Attempts : runner[b].at = "none" => runner'[b].at = "none" OBVIOUS
<1>2. 1 .. asked.attempts \subseteq Attempts
  BY SpotifyAccountAssumption DEF Typed, Attempts
<1>3. None \notin Nat /\ \A d \in Calls : call[d].mine \in Nat
  BY Fields DEF CallRecords
<1>4. ASSUME NEW d \in Calls, call[d].at \in Starting
      PROVE  /\ call[d].mine \in 1 .. asked.attempts /\ runner'[call[d].mine].at = "none"
             /\ call[d].at \in {"check", "register"} =>
                   attempt' # call[d].mine /\ call[d].mine \notin past.cancelled
             /\ \A e \in Calls \ {d} :
                   call[e].at \in Starting => call[e].mine # call[d].mine
  BY <1>1, <1>2, <1>3, <1>4 DEF StartsOK
<1>5. StartsOK' BY <1>4 DEF StartsOK
<1>6. a \in 1 .. asked.attempts BY DEF AttemptsOK
<1>7. a \in past'.exchanged => a \notin past.cancelled
  BY DEF AttemptsOK, Later
<1>8. attempt' # None =>
        /\ attempt' = attempt /\ attempt \in 1 .. asked.attempts
        /\ attempt \notin past.cancelled \cup past'.exchanged
        /\ runner'[attempt].at # "exchange"
  <2> SUFFICES ASSUME attempt' # None
               PROVE  /\ attempt' = attempt /\ attempt \in 1 .. asked.attempts
                      /\ attempt \notin past.cancelled \cup past'.exchanged
                      /\ runner'[attempt].at # "exchange"
    OBVIOUS
  <2>1. /\ attempt' = attempt /\ attempt \in 1 .. asked.attempts /\ attempt # None
        /\ attempt \notin past.cancelled \cup past.exchanged /\ attempt \in Attempts
        /\ runner[attempt].at # "exchange"
    BY <1>2 DEF AttemptsOK
  <2>2. runner'[attempt].at # "exchange" BY <2>1
  <2>3. ASSUME attempt \in past'.exchanged PROVE FALSE
    <3>1. attempt = a BY <2>1, <2>3
    <3> QED BY <2>1, <2>3, <3>1
  <2> QED BY <2>1, <2>2, <2>3
<1>9. \A b \in Attempts :
        /\ runner'[b].at # "none" => b \in 1 .. asked.attempts
        /\ runner'[b].at = "exchange" => b \notin past.cancelled
        /\ b \in past'.exchanged => b \notin past.cancelled /\ runner'[b].at \in Later
  BY <1>6, <1>7, <1>2, <1>3 DEF AttemptsOK, Later
<1>10. AttemptsOK' BY <1>8, <1>9 DEF AttemptsOK, Later
<1> QED BY <1>5, <1>10
LEMMA AttemptsByRunners ==
    ASSUME Typed, StartsOK, AttemptsOK, NEW a \in Attempts, RunnerStep(a) \/ Callback(a)
    PROVE  StartsOK' /\ AttemptsOK'
<1> USE DEF bounds, RunnerAt
<1>0. runner[a] \in RunnerRecords /\ past \in Histories BY Fields DEF Typed
<1>1. ASSUME NEW at \in Stages, RunnerGoes(a, at)
      PROVE  runner'[a].at = at /\ \A b \in Attempts \ {a} : runner'[b] = runner[b]
  <2>1. /\ runner'[a] = [runner[a] EXCEPT !.at = at]
        /\ \A b \in Attempts \ {a} : runner'[b] = runner[b]
    BY <1>1, RunnerWent
  <2> QED BY <1>0, <2>1 DEF RunnerRecords
<1>2. a \in past.exchanged => runner[a].at \in Later BY DEF AttemptsOK, Later
<1>3. Stages = {"none", "bind", "listen", "consume", "exchange"} \cup Later
  BY DEF Stages, Later
<1>4. CASE Bind(a)
  <2>1. runner[a].at = "bind" /\ runner'[a].at \in {"listen", "failed"}
        /\ \A b \in Attempts \ {a} : runner'[b] = runner[b]
    BY <1>1, <1>3, <1>4 DEF Bind, Later
  <2> QED BY <1>2, <1>4, <2>1, AttemptsByRunner DEF Bind, Later
<1>5. CASE Callback(a)
  <2>1. runner[a].at = "listen" /\ runner'[a].at = "consume"
        /\ \A b \in Attempts \ {a} : runner'[b] = runner[b]
    BY <1>1, <1>3, <1>5 DEF Callback, Later
  <2> QED BY <1>2, <1>5, <2>1, AttemptsByRunner DEF Callback, Later
<1>6. CASE TimeOut(a)
  <2>1. runner[a].at = "listen" /\ runner'[a].at = "failed"
        /\ \A b \in Attempts \ {a} : runner'[b] = runner[b]
    BY <1>1, <1>3, <1>6 DEF TimeOut, Later
  <2> QED BY <1>2, <1>6, <2>1, AttemptsByRunner DEF TimeOut, Later
<1>7. CASE Consume(a)
  <2>1. /\ runner[a].at = "consume" /\ runner'[a].at \in {"exchange", "failed"}
        /\ \A b \in Attempts \ {a} : runner'[b] = runner[b]
        /\ runner'[a].at = "exchange" => attempt = a /\ attempt' = None
        /\ attempt' \in {attempt, None}
    BY <1>1, <1>3, <1>7 DEF Consume, Later, Matches
  <2> QED BY <1>2, <1>7, <2>1, AttemptsByRunner DEF Consume, Later
<1>8. CASE Exchange(a)
  <2>1. past'.cancelled = past.cancelled /\ past'.exchanged = past.exchanged \cup {a}
    BY <1>0, <1>8 DEF Exchange, Histories
  <2>2. /\ runner[a].at = "exchange" /\ runner'[a].at \in {"save", "failed"}
        /\ \A b \in Attempts \ {a} : runner'[b] = runner[b]
    <3>1. CASE RunnerGoes(a, "failed") BY <1>1, <1>3, <1>8, <3>1 DEF Exchange, Later
    <3>2. CASE runner' = [runner EXCEPT ![a] = [at |-> "save", obj |-> Len(objects')]]
      BY <1>8, <3>2 DEF Exchange, Typed
    <3> QED BY <1>8, <3>1, <3>2 DEF Exchange
  <2> QED BY <1>8, <2>1, <2>2, AttemptsByRunner DEF Exchange, Later
<1>9. CASE Save(a)
  <2>1. /\ runner[a].at = "save" /\ runner'[a].at \in {"remember", "failed"}
        /\ \A b \in Attempts \ {a} : runner'[b] = runner[b]
    BY <1>1, <1>3, <1>9 DEF Save, Later
  <2>2. past'.cancelled = past.cancelled /\ past'.exchanged = past.exchanged
    BY <1>0, <1>9 DEF Save, Histories
  <2> QED BY <1>9, <2>1, <2>2, AttemptsByRunner DEF Save, Later
<1>10. CASE RememberNew(a)
  <2>1. runner[a].at = "remember" /\ runner'[a].at = "connected"
        /\ \A b \in Attempts \ {a} : runner'[b] = runner[b]
    BY <1>1, <1>3, <1>10 DEF RememberNew, Later
  <2> QED BY <1>10, <2>1, AttemptsByRunner DEF RememberNew, Later
<1>11. CASE Conclude(a)
  <2>1. runner[a].at \in {"failed", "connected"} /\ runner'[a].at = "ended"
        /\ \A b \in Attempts \ {a} : runner'[b] = runner[b]
    BY <1>1, <1>3, <1>11 DEF Conclude, Later
  <2> QED BY <1>11, <2>1, AttemptsByRunner DEF Conclude, Later
<1> QED BY <1>4, <1>5, <1>6, <1>7, <1>8, <1>9, <1>10, <1>11 DEF RunnerStep
-----------------------------------------------------------------------------
(* The invariant, and what follows from it.                                 *)

\* Launching the thread of an attempt: that thread held nothing so far.
LEMMA TokensByLaunch ==
    ASSUME Typed, TokenInv, StartsOK, NEW c \in Calls, Launch(c)
    PROVE  TokenInv'
<1> DEFINE m == call[c].mine
<1>1. OneCall(c) /\ call'[c].at = "idle" BY Finished DEF Launch, Idle
<1>2. m \in Attempts
  BY SpotifyAccountAssumption DEF Launch, At, StartsOK, Starting, Attempts, Typed
<1>3. RunnerGoes(m, "bind") BY DEF Launch, RunnerGoes
<1>4. runner[m] \in RunnerRecords /\ "bind" \in Stages BY <1>2, Fields DEF Stages
<1>5. /\ runner'[m] = [runner[m] EXCEPT !.at = "bind"]
      /\ \A b \in Attempts \ {m} : runner'[b] = runner[b]
  <2> HIDE DEF m
  <2> QED BY <1>2, <1>3, <1>4, RunnerWent
<1>6. runner'[m].at = "bind" BY <1>4, <1>5 DEF RunnerRecords
<1>7. \A a \in Attempts : runner'[a].at \in {"save", "remember"} => runner'[a] = runner[a]
  BY <1>5, <1>6
<1> QED BY <1>1, <1>7, PlainCall DEF Launch, At, store, spotify, bounds, Holding

\* The daemon starts in the invariant.
LEMMA InitEstablishes == Init => AccountInv
<1> SUFFICES ASSUME Init PROVE AccountInv OBVIOUS
<1> USE DEF Init
<1>0. {MaxRequests, MaxTokens, MaxAttempts, MaxFaults} \subseteq Nat /\ None \notin Nat
  BY SpotifyAccountAssumption
<1>1. /\ call \in [Calls -> CallRecords] /\ \A c \in Calls : call[c].at = "idle"
      /\ \A c \in Calls : call[c].at \notin Holding \cup Starting
  <2>1. Idle \in CallRecords BY PointsAre DEF Idle, CallRecords
  <2> QED BY <2>1 DEF Idle, Holding, Starting
<1>2. /\ runner \in [Attempts -> RunnerRecords]
      /\ \A a \in Attempts : runner[a].at = "none"
  BY DEF RunnerRecords, Stages
<1>3. objects = <<>> /\ DOMAIN objects = {} OBVIOUS
<1>4. Typed
  <2>0. /\ 1 \in 1 .. 1 /\ issued = 1 /\ 1 \in 1 .. (MaxTokens + 1) /\ accepted = {1} /\ lost = {}
        /\ file \in {None} \cup [grant: 1 .. issued, token: 1 .. issued]
    BY <1>0
  <2>1. TypeOK BY <1>3, <2>0 DEF TypeOK
  <2>2. past \in Histories BY DEF Histories
  <2>3. objects \in Seq([grant: Nat, token: Nat, access: Accesses]) BY <1>3
  <2>4. /\ asked.attempts \in 0 .. MaxAttempts /\ asked.requests \in Nat
        /\ DOMAIN asked = {"requests", "attempts"} /\ faults \in Nat
    BY <1>0
  <2> QED BY <1>1, <1>2, <1>3, <2>1, <2>2, <2>3, <2>4 DEF Typed
<1>5. HeldOK /\ GoneOK BY <1>1, <1>2 DEF HeldOK, GoneOK, At
<1>6. GrantsOK
  <2>1. \A x \in Pairs : x = [grant |-> 1, token |-> 1]
    BY <1>1, <1>3 DEF Pairs, At
  <2> QED BY <2>1 DEF GrantsOK
<1>7. AnswersOK BY <1>1 DEF AnswersOK, Carries, At
<1>8. LiveOK BY <1>3 DEF LiveOK, Taken
<1>9. StartsOK BY <1>1 DEF StartsOK
<1>10. AttemptsOK BY <1>2 DEF AttemptsOK
<1> QED BY <1>4, <1>5, <1>6, <1>7, <1>8, <1>9, <1>10 DEF AccountInv

\* Every step keeps the invariant.
LEMMA StepPreserves == AccountInv /\ [Next]_vars => AccountInv'
<1> SUFFICES ASSUME AccountInv, [Next]_vars PROVE AccountInv' OBVIOUS
<1> USE DEF AccountInv, TokenInv
<1>1. CASE UNCHANGED vars
  <2>1. UNCHANGED <<store, spotify, lock, call, authorization, bounds, past>>
    BY <1>1 DEF vars
  <2>2. Typed' BY <2>1 DEF Typed, TypeOK, store, spotify, authorization, bounds, Tokens
  <2>3. HeldOK' /\ GoneOK'
    BY <2>1 DEF HeldOK, GoneOK, At, store, spotify, authorization, bounds, Tokens
  <2>4. GrantsOK' /\ AnswersOK' /\ LiveOK'
    BY <2>1 DEF GrantsOK, AnswersOK, LiveOK, Live, Taken, Sole, Carries, Pairs, Durable,
                At, store, spotify
  <2>5. StartsOK' /\ AttemptsOK'
    BY <2>1 DEF StartsOK, AttemptsOK, authorization, bounds
  <2> QED BY <2>2, <2>3, <2>4, <2>5
<1>2. ASSUME NEW c \in Calls, NEW op \in Operations, Begin(c, op) PROVE AccountInv'
  BY <1>2, TypesKeptByTheRest, TokensByPlainCalls, AttemptsByBegin
<1>3. ASSUME NEW c \in Calls, CallStep(c) \/ ReplaceFails(c) PROVE AccountInv'
  <2>1. CASE \/ Enter(c) \/ Persist(c) \/ Send(c) \/ ReplaceFails(c) \/ Check(c)
             \/ SetPending(c) \/ ClearPending(c)
    BY <2>1, TypesKeptByCalls, TokensByPlainCalls, AttemptsByCalls
  <2>2. CASE Denied(c)
    BY <2>2, TypesKeptByWriters, TokensByPlainCalls, AttemptsByCalls
  <2>3. CASE Load(c) \/ Replace(c) \/ Remember(c) \/ Clear(c)
    BY <2>3, TypesKeptByWriters, TokensByWriters, AttemptsByCalls
  <2>4. CASE Renew(c) BY <2>4, TypesKeptByWriters, TokensByRenew, AttemptsByCalls
  <2>5. CASE Apply(c) BY <2>5, TypesKeptByWriters, TokensByApply, AttemptsByCalls
  <2>6. CASE Cancel(c) BY <2>6, TypesKeptByCalls, TokensByPlainCalls, AttemptsByRegistry
  <2>7. CASE Register(c) BY <2>7, TypesKeptByTheRest, TokensByPlainCalls, AttemptsByRegistry
  <2>8. CASE Launch(c) BY <2>8, TypesKeptByTheRest, TokensByLaunch, AttemptsByRegistry
  <2> QED BY <1>3, <2>1, <2>2, <2>3, <2>4, <2>5, <2>6, <2>7, <2>8 DEF CallStep
<1>4. ASSUME NEW a \in Attempts, RunnerStep(a) \/ Callback(a) PROVE AccountInv'
  <2>1. TokenInv'
    BY <1>4, TokensByPlainRunners, TokensByAuthorization DEF RunnerStep
  <2> QED BY <1>4, <2>1, TypesKeptByRunners, AttemptsByRunners
<1>5. ASSUME NEW o \in DOMAIN objects, Wear(o) PROVE AccountInv'
  <2>1. StartsOK' /\ AttemptsOK'
    BY <1>5 DEF Wear, StartsOK, AttemptsOK, authorization
  <2> QED BY <1>5, <2>1, TypesKeptByTheRest, TokensByPlainRunners
<1> QED BY <1>1, <1>2, <1>3, <1>4, <1>5 DEF Next

\* In every state, whatever the threads, requests and answers of Spotify: what a
\* thread holds is there, a token has one grant, what is under way to an object
\* works, and an attempt has one start and one thread (TokenStore, apply_refresh,
\* AttemptRegistry, AuthorizationRunner).
THEOREM AccountInvariant == Spec => []AccountInv
<1>1. Init => AccountInv BY InitEstablishes
<1>2. AccountInv /\ [Next]_vars => AccountInv' BY StepPreserves
<1> QED BY <1>1, <1>2, PTL DEF Spec

\* The object in memory, when it is the only one of its grant, has a token that
\* Spotify takes, or will have one, or Spotify's answer to its renewal was lost.
LEMMA LiveFollows == AccountInv => LiveTokenIsHeld
<1> SUFFICES ASSUME AccountInv, NEW o \in {cached} \ {None},
                    Cardinality({p \in DOMAIN objects : objects[p].grant = objects[o].grant}) = 1
             PROVE  \/ objects[o].token \in accepted \cup lost
                    \/ \E c \in Calls : /\ At(c, "granted")
                                        /\ call[c].obj = o
                                        /\ call[c].answer \in accepted
  BY DEF LiveTokenIsHeld
<1> DEFINE same == {p \in DOMAIN objects : objects[p].grant = objects[o].grant}
<1>1. o \in DOMAIN objects BY DEF AccountInv, Typed, TypeOK
<1>2. IsFiniteSet(same)
  <2>1. IsFiniteSet(1 .. Len(objects)) BY Fields, FS_Interval DEF AccountInv
  <2>2. same \subseteq 1 .. Len(objects) BY Fields DEF AccountInv
  <2> QED BY <2>1, <2>2, FS_Subset
<1>3. \E x : same = {x}
  <2> HIDE DEF same
  <2> QED BY <1>2, FS_Singleton DEF same
<1>4. Sole(o) BY <1>1, <1>3 DEF Sole
<1>5. Live(o) BY <1>1, <1>4 DEF AccountInv, LiveOK
<1>6. \A c \in Calls : Carries(c) => At(c, "granted") /\ call[c].answer \in accepted
  BY DEF AccountInv, AnswersOK, Carries
<1> QED BY <1>5, <1>6 DEF Live, Taken

\* An account or an attempt that was given up stays given up, and one that was
\* not keeps working: disconnect against load and persist_if_changed, the
\* rotation of tokens against requests that share them, cancel against the
\* thread of an authorization and the start of the next one.
THEOREM AuthorizationStaysSound == Spec => []AuthorizationIsSound
<1>1. AccountInv => AuthorizationIsSound
  <2> SUFFICES ASSUME AccountInv PROVE AuthorizationIsSound OBVIOUS
  <2>1. TypeOK /\ DisconnectStays BY DEF AccountInv, Typed, GoneOK, DisconnectStays
  <2>2. CancelledNeverConnects
    BY DEF AccountInv, AttemptsOK, CancelledNeverConnects, Typed, Histories
  <2> QED BY <2>1, <2>2, LiveFollows DEF AuthorizationIsSound
<1> QED BY <1>1, AccountInvariant, PTL
=============================================================================
