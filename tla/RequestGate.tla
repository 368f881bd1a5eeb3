----------------------------- MODULE RequestGate -----------------------------
(***************************************************************************)
(* What every request passes before its handler: the check of the CSRF     *)
(* token, then the limit on the rate of sensitive paths.  Tabs of a        *)
(* browser share its cookies; a tab reads the token for the header when it *)
(* builds a request, and the browser attaches the cookie when it sends it. *)
(* Time passes in ticks; the limiter reads the clock before it takes its   *)
(* lock.  A restart empties the limiter and may come with another          *)
(* COOKIE_SECRET.                                                          *)
(***************************************************************************)
EXTENDS Integers

CONSTANTS
    Browsers, Tabs,
    BrowserOf,    \* tab -> browser
    AddressOf,    \* browser -> its address, that of a proxy for instance
    Paths,
    Writes,       \* the paths whose method is neither GET nor HEAD
    Limit,        \* path -> requests of a window; 0 where there is no limit
    Window,       \* the length of a window, in ticks
    None,         \* no cookie, no header
    MaxTime,      \* bound: ticks
    MaxSent,      \* bound: requests of each tab
    MaxRestarts   \* bound

\* A token is random and signed with the secret.
Token == [secret : Nat, id : Nat]

ASSUME GateAssumption ==
    /\ BrowserOf \in [Tabs -> Browsers] /\ Paths # {} /\ Writes \subseteq Paths
    /\ Limit \in [Paths -> Nat] /\ Window \in Nat \ {0}
    /\ None \notin Token
    /\ MaxTime \in Nat \ {0} /\ MaxSent \in Nat /\ MaxRestarts \in Nat

VARIABLES
    now,
    secret,    \* the number of the server's cookie secret
    entries,   \* the limiter: address and path -> window
    cookie,    \* browser -> its mariner_csrf cookie
    tab,       \* tab -> its request
    next,      \* the number of the next token
    restarts,
    late,      \* address and path -> windows opened with a reading older than the time
    passes,    \* address and path -> time -> requests that passed until then
    calm       \* tabs that were answered while the browser's cookie was the one they sent,
               \* and since then neither the secret has changed nor another tab the cookie

vars == <<now, secret, entries, cookie, tab, next, restarts, late, passes, calm>>

Addresses == {AddressOf[b] : b \in Browsers}
Sources == Addresses \X Paths
Source(t) == <<AddressOf[BrowserOf[t]], tab[t].path>>
NoWindow == [started |-> 0, count |-> 0]

ValidToken(c) == c # None /\ c.secret = secret

Idle == [pc |-> "idle", path |-> CHOOSE p \in Paths : TRUE, header |-> None,
         cookie |-> None, set |-> None, outcome |-> "none", sent |-> 0, at |-> 0]

Init ==
    /\ now = 1 /\ secret = 1 /\ next = 1 /\ restarts = 0
    /\ entries = [s \in Sources |-> NoWindow]
    /\ cookie = [b \in Browsers |-> None]
    /\ tab = [t \in Tabs |-> Idle]
    /\ late = [s \in Sources |-> 0]
    /\ passes = [s \in Sources |-> [n \in 0..MaxTime |-> 0]]
    /\ calm = {}

At(t, p) == tab[t].pc = p

-----------------------------------------------------------------------------
(* Browsers                                                                 *)

\* The page puts the token it finds in its cookie into the header of a write.
Build(t) ==
    /\ At(t, "idle") /\ tab[t].sent < MaxSent
    /\ \E p \in Paths :
         tab' = [tab EXCEPT ![t].pc = "built", ![t].path = p, ![t].sent = @ + 1,
                            ![t].header = IF p \in Writes THEN cookie[BrowserOf[t]] ELSE None]
    /\ UNCHANGED <<now, secret, entries, cookie, next, restarts, late, passes, calm>>

Send(t) ==
    /\ At(t, "built")
    /\ tab' = [tab EXCEPT ![t].pc = "sent", ![t].cookie = cookie[BrowserOf[t]]]
    /\ UNCHANGED <<now, secret, entries, cookie, next, restarts, late, passes, calm>>

Receive(t) ==
    LET b == BrowserOf[t] IN
    /\ At(t, "answered")
    /\ tab' = [tab EXCEPT ![t] = [Idle EXCEPT !.outcome = tab[t].outcome, !.sent = tab[t].sent]]
    /\ cookie' = IF tab[t].set = None THEN cookie ELSE [cookie EXCEPT ![b] = tab[t].set]
    /\ calm' = IF tab[t].set = None THEN calm
               ELSE {u \in calm : u = t \/ BrowserOf[u] # b}
    /\ UNCHANGED <<now, secret, entries, next, restarts, late, passes>>

-----------------------------------------------------------------------------
(* The server                                                               *)

\* The cookie the middleware goes on with: a new one unless the request's is
\* valid.
Effective(t) == IF ValidToken(tab[t].cookie) THEN tab[t].cookie ELSE [secret |-> secret, id |-> next]

Answer(t, outcome, set) ==
    tab' = [tab EXCEPT ![t] = [Idle EXCEPT !.pc = "answered", !.outcome = outcome, !.set = set,
                                           !.sent = tab[t].sent]]

Undisturbed(t) == tab[t].cookie = cookie[BrowserOf[t]]

\* Mutant of SecurityMiddleware: a refusal goes out before the new cookie.
RefuseFirst(t, outcome) ==
    /\ next' = IF ValidToken(tab[t].cookie) THEN next ELSE next + 1
    /\ Answer(t, outcome, IF ValidToken(tab[t].cookie) \/ outcome = "refused" THEN None ELSE Effective(t))
    /\ calm' = IF Undisturbed(t) THEN calm \cup {t} ELSE calm \ {t}
    /\ UNCHANGED <<now, secret, cookie, restarts>>

\* Every answer brings a new cookie if the request's was not valid.
SecurityMiddleware(t, outcome) ==
    /\ next' = IF ValidToken(tab[t].cookie) THEN next ELSE next + 1
    /\ Answer(t, outcome, IF ValidToken(tab[t].cookie) THEN None ELSE Effective(t))
    /\ calm' = IF Undisturbed(t) THEN calm \cup {t} ELSE calm \ {t}
    /\ UNCHANGED <<now, secret, cookie, restarts>>

\* A write is refused unless its header repeats the cookie.
Repeats(t) == tab[t].path \in Writes => tab[t].header = Effective(t)

Refuse(t) ==
    /\ At(t, "sent") /\ ~Repeats(t)
    /\ SecurityMiddleware(t, "refused")
    /\ UNCHANGED <<entries, late, passes>>

Limited(t) == Limit[tab[t].path] > 0

\* The limiter reads the clock; it may get its lock only later.
ReadClock(t) ==
    /\ At(t, "sent") /\ Repeats(t) /\ Limited(t)
    /\ tab' = [tab EXCEPT ![t].pc = "timed", ![t].at = now]
    /\ UNCHANGED <<now, secret, entries, cookie, next, restarts, late, passes, calm>>

\* Mutant of Over: a window ends one tick late.
OverLate(e, at) == e.started = 0 \/ at - e.started > Window

\* The window is over at the time that was read, or there was none.  A window
\* that somebody opened after the reading is not over.
Over(e, at) == e.started = 0 \/ at - e.started >= Window

\* Mutant of Admit: a new window is opened without its first request.
AdmitForgetsFirst(t) ==
    LET s == Source(t)
        e == entries[s]
    IN  /\ Over(e, tab[t].at) \/ e.count < Limit[s[2]]
        /\ entries' = [entries EXCEPT ![s] = IF Over(e, tab[t].at) THEN [started |-> tab[t].at, count |-> 0]
                                             ELSE [e EXCEPT !.count = @ + 1]]
        /\ late' = IF Over(e, tab[t].at) /\ tab[t].at # now THEN [late EXCEPT ![s] = @ + 1] ELSE late

\* Mutant of Admit: the limit is compared after the request was counted.
AdmitOneMore(t) ==
    LET s == Source(t)
        e == entries[s]
    IN  /\ Over(e, tab[t].at) \/ e.count <= Limit[s[2]]
        /\ entries' = [entries EXCEPT ![s] = IF Over(e, tab[t].at) THEN [started |-> tab[t].at, count |-> 1]
                                             ELSE [e EXCEPT !.count = @ + 1]]
        /\ late' = IF Over(e, tab[t].at) /\ tab[t].at # now THEN [late EXCEPT ![s] = @ + 1] ELSE late

\* rateLimiterAllow under its lock, when it allows the request.  The window it
\* opens starts at the time that was read, which may have passed.
Admit(t) ==
    LET s == Source(t)
        e == entries[s]
        over == Over(e, tab[t].at)
    IN  /\ over \/ e.count < Limit[s[2]]
        /\ entries' = [entries EXCEPT ![s] = IF over THEN [started |-> tab[t].at, count |-> 1]
                                             ELSE [e EXCEPT !.count = @ + 1]]
        /\ late' = IF over /\ tab[t].at # now THEN [late EXCEPT ![s] = @ + 1] ELSE late

\* One more request of s has passed by now.
OneMore(s) == [n \in 0..MaxTime |-> IF n < now THEN passes[s][n] ELSE passes[s][n] + 1]

Pass(t) ==
    /\ \/ At(t, "sent") /\ Repeats(t) /\ ~Limited(t) /\ UNCHANGED <<entries, late>>
       \/ At(t, "timed") /\ Admit(t)
    /\ SecurityMiddleware(t, "passed")
    /\ passes' = [passes EXCEPT ![Source(t)] = OneMore(Source(t))]

Deny(t) ==
    LET e == entries[Source(t)] IN
    /\ At(t, "timed")
    /\ ~Over(e, tab[t].at) /\ e.count >= Limit[tab[t].path]
    /\ SecurityMiddleware(t, "limited")
    /\ UNCHANGED <<entries, late, passes>>

Tick ==
    /\ now < MaxTime /\ now' = now + 1
    /\ UNCHANGED <<secret, entries, cookie, tab, next, restarts, late, passes, calm>>

\* A new server, perhaps with another secret.  Requests on their way reach it;
\* one that was being served gets no answer.
Restart ==
    /\ restarts < MaxRestarts /\ restarts' = restarts + 1
    /\ secret' \in {secret, secret + 1}
    /\ entries' = [s \in Sources |-> NoWindow]
    /\ tab' = [t \in Tabs |-> IF At(t, "timed") THEN [Idle EXCEPT !.sent = tab[t].sent] ELSE tab[t]]
    /\ calm' = IF secret' = secret THEN calm ELSE {}
    /\ UNCHANGED <<now, cookie, next, late, passes>>

Stop == now = MaxTime /\ (\A t \in Tabs : At(t, "idle") /\ tab[t].sent = MaxSent) /\ UNCHANGED vars

Next ==
    \/ \E t \in Tabs :
         Build(t) \/ Send(t) \/ Receive(t) \/ Refuse(t) \/ ReadClock(t) \/ Pass(t) \/ Deny(t)
    \/ Tick \/ Restart \/ Stop

Spec == Init /\ [][Next]_vars

-----------------------------------------------------------------------------
(* Properties                                                               *)

Outcomes == {"none", "refused", "passed", "limited"}
TabType ==
    [pc : {"idle", "built", "sent", "timed", "answered"}, path : Paths,
     header : Token \cup {None}, cookie : Token \cup {None}, set : Token \cup {None},
     outcome : Outcomes, sent : 0..MaxSent, at : Nat]

Readings ==
    \A t \in Tabs : tab[t].at <= now /\ (At(t, "timed") => tab[t].at > 0 /\ Limited(t))

\* Requests and windows keep their types; tokens were signed with a secret
\* the server has or had, no window counts more than its limit, and nobody
\* has read the clock in the future.
TypeOK ==
    /\ now \in 1..MaxTime /\ secret \in Nat \ {0} /\ next \in Nat /\ restarts \in 0..MaxRestarts
    /\ entries \in [Sources -> [started : 0..now, count : Nat]]
    /\ \A s \in Sources : entries[s].count <= Limit[s[2]]
    /\ cookie \in [Browsers -> Token \cup {None}]
    /\ tab \in [Tabs -> TabType]
    /\ Readings
    /\ late \in [Sources -> Nat]
    /\ passes \in [Sources -> [0..MaxTime -> Nat]]
    /\ calm \subseteq Tabs

\* The requests that passed from one tick to another, both included, and the
\* ends of the span of a window's length that starts, or ends, at a tick.
PassedIn(s, from, to) == passes[s][to] - passes[s][from - 1]
SpanEnd(m) == IF m + Window - 1 < MaxTime THEN m + Window - 1 ELSE MaxTime
SpanStart(m) == IF m - Window + 1 > 1 THEN m - Window + 1 ELSE 1

\* Whenever a span of a window's length begins, less than twice the limit
\* passes in it: the end of one window, without the request that opened it,
\* and the beginning of the next.  A restart may add the limit once more, and
\* so may a request that waits for the lock with its reading of the clock and
\* opens a window in the past, which is over so much earlier.
LessThanTwice ==
    \A s \in Sources : Limit[s[2]] > 0 =>
      \A m \in 1..MaxTime :
        PassedIn(s, m, SpanEnd(m)) < (2 + restarts + late[s]) * Limit[s[2]]

\* Nobody is turned away before the limit has passed from the same address on
\* the same path within a window's length of the time that was read; refused
\* requests do not count.
DeniedOnlyIfBusy ==
    [][\A t \in Tabs : At(t, "timed") /\ tab'[t].outcome = "limited" /\ tab'[t].pc = "answered" =>
         PassedIn(Source(t), SpanStart(tab[t].at), now) >= Limit[tab[t].path]]_vars

\* A tab whose write was refused is not refused again when it tries once more,
\* unless another tab changed the cookie after the first attempt was sent, or
\* the secret changed after its answer: every refusal brings the token for the
\* next attempt.
RefusedOnce ==
    [][\A t \in Tabs : At(t, "sent") /\ tab'[t].pc = "answered" /\ tab'[t].outcome = "refused" =>
         ~(t \in calm /\ tab[t].outcome = "refused")]_vars

-----------------------------------------------------------------------------
(* The inductive invariant behind the proofs                                *)

\* The counts of what has passed only grow, and no request is in the future.
Growing(s) ==
    /\ \A m, n \in 0..MaxTime : m <= n => passes[s][m] <= passes[s][n]
    /\ \A n \in now..MaxTime : passes[s][n] = passes[s][now]

\* What a window counts has passed since it was opened.
Counting(s) ==
    entries[s].started # 0 => PassedIn(s, entries[s].started, now) >= entries[s].count

\* A span that holds the start of the window had room for what the window
\* counts, one that starts after the window had a limit less; with no window
\* there is room for a whole one.
Bounded(s) ==
    \A m \in 1..MaxTime :
      LET p == PassedIn(s, m, SpanEnd(m))
          used == (restarts + late[s]) * Limit[s[2]]
          limit == Limit[s[2]]
          e == entries[s]
      IN  /\ p < used + limit + limit
          /\ e.started = 0 => p < used + limit
          /\ e.started # 0 /\ e.started < m => p < used + e.count
          /\ m <= e.started /\ e.started < m + Window => p < used + limit + e.count

Metered == \A s \in Sources : Limit[s[2]] > 0 => Growing(s) /\ Counting(s) /\ Bounded(s)
=============================================================================
