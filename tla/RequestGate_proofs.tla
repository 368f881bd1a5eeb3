-------------------------- MODULE RequestGate_proofs --------------------------
(***************************************************************************)
(* RequestGate keeps its types, a tab is not refused twice in a row unless *)
(* somebody interfered, and the limiter lets less than twice its limit     *)
(* through, but for restarts and waits for its lock, and turns nobody away *)
(* before the limit has passed.                                            *)
(***************************************************************************)
EXTENDS RequestGate, TLAPS

\* After a refusal that nobody has interfered with since, the tab has or gets
\* a valid cookie, and what it then sends repeats it.
Ready(t) ==
    /\ At(t, "answered") =>
         IF tab[t].set = None THEN ValidToken(cookie[BrowserOf[t]]) ELSE ValidToken(tab[t].set)
    /\ At(t, "idle") => ValidToken(cookie[BrowserOf[t]])
    /\ At(t, "built") =>
         /\ ValidToken(cookie[BrowserOf[t]])
         /\ tab[t].path \in Writes => tab[t].header = cookie[BrowserOf[t]]
    /\ At(t, "sent") \/ At(t, "timed") =>
         /\ ValidToken(tab[t].cookie)
         /\ tab[t].path \in Writes => tab[t].header = tab[t].cookie

IInv == TypeOK /\ \A t \in calm : tab[t].outcome = "refused" => Ready(t)

-----------------------------------------------------------------------------
(* Types                                                                    *)

LEMMA SourceTyped ==
  ASSUME TypeOK, NEW t \in Tabs
  PROVE  /\ Source(t) \in Sources /\ BrowserOf[t] \in Browsers
         /\ Source(t)[2] = tab[t].path /\ tab[t].path \in Paths
         /\ tab[t] \in TabType
  <1>1. tab[t] \in TabType /\ BrowserOf[t] \in Browsers
    BY GateAssumption DEF TypeOK
  <1>2. tab[t].path \in Paths
    BY <1>1 DEF TabType
  <1>3. QED
    BY <1>1, <1>2 DEF Source, Sources, Addresses

LEMMA InitTypes == Init => TypeOK
  <1> SUFFICES ASSUME Init PROVE TypeOK
    OBVIOUS
  <1>1. Idle \in TabType
    BY GateAssumption DEF Idle, TabType, Outcomes
  <1>2. tab \in [Tabs -> TabType]
    BY <1>1 DEF Init
  <1>3. entries \in [Sources -> [started : 0..now, count : Nat]]
    BY DEF Init, NoWindow
  <1>4. \A s \in Sources : entries[s].count <= Limit[s[2]]
    <2> TAKE s \in Sources
    <2>1. Limit[s[2]] \in Nat /\ entries[s].count = 0
      BY GateAssumption DEF Init, NoWindow, Sources
    <2>2. QED
      BY <2>1
  <1>5. Readings
    BY DEF Init, Idle, Readings, At
  <1>6. QED
    BY <1>2, <1>3, <1>4, <1>5, GateAssumption DEF Init, TypeOK

LEMMA TokenTyped ==
  ASSUME TypeOK, NEW t \in Tabs
  PROVE  /\ Effective(t) \in Token /\ ValidToken(Effective(t))
         /\ ValidToken(tab[t].cookie) => Effective(t) = tab[t].cookie
  <1>1. tab[t].cookie \in Token \cup {None}
    BY SourceTyped DEF TabType
  <1>2. secret \in Nat /\ next \in Nat
    BY DEF TypeOK
  <1>3. QED
    BY <1>1, <1>2, GateAssumption DEF Effective, ValidToken, Token

LEMMA AnswerTypes ==
  ASSUME TypeOK, NEW t \in Tabs, NEW o \in Outcomes, SecurityMiddleware(t, o)
  PROVE  /\ next' \in Nat /\ calm' \subseteq Tabs
         /\ tab' \in [Tabs -> TabType]
         /\ \A u \in Tabs : u # t => tab'[u] = tab[u]
         /\ tab'[t].pc = "answered" /\ tab'[t].at = 0 /\ tab'[t].outcome = o
         /\ tab'[t].set = IF ValidToken(tab[t].cookie) THEN None ELSE Effective(t)
         /\ UNCHANGED <<now, secret, cookie, restarts>>
  <1> DEFINE s == IF ValidToken(tab[t].cookie) THEN None ELSE Effective(t)
             new == [Idle EXCEPT !.pc = "answered", !.outcome = o, !.set = s, !.sent = tab[t].sent]
  <1>1. s \in Token \cup {None}
    BY TokenTyped
  <1>2. tab' = [tab EXCEPT ![t] = new]
    BY DEF SecurityMiddleware, Answer
  <1>3. tab[t].sent \in 0..MaxSent
    BY SourceTyped DEF TabType
  <1>4. new \in TabType /\ new.pc = "answered" /\ new.at = 0 /\ new.outcome = o /\ new.set = s
    <2> HIDE DEF s
    <2>1. QED
      BY <1>1, <1>3, GateAssumption DEF Idle, TabType, Outcomes
  <1>5. next' \in Nat /\ calm' \subseteq Tabs /\ UNCHANGED <<now, secret, cookie, restarts>>
    BY DEF SecurityMiddleware, TypeOK
  <1>6. tab \in [Tabs -> TabType]
    BY DEF TypeOK
  <1> HIDE DEF s, new
  <1>7. tab' \in [Tabs -> TabType] /\ tab'[t] = new /\ \A u \in Tabs : u # t => tab'[u] = tab[u]
    BY <1>2, <1>4, <1>6
  <1>8. QED
    BY <1>4, <1>5, <1>7 DEF s

(* Readings of the clock are never in the future, and a request that has    *)
(* one goes to a path with a limit.                                         *)
LEMMA StepReadings == TypeOK /\ [Next]_vars => Readings'
  <1> SUFFICES ASSUME TypeOK, [Next]_vars, NEW u \in Tabs
               PROVE  tab'[u].at <= now' /\ (At(u, "timed")' => tab'[u].at > 0 /\ Limited(u)')
    BY DEF Readings
  <1>1. /\ tab[u] \in TabType /\ tab \in [Tabs -> TabType] /\ now \in Nat /\ now >= 1
        /\ tab[u].at <= now /\ (At(u, "timed") => tab[u].at > 0 /\ Limited(u))
    BY SourceTyped, GateAssumption DEF TypeOK, Readings
  <1>2. tab[u].at \in Nat
    BY <1>1 DEF TabType
  <1>3. Idle.pc = "idle" /\ Idle.at = 0
    BY DEF Idle
  <1>4. ASSUME tab'[u] = tab[u], now' \in {now, now + 1}
        PROVE  tab'[u].at <= now' /\ (At(u, "timed")' => tab'[u].at > 0 /\ Limited(u)')
    BY <1>1, <1>2, <1>4 DEF At, Limited
  <1>5. ASSUME NEW t \in Tabs, Build(t) \/ Send(t) \/ Receive(t) \/ ReadClock(t)
        PROVE  tab'[u].at <= now' /\ (At(u, "timed")' => tab'[u].at > 0 /\ Limited(u)')
    <2>1. now' = now
      BY <1>5 DEF Build, Send, Receive, ReadClock
    <2>2. CASE u # t
      <3>1. tab'[u] = tab[u]
        BY <1>1, <1>5, <2>2 DEF Build, Send, Receive, ReadClock
      <3>2. QED
        BY <1>4, <2>1, <3>1
    <2>3. CASE u = t /\ Build(t)
      <3>1. tab'[u].pc = "built" /\ tab'[u].at = tab[u].at
        BY <1>1, <2>3 DEF Build, TabType
      <3>2. QED
        BY <1>1, <2>1, <3>1 DEF At
    <2>4. CASE u = t /\ Send(t)
      <3>1. tab'[u].pc = "sent" /\ tab'[u].at = tab[u].at
        BY <1>1, <2>4 DEF Send, TabType
      <3>2. QED
        BY <1>1, <2>1, <3>1 DEF At
    <2>5. CASE u = t /\ Receive(t)
      <3>1. tab'[u].pc = "idle" /\ tab'[u].at = 0
        BY <1>1, <1>3, <2>5 DEF Receive, Idle
      <3>2. QED
        BY <1>1, <2>1, <3>1 DEF At
    <2>6. CASE u = t /\ ReadClock(t)
      <3>1. tab'[u].at = now /\ tab'[u].path = tab[u].path
        BY <1>1, <2>6 DEF ReadClock, TabType
      <3>2. Limited(u)'
        BY <2>6, <3>1 DEF ReadClock, Limited
      <3>3. QED
        BY <1>1, <2>1, <3>1, <3>2
    <2>7. QED
      BY <1>5, <2>2, <2>3, <2>4, <2>5, <2>6
  <1>6. ASSUME NEW t \in Tabs, NEW o \in Outcomes, SecurityMiddleware(t, o)
        PROVE  tab'[u].at <= now' /\ (At(u, "timed")' => tab'[u].at > 0 /\ Limited(u)')
    <2>1. now' = now /\ (u # t => tab'[u] = tab[u])
          /\ (u = t => tab'[u].pc = "answered" /\ tab'[u].at = 0)
      BY <1>6, AnswerTypes
    <2>2. CASE u # t
      BY <1>4, <2>1, <2>2
    <2>3. CASE u = t
      BY <1>1, <2>1, <2>3 DEF At
    <2>4. QED
      BY <2>2, <2>3
  <1>7. CASE Restart
    <2>1. now' = now
          /\ tab'[u] = IF At(u, "timed") THEN [Idle EXCEPT !.sent = tab[u].sent] ELSE tab[u]
      BY <1>7 DEF Restart
    <2>2. CASE At(u, "timed")
      <3>1. tab'[u].pc = "idle" /\ tab'[u].at = 0
        BY <1>3, <2>1, <2>2 DEF Idle
      <3>2. QED
        BY <1>1, <2>1, <3>1 DEF At
    <2>3. CASE ~At(u, "timed")
      BY <1>4, <2>1, <2>3
    <2>4. QED
      BY <2>2, <2>3
  <1>8. CASE Tick \/ UNCHANGED vars
    BY <1>4, <1>8 DEF Tick, vars
  <1>9. QED
    BY <1>5, <1>6, <1>7, <1>8 DEF Next, Stop, Refuse, Pass, Deny, Outcomes

LEMMA StepTypes == TypeOK /\ [Next]_vars => TypeOK'
  <1> SUFFICES ASSUME TypeOK, [Next]_vars PROVE TypeOK'
    OBVIOUS
  <1> Readings'
    BY StepReadings
  <1> USE DEF TypeOK
  <1>1. ASSUME NEW t \in Tabs, Build(t) PROVE TypeOK'
    <2>1. PICK p \in Paths :
            tab' = [tab EXCEPT ![t].pc = "built", ![t].path = p, ![t].sent = @ + 1,
                               ![t].header = IF p \in Writes THEN cookie[BrowserOf[t]] ELSE None]
      BY <1>1 DEF Build
    <2> DEFINE h == IF p \in Writes THEN cookie[BrowserOf[t]] ELSE None
    <2>2. h \in Token \cup {None} /\ tab[t] \in TabType
      BY SourceTyped
    <2>3. tab[t].sent + 1 \in 0..MaxSent
      BY <1>1, <2>2, GateAssumption DEF Build, TabType
    <2> DEFINE new == [tab[t] EXCEPT !.pc = "built", !.path = p, !.sent = tab[t].sent + 1,
                                     !.header = h]
    <2>4. tab' = [tab EXCEPT ![t] = new]
      BY <2>1
    <2>5. tab' \in [Tabs -> TabType]
      <3>1. new \in TabType
        <4> HIDE DEF h
        <4>1. QED
          BY <2>2, <2>3 DEF TabType
      <3>2. tab \in [Tabs -> TabType] /\ t \in Tabs
        BY <1>1
      <3> HIDE DEF new, TypeOK
      <3>3. QED
        BY <2>4, <3>1, <3>2
    <2>6. QED
      BY <1>1, <2>5 DEF Build
  <1>2. ASSUME NEW t \in Tabs, Send(t) PROVE TypeOK'
    <2>1. cookie[BrowserOf[t]] \in Token \cup {None}
      BY SourceTyped
    <2>2. tab' \in [Tabs -> TabType]
      <3> DEFINE new == [tab[t] EXCEPT !.pc = "sent", !.cookie = cookie[BrowserOf[t]]]
      <3>1. new \in TabType
        BY ZenonT(60), <2>1, SourceTyped DEF TabType
      <3>2. tab' = [tab EXCEPT ![t] = new] /\ tab \in [Tabs -> TabType] /\ t \in Tabs
        BY <1>2 DEF Send
      <3> HIDE DEF new, TypeOK
      <3>3. QED
        BY <3>1, <3>2
    <2>3. QED
      BY <1>2, <2>2 DEF Send
  <1>3. ASSUME NEW t \in Tabs, Receive(t) PROVE TypeOK'
    <2>1. tab[t] \in TabType /\ BrowserOf[t] \in Browsers
      BY SourceTyped
    <2>2. tab' \in [Tabs -> TabType]
      <3>1. [Idle EXCEPT !.outcome = tab[t].outcome, !.sent = tab[t].sent] \in TabType
        BY <2>1, GateAssumption DEF Idle, TabType, Outcomes
      <3>2. QED
        BY <1>3, <3>1 DEF Receive
    <2>3. cookie' \in [Browsers -> Token \cup {None}]
      BY <1>3, <2>1 DEF Receive, TabType
    <2>4. QED
      BY <1>3, <2>2, <2>3 DEF Receive
  <1>4. ASSUME NEW t \in Tabs, Refuse(t) PROVE TypeOK'
    BY <1>4, AnswerTypes DEF Refuse, Outcomes
  <1>5. ASSUME NEW t \in Tabs, Pass(t) PROVE TypeOK'
    <2> DEFINE s == Source(t)
               e == entries[s]
    <2>1. s \in Sources /\ s[2] = tab[t].path /\ s[2] \in Paths
      BY SourceTyped
    <2>2. /\ next' \in Nat /\ calm' \subseteq Tabs /\ tab' \in [Tabs -> TabType]
          /\ UNCHANGED <<now, secret, cookie, restarts>>
      BY <1>5, AnswerTypes DEF Pass, Outcomes
    <2>3. passes' \in [Sources -> [0..MaxTime -> Nat]]
      <3>1. OneMore(s) \in [0..MaxTime -> Nat]
        <4>1. passes[s] \in [0..MaxTime -> Nat]
          BY <2>1
        <4> HIDE DEF s, TypeOK
        <4>2. \A n \in 0..MaxTime : (IF n < now THEN passes[s][n] ELSE passes[s][n] + 1) \in Nat
          <5> TAKE n \in 0..MaxTime
          <5>1. passes[s][n] \in Nat
            BY <4>1
          <5>2. QED
            BY <5>1
        <4>3. QED
          BY <4>2 DEF OneMore
      <3>2. passes' = [passes EXCEPT ![s] = OneMore(s)]
        BY <1>5 DEF Pass
      <3>3. QED
        BY <2>1, <3>1, <3>2
    <2>4. /\ entries' \in [Sources -> [started : 0..now, count : Nat]]
          /\ \A r \in Sources : entries'[r].count <= Limit[r[2]]
          /\ late' \in [Sources -> Nat]
      <3>1. CASE At(t, "sent") /\ ~Limited(t) /\ UNCHANGED <<entries, late>>
        <4>1. /\ entries \in [Sources -> [started : 0..now, count : Nat]]
              /\ \A r \in Sources : entries[r].count <= Limit[r[2]]
              /\ late \in [Sources -> Nat]
          OBVIOUS
        <4>2. entries' = entries /\ late' = late
          BY <3>1
        <4> HIDE DEF TypeOK
        <4>3. QED
          BY <4>1, <4>2
      <3>2. CASE At(t, "timed") /\ Admit(t)
        <4> DEFINE at == tab[t].at
        <4>1. Limit[s[2]] \in Nat /\ Limit[s[2]] > 0
          BY <2>1, <3>2, GateAssumption DEF Readings, Limited
        <4>2. /\ e \in [started : 0..now, count : Nat] /\ e.count <= Limit[s[2]] /\ at \in 0..now
          <5>1. at \in Nat /\ at <= now
            BY SourceTyped DEF Readings, TabType
          <5>2. QED
            BY <2>1, <5>1
        <4>3. ASSUME Over(e, at)
              PROVE  /\ entries' \in [Sources -> [started : 0..now, count : Nat]]
                     /\ \A r \in Sources : entries'[r].count <= Limit[r[2]]
          <5> DEFINE new == [started |-> at, count |-> 1]
          <5>1. entries' = [entries EXCEPT ![s] = new]
            BY <3>2, <4>3 DEF Admit
          <5>2. new \in [started : 0..now, count : Nat] /\ new.count <= Limit[s[2]]
            <6> HIDE DEF at, s, e
            <6>1. QED
              BY <4>1, <4>2
          <5> HIDE DEF new
          <5>3. /\ entries' \in [Sources -> [started : 0..now, count : Nat]]
                /\ \A r \in Sources : entries'[r].count <= Limit[r[2]]
            <6>1. /\ entries \in [Sources -> [started : 0..now, count : Nat]] /\ s \in Sources
                  /\ \A r \in Sources : entries[r].count <= Limit[r[2]]
              BY <2>1
            <6> HIDE DEF TypeOK, s, e, at
            <6>2. QED
              BY <5>1, <5>2, <6>1
          <5>4. QED
            BY <5>3
        <4>4. ASSUME ~Over(e, at)
              PROVE  /\ entries' \in [Sources -> [started : 0..now, count : Nat]]
                     /\ \A r \in Sources : entries'[r].count <= Limit[r[2]]
          <5> DEFINE new == [e EXCEPT !.count = e.count + 1]
          <5>1. entries' = [entries EXCEPT ![s] = new]
            BY <3>2, <4>4 DEF Admit
          <5>2. e.count < Limit[s[2]]
            BY <3>2, <4>4 DEF Admit
          <5>3. new \in [started : 0..now, count : Nat] /\ new.count <= Limit[s[2]]
            <6>1. /\ e \in [started : 0..now, count : Nat] /\ Limit[s[2]] \in Nat
                  /\ e.count < Limit[s[2]]
              BY <4>1, <4>2, <5>2
            <6> HIDE DEF e, s, at, TypeOK
            <6>2. QED
              BY <6>1
          <5> HIDE DEF new
          <5>4. /\ entries' \in [Sources -> [started : 0..now, count : Nat]]
                /\ \A r \in Sources : entries'[r].count <= Limit[r[2]]
            BY <2>1, <5>1, <5>3
          <5>5. QED
            BY <5>4
        <4>5. late' \in [Sources -> Nat]
          BY <2>1, <3>2 DEF Admit
        <4>6. QED
          BY <4>3, <4>4, <4>5
      <3>3. QED
        BY <1>5, <3>1, <3>2 DEF Pass
    <2>5. QED
      BY <2>2, <2>3, <2>4
  <1>6. ASSUME NEW t \in Tabs, Deny(t) PROVE TypeOK'
    BY <1>6, AnswerTypes DEF Deny, Outcomes
  <1>7. CASE Tick
    <2>1. now' \in 1..MaxTime /\ 0..now \subseteq 0..now'
      BY <1>7, GateAssumption DEF Tick
    <2>2. entries' \in [Sources -> [started : 0..now', count : Nat]]
      BY <1>7, <2>1 DEF Tick
    <2>3. QED
      BY <1>7, <2>1, <2>2 DEF Tick
  <1>8. CASE Restart
    <2>1. entries' \in [Sources -> [started : 0..now, count : Nat]]
      BY <1>8 DEF Restart, NoWindow
    <2>2. \A s \in Sources : entries'[s].count <= Limit[s[2]]
      <3> TAKE s \in Sources
      <3>1. Limit[s[2]] \in Nat /\ entries'[s].count = 0
        BY <1>8, GateAssumption DEF Restart, NoWindow, Sources
      <3>2. QED
        BY <3>1
    <2>3. secret' \in Nat \ {0} /\ restarts' \in 0..MaxRestarts
      BY <1>8, GateAssumption DEF Restart
    <2>4. tab' \in [Tabs -> TabType]
      <3> SUFFICES ASSUME NEW t \in Tabs
                   PROVE  [Idle EXCEPT !.sent = tab[t].sent] \in TabType
        BY <1>8 DEF Restart
      <3>1. tab[t].sent \in 0..MaxSent
        BY SourceTyped DEF TabType
      <3>2. QED
        BY <3>1, GateAssumption DEF Idle, TabType, Outcomes
    <2>5. QED
      BY <1>8, <2>1, <2>2, <2>3, <2>4 DEF Restart
  <1>9. CASE UNCHANGED vars
    BY <1>9 DEF vars
  <1>10. ASSUME NEW t \in Tabs, ReadClock(t) PROVE TypeOK'
    <2>1. tab' \in [Tabs -> TabType]
      <3> DEFINE new == [tab[t] EXCEPT !.pc = "timed", !.at = now]
      <3>1. now \in Nat
        BY GateAssumption
      <3>2. new \in TabType
        BY <3>1, SourceTyped DEF TabType
      <3>3. tab' = [tab EXCEPT ![t] = new] /\ tab \in [Tabs -> TabType] /\ t \in Tabs
        BY <1>10 DEF ReadClock
      <3> HIDE DEF new, TypeOK
      <3>4. QED
        BY <3>2, <3>3
    <2>2. QED
      BY <1>10, <2>1 DEF ReadClock
  <1>11. QED
    BY <1>1, <1>2, <1>3, <1>4, <1>5, <1>6, <1>7, <1>8, <1>9, <1>10 DEF Next, Stop

-----------------------------------------------------------------------------
(* Readiness                                                                *)

LEMMA StepReady ==
  ASSUME IInv, [Next]_vars,
         NEW t \in calm', tab'[t].outcome = "refused"
  PROVE  Ready(t)'
  <1> USE DEF IInv
  <1> t \in Tabs
    BY StepTypes DEF TypeOK
  <1>1. tab[t] \in TabType /\ BrowserOf[t] \in Browsers
    BY SourceTyped
  <1>2. ASSUME NEW u \in Tabs, Build(u) PROVE Ready(t)'
    <2>1. calm' = calm /\ UNCHANGED <<cookie, secret>> /\ (u # t => tab'[t] = tab[t])
      BY <1>2 DEF Build, TypeOK
    <2>2. CASE u # t
      BY <2>1, <2>2 DEF Ready, At, ValidToken
    <2>3. CASE u = t
      <3>1. PICK p \in Paths :
              tab' = [tab EXCEPT ![t].pc = "built", ![t].path = p, ![t].sent = @ + 1,
                                 ![t].header = IF p \in Writes THEN cookie[BrowserOf[t]] ELSE None]
        BY <1>2, <2>3 DEF Build
      <3>2. /\ tab'[t].pc = "built" /\ tab'[t].path = p /\ tab'[t].outcome = tab[t].outcome
            /\ p \in Writes => tab'[t].header = cookie[BrowserOf[t]]
        BY <1>1, <3>1 DEF TypeOK, TabType
      <3>3. ValidToken(cookie[BrowserOf[t]])
        BY <1>2, <2>1, <2>3, <3>2 DEF Build, Ready
      <3>4. QED
        BY <2>1, <3>2, <3>3 DEF Ready, At, ValidToken
    <2>4. QED
      BY <2>2, <2>3
  <1>3. ASSUME NEW u \in Tabs, Send(u) PROVE Ready(t)'
    <2>1. calm' = calm /\ UNCHANGED <<cookie, secret>> /\ (u # t => tab'[t] = tab[t])
      BY <1>3 DEF Send, TypeOK
    <2>2. CASE u # t
      BY <2>1, <2>2 DEF Ready, At, ValidToken
    <2>3. CASE u = t
      <3>1. /\ tab'[t].pc = "sent" /\ tab'[t].path = tab[t].path
            /\ tab'[t].header = tab[t].header /\ tab'[t].outcome = tab[t].outcome
            /\ tab'[t].cookie = cookie[BrowserOf[t]]
        BY <1>1, <1>3, <2>3 DEF Send, TypeOK, TabType
      <3>2. QED
        BY <1>3, <2>1, <2>3, <3>1 DEF Send, Ready, At, ValidToken
    <2>4. QED
      BY <2>2, <2>3
  <1>4. ASSUME NEW u \in Tabs, Receive(u) PROVE Ready(t)'
    <2>1. secret' = secret /\ (u # t => tab'[t] = tab[t])
      BY <1>4 DEF Receive, TypeOK
    <2>2. t \in calm
      BY <1>4 DEF Receive
    <2>3. CASE u # t
      <3>1. cookie'[BrowserOf[t]] = cookie[BrowserOf[t]]
        BY <1>1, <1>4, <2>3 DEF Receive, TypeOK
      <3>2. QED
        BY <2>1, <2>2, <2>3, <3>1 DEF Ready, At, ValidToken
    <2>4. CASE u = t
      <3>1. tab'[t].pc = "idle" /\ tab'[t].outcome = tab[t].outcome
        BY <1>4, <2>4 DEF Receive, Idle, TypeOK
      <3>2. ValidToken(cookie'[BrowserOf[t]])
        BY <1>1, <1>4, <2>2, <2>4, <3>1 DEF Receive, Ready, TypeOK
      <3>3. QED
        BY <2>1, <3>1, <3>2 DEF Ready, At, ValidToken
    <2>5. QED
      BY <2>3, <2>4
  <1>5. ASSUME NEW u \in Tabs, NEW o \in Outcomes, SecurityMiddleware(u, o) PROVE Ready(t)'
    <2>1. UNCHANGED <<cookie, secret>> /\ (u # t => tab'[t] = tab[t])
      BY <1>5, AnswerTypes
    <2>2. CASE u # t
      <3>1. t \in calm
        BY <1>5, <2>2 DEF SecurityMiddleware
      <3>2. QED
        BY <2>1, <2>2, <3>1 DEF Ready, At, ValidToken
    <2>3. CASE u = t
      <3>1. /\ tab'[t].pc = "answered"
            /\ tab'[t].set = IF ValidToken(tab[t].cookie) THEN None ELSE Effective(t)
        BY <1>5, <2>3, AnswerTypes
      <3>2. tab[t].cookie = cookie[BrowserOf[t]]
        BY <1>5, <2>3 DEF SecurityMiddleware, Undisturbed
      <3>3. Effective(t) # None /\ ValidToken(Effective(t))
        BY TokenTyped DEF ValidToken
      <3>4. QED
        BY <2>1, <3>1, <3>2, <3>3 DEF Ready, At, ValidToken
    <2>4. QED
      BY <2>2, <2>3
  <1>6. ASSUME NEW u \in Tabs, ReadClock(u) PROVE Ready(t)'
    <2>1. calm' = calm /\ UNCHANGED <<cookie, secret>> /\ (u # t => tab'[t] = tab[t])
      BY <1>6 DEF ReadClock, TypeOK
    <2>2. CASE u # t
      BY <2>1, <2>2 DEF Ready, At, ValidToken
    <2>3. CASE u = t
      <3>1. /\ tab'[t].pc = "timed" /\ tab'[t].path = tab[t].path
            /\ tab'[t].header = tab[t].header /\ tab'[t].outcome = tab[t].outcome
            /\ tab'[t].cookie = tab[t].cookie
        BY <1>1, <1>6, <2>3 DEF ReadClock, TypeOK, TabType
      <3>2. QED
        BY <1>6, <2>1, <2>3, <3>1 DEF ReadClock, Ready, At, ValidToken
    <2>4. QED
      BY <2>2, <2>3
  <1>7. CASE Restart
    <2>1. t \in calm /\ secret' = secret /\ cookie' = cookie
      BY <1>7 DEF Restart
    <2>2. tab'[t] = tab[t]
      BY <1>7 DEF Restart, Idle
    <2>3. QED
      BY <2>1, <2>2 DEF Ready, At, ValidToken
  <1>8. CASE Tick \/ UNCHANGED vars
    BY <1>8 DEF Tick, vars, Ready, At, ValidToken
  <1>9. QED
    BY <1>2, <1>3, <1>4, <1>5, <1>6, <1>7, <1>8
       DEF Next, Refuse, Pass, Deny, Stop, Outcomes

-----------------------------------------------------------------------------
(* The limiter                                                              *)

(* One more restart, or one more window opened late, makes room for a limit *)
(* more.                                                                    *)
LEMMA Rooms ==
  ASSUME NEW k \in Nat, NEW l \in Nat
  PROVE  /\ k * l \in Nat /\ (k + 1) * l = k * l + l
         /\ (2 + k) * l = k * l + l + l
  OBVIOUS

(* What the proofs need of the types of one source.                         *)
LEMMA MeterTypes ==
  ASSUME TypeOK, NEW s \in Sources
  PROVE  /\ passes[s] \in [0..MaxTime -> Nat]
         /\ entries[s].started \in 0..now /\ entries[s].count \in Nat
         /\ Limit[s[2]] \in Nat /\ entries[s].count <= Limit[s[2]]
         /\ now \in 1..MaxTime /\ now \in Nat /\ restarts \in Nat /\ late[s] \in Nat
         /\ MaxTime \in Nat /\ Window \in Nat \ {0}
         /\ \A m \in 1..MaxTime :
              /\ SpanEnd(m) \in Nat /\ SpanEnd(m) \in 0..MaxTime /\ SpanEnd(m) <= MaxTime
              /\ m \in Nat /\ m - 1 \in Nat /\ m - 1 \in 0..MaxTime
              /\ SpanEnd(m) >= m /\ SpanEnd(m) < m + Window
              /\ now >= m /\ now < m + Window => SpanEnd(m) >= now
  <1>1. s[2] \in Paths
    BY DEF Sources
  <1>2. MaxTime \in Nat /\ Window \in Nat \ {0} /\ now \in 1..MaxTime
    BY GateAssumption DEF TypeOK
  <1>3. ASSUME NEW m \in 1..MaxTime
        PROVE  /\ SpanEnd(m) \in Nat /\ SpanEnd(m) \in 0..MaxTime /\ SpanEnd(m) <= MaxTime
               /\ m \in Nat /\ m - 1 \in Nat /\ m - 1 \in 0..MaxTime
               /\ SpanEnd(m) >= m /\ SpanEnd(m) < m + Window
               /\ now >= m /\ now < m + Window => SpanEnd(m) >= now
    BY <1>2 DEF SpanEnd
  <1>4. late[s] \in Nat /\ restarts \in Nat
    BY GateAssumption DEF TypeOK
  <1>5. QED
    BY <1>1, <1>2, <1>3, <1>4, GateAssumption DEF TypeOK

LEMMA InitMetered == Init => Metered
  <1> SUFFICES ASSUME Init, NEW s \in Sources, Limit[s[2]] > 0
               PROVE  Growing(s) /\ Counting(s) /\ Bounded(s)
    BY DEF Metered
  <1>1. TypeOK
    BY InitTypes
  <1>2. \A n \in 0..MaxTime : passes[s][n] = 0
    BY DEF Init
  <1>3. entries[s].started = 0 /\ restarts = 0 /\ late[s] = 0
    BY DEF Init, NoWindow
  <1>4. Growing(s)
    <2>1. now \in 0..MaxTime /\ now \in Nat /\ MaxTime \in Nat
      BY <1>1, MeterTypes
    <2>2. \A m, n \in 0..MaxTime : passes[s][m] <= passes[s][n]
      BY <1>2
    <2>3. \A n \in now..MaxTime : passes[s][n] = passes[s][now]
      BY <1>2, <2>1
    <2>4. QED
      BY <2>2, <2>3 DEF Growing
  <1>5. Counting(s)
    BY <1>3 DEF Counting
  <1>6. Bounded(s)
    <2> SUFFICES ASSUME NEW m \in 1..MaxTime
                 PROVE  /\ PassedIn(s, m, SpanEnd(m)) < (0 + 0) * Limit[s[2]] + Limit[s[2]] + Limit[s[2]]
                        /\ PassedIn(s, m, SpanEnd(m)) < (0 + 0) * Limit[s[2]] + Limit[s[2]]
                        /\ ~(m <= entries[s].started)
      BY <1>3 DEF Bounded
    <2>1. PassedIn(s, m, SpanEnd(m)) = 0
      <3>1. SpanEnd(m) \in 0..MaxTime /\ m - 1 \in 0..MaxTime
        BY <1>1, MeterTypes
      <3>2. QED
        BY <1>2, <3>1 DEF PassedIn
    <2>2. Limit[s[2]] \in Nat
      BY <1>1, MeterTypes
    <2>3. QED
      BY <1>3, <2>1, <2>2
  <1>7. QED
    BY <1>4, <1>5, <1>6

(* A step that lets no request of s pass.                                   *)
LEMMA QuietMetered ==
  ASSUME TypeOK, TypeOK', NEW s \in Sources, Limit[s[2]] > 0,
         Growing(s), Counting(s), Bounded(s),
         passes'[s] = passes[s], entries'[s] = entries[s], restarts' = restarts,
         late'[s] = late[s], now' >= now
  PROVE  Growing(s)' /\ Counting(s)' /\ Bounded(s)'
  <1>1. /\ now \in 1..MaxTime /\ now' \in 1..MaxTime /\ MaxTime \in Nat
        /\ entries[s].started \in 0..now
    BY MeterTypes DEF TypeOK
  <1>2. passes[s][now'] = passes[s][now]
    BY <1>1 DEF Growing
  <1>3. Growing(s)'
    BY <1>1, <1>2 DEF Growing
  <1>4. Counting(s)'
    BY <1>2 DEF Counting, PassedIn
  <1>5. Bounded(s)'
    BY DEF Bounded, PassedIn, SpanEnd
  <1>6. QED
    BY <1>3, <1>4, <1>5

(* A request of s passes: it fits the window, or opens one, and every span  *)
(* that holds it had room for it.                                           *)
LEMMA PassMetered ==
  ASSUME TypeOK, NEW s \in Sources, Limit[s[2]] > 0, NEW at \in Nat, at > 0, at <= now,
         Growing(s), Counting(s), Bounded(s),
         passes'[s] = OneMore(s), now' = now, restarts' = restarts,
         \/ /\ Over(entries[s], at)
            /\ entries'[s] = [started |-> at, count |-> 1]
            /\ late'[s] = IF at # now THEN late[s] + 1 ELSE late[s]
         \/ /\ ~Over(entries[s], at) /\ entries[s].count < Limit[s[2]]
            /\ entries'[s].started = entries[s].started
            /\ entries'[s].count = entries[s].count + 1
            /\ late'[s] = late[s]
  PROVE  Growing(s)' /\ Counting(s)' /\ Bounded(s)'
  <1> DEFINE L == Limit[s[2]]
             P == passes[s]
             Q == passes'[s]
             start == entries[s].started
             count == entries[s].count
             start2 == entries'[s].started
             count2 == entries'[s].count
             used == (restarts + late[s]) * L
             used2 == (restarts' + late'[s]) * L
  <1>1. /\ start \in Nat /\ start <= now /\ count \in Nat /\ L \in Nat /\ L > 0 /\ count <= L
        /\ now \in Nat /\ 1 <= now /\ now <= MaxTime /\ MaxTime \in Nat
        /\ Window \in Nat /\ Window > 0
        /\ restarts \in Nat /\ late[s] \in Nat
    BY MeterTypes
  <1>2. /\ used \in Nat /\ used2 \in Nat
        /\ late'[s] = late[s] => used2 = used
        /\ late'[s] = late[s] + 1 => used2 = used + L
    <2>1. restarts + late[s] \in Nat /\ restarts + (late[s] + 1) = (restarts + late[s]) + 1
      BY <1>1
    <2>2. /\ (restarts + late[s]) * L \in Nat
          /\ ((restarts + late[s]) + 1) * L = (restarts + late[s]) * L + L
      BY <1>1, <2>1, Rooms
    <2>3. late'[s] = late[s] \/ late'[s] = late[s] + 1
      OBVIOUS
    <2> HIDE DEF L
    <2>4. QED
      BY <1>1, <2>1, <2>2, <2>3
  <1>3. ASSUME NEW n \in Nat, n <= MaxTime
        PROVE  /\ P[n] \in Nat /\ Q[n] \in Nat
               /\ Q[n] = IF n < now THEN P[n] ELSE P[n] + 1
    <2>1. n \in 0..MaxTime
      BY <1>1, <1>3
    <2>2. P[n] \in Nat
      BY <2>1, MeterTypes
    <2>3. Q[n] = IF n < now THEN P[n] ELSE P[n] + 1
      BY <2>1 DEF OneMore
    <2> HIDE DEF P, Q
    <2>4. QED
      BY <2>2, <2>3
  <1>4. ASSUME NEW m \in Nat, NEW n \in Nat, m <= n, n <= MaxTime
        PROVE  P[m] <= P[n] /\ (now <= m => P[m] = P[now])
    <2>1. m \in 0..MaxTime /\ n \in 0..MaxTime /\ (now <= m => m \in now..MaxTime)
      BY <1>1, <1>4
    <2>2. QED
      BY <1>4, <2>1 DEF Growing
  <1>5. start # 0 => P[now] - P[start - 1] >= count
    BY DEF Counting, PassedIn
  <1>6. ASSUME NEW m \in 1..MaxTime
        PROVE  /\ P[SpanEnd(m)] - P[m - 1] < used + L + L
               /\ start = 0 => P[SpanEnd(m)] - P[m - 1] < used + L
               /\ start # 0 /\ start < m => P[SpanEnd(m)] - P[m - 1] < used + count
               /\ m <= start /\ start < m + Window => P[SpanEnd(m)] - P[m - 1] < used + L + count
    BY DEF Bounded, PassedIn
  <1>7. /\ start2 \in Nat /\ count2 \in Nat
        /\ \/ /\ start = 0 \/ at - start >= Window
              /\ start2 = at /\ count2 = 1
              /\ late'[s] = IF at # now THEN late[s] + 1 ELSE late[s]
           \/ /\ start # 0 /\ start2 = start /\ count2 = count + 1 /\ count < L
              /\ late'[s] = late[s]
    BY <1>1 DEF Over
  <1>8. ASSUME NEW m \in 1..MaxTime
        PROVE  /\ SpanEnd(m) \in Nat /\ SpanEnd(m) <= MaxTime
               /\ m - 1 \in Nat /\ m \in Nat
               /\ SpanEnd(m) >= m /\ SpanEnd(m) < m + Window
               /\ now >= m /\ now < m + Window => SpanEnd(m) >= now
    BY MeterTypes
  <1> HIDE DEF L, P, Q, start, count, start2, count2, used, used2
  <1>9. \A m, n \in 0..MaxTime : m <= n => Q[m] <= Q[n]
    <2> SUFFICES ASSUME NEW m \in Nat, NEW n \in Nat, m <= n, n <= MaxTime PROVE Q[m] <= Q[n]
      BY <1>1
    <2>1. P[m] <= P[n]
      BY <1>4
    <2>2. /\ P[m] \in Nat /\ Q[m] \in Nat
          /\ Q[m] = IF m < now THEN P[m] ELSE P[m] + 1
      BY <1>1, <1>3
    <2>3. /\ P[n] \in Nat /\ Q[n] \in Nat
          /\ Q[n] = IF n < now THEN P[n] ELSE P[n] + 1
      BY <1>3
    <2>4. QED
      BY <1>1, <2>1, <2>2, <2>3
  <1>10. \A n \in now..MaxTime : Q[n] = Q[now]
    <2> SUFFICES ASSUME NEW n \in Nat, now <= n, n <= MaxTime PROVE Q[n] = Q[now]
      BY <1>1
    <2>1. P[n] = P[now]
      BY <1>1, <1>4
    <2>2. Q[n] = P[n] + 1 /\ Q[now] = P[now] + 1
      BY <1>1, <1>3
    <2>3. QED
      BY <2>1, <2>2
  <1>11. start2 # 0 /\ Q[now] - Q[start2 - 1] >= count2
    <2>1. /\ start2 # 0 /\ start2 - 1 \in Nat /\ start2 - 1 < now /\ start2 - 1 <= MaxTime
      BY <1>1, <1>7
    <2>2. P[start2 - 1] <= P[now]
      BY <1>1, <1>4, <2>1
    <2>3. P[now] \in Nat /\ Q[now] = P[now] + 1
      BY <1>1, <1>3
    <2>4. P[start2 - 1] \in Nat /\ Q[start2 - 1] = P[start2 - 1]
      BY <1>3, <2>1
    <2>5. CASE count2 = 1
      BY <2>1, <2>2, <2>3, <2>4, <2>5
    <2>6. CASE start # 0 /\ start2 = start /\ count2 = count + 1
      <3>1. P[now] - P[start2 - 1] >= count
        BY <1>5, <2>6
      <3>2. QED
        BY <1>1, <2>1, <2>3, <2>4, <2>6, <3>1
    <2>7. QED
      BY <1>7, <2>5, <2>6
  <1>12. ASSUME NEW m \in 1..MaxTime
         PROVE  /\ Q[SpanEnd(m)] - Q[m - 1] < used2 + L + L
                /\ start2 < m => Q[SpanEnd(m)] - Q[m - 1] < used2 + count2
                /\ m <= start2 /\ start2 < m + Window =>
                     Q[SpanEnd(m)] - Q[m - 1] < used2 + L + count2
    <2> DEFINE z == SpanEnd(m)
               was == P[z] - P[m - 1]
               is == Q[z] - Q[m - 1]
    <2>1. /\ z \in Nat /\ z <= MaxTime /\ m - 1 \in Nat /\ m \in Nat /\ z >= m
          /\ z < m + Window /\ (now >= m /\ now < m + Window => z >= now)
      BY <1>8
    <2>2. /\ P[m - 1] \in Nat /\ Q[m - 1] \in Nat
          /\ Q[m - 1] = IF m - 1 < now THEN P[m - 1] ELSE P[m - 1] + 1
      BY <1>1, <1>3, <2>1
    <2>3. /\ P[z] \in Nat /\ Q[z] \in Nat
          /\ Q[z] = IF z < now THEN P[z] ELSE P[z] + 1
      BY <1>3, <2>1
    <2>4. /\ was < used + L + L
          /\ start = 0 => was < used + L
          /\ start # 0 /\ start < m => was < used + count
          /\ m <= start /\ start < m + Window => was < used + L + count
      BY <1>6
    <2> HIDE DEF z
    <2>5. was \in Int /\ is = IF m <= now /\ now <= z THEN was + 1 ELSE was
      BY <1>1, <2>1, <2>2, <2>3
    <2>6. ASSUME now < m PROVE was = 0
      <3>1. P[m - 1] = P[now] /\ P[z] = P[now] /\ P[now] \in Nat
        BY <1>1, <1>3, <1>4, <2>1, <2>6
      <3>2. QED
        BY <3>1
    <2> HIDE DEF was, is
    <2> DEFINE goal == /\ is < used2 + L + L
                       /\ start2 < m => is < used2 + count2
                       /\ m <= start2 /\ start2 < m + Window => is < used2 + L + count2
    <2>7. ASSUME start = 0 \/ at - start >= Window, start2 = at, count2 = 1,
                 at = now, used2 = used
          PROVE  goal
      <3>1. m <= now /\ now <= z => was < used + L
        BY <1>1, <1>2, <2>1, <2>4, <2>5, <2>7
      <3>2. QED
        BY <1>1, <1>2, <2>1, <2>4, <2>5, <2>6, <2>7, <3>1
    <2>8. ASSUME start = 0 \/ at - start >= Window, start2 = at, count2 = 1,
                 at < now, used2 = used + L
          PROVE  goal
      <3>1. at < m => was < used + L
        BY <1>1, <1>2, <2>1, <2>4, <2>5, <2>8
      <3>2. is <= was + 1 /\ is \in Int
        BY <2>5
      <3>3. QED
        BY <1>1, <1>2, <2>1, <2>4, <2>5, <2>8, <3>1, <3>2
    <2>9. ASSUME start # 0, start2 = start, count2 = count + 1, count < L, used2 = used
          PROVE  goal
      <3>1. m <= now /\ now <= z /\ m <= start => start < m + Window
        BY <1>1, <2>1
      <3>2. QED
        BY <1>1, <1>2, <2>1, <2>4, <2>5, <2>9, <3>1
    <2>10. goal
      BY <1>1, <1>2, <1>7, <2>7, <2>8, <2>9
    <2>11. QED
      BY <2>10 DEF z, is
  <1>13. Growing(s)'
    BY <1>9, <1>10 DEF Growing, Q
  <1>14. Counting(s)'
    BY <1>11 DEF Counting, PassedIn, Q, start2, count2
  <1>15. Bounded(s)'
    <2>1. ASSUME NEW m \in 1..MaxTime
          PROVE  LET p == PassedIn(s, m, SpanEnd(m))'
                     e == entries'[s]
                 IN  /\ p < used2 + L + L
                     /\ e.started = 0 => p < used2 + L
                     /\ e.started # 0 /\ e.started < m => p < used2 + e.count
                     /\ m <= e.started /\ e.started < m + Window => p < used2 + L + e.count
      <3> DEFINE d == Q[SpanEnd(m)] - Q[m - 1]
      <3>1. /\ d < used2 + L + L
            /\ start2 < m => d < used2 + count2
            /\ m <= start2 /\ start2 < m + Window => d < used2 + L + count2
        BY <1>12, Zenon
      <3>2. PassedIn(s, m, SpanEnd(m))' = d
        BY DEF PassedIn, Q, SpanEnd
      <3> HIDE DEF d
      <3>3. QED
        BY <1>11, <3>1, <3>2 DEF start2, count2
    <2>2. QED
      BY <2>1 DEF Bounded, used2, L
  <1>16. QED
    BY <1>13, <1>14, <1>15

LEMMA StepMetered == TypeOK /\ Metered /\ [Next]_vars => Metered'
  <1> SUFFICES ASSUME TypeOK, Metered, [Next]_vars, NEW s \in Sources, Limit[s[2]] > 0
               PROVE  Growing(s)' /\ Counting(s)' /\ Bounded(s)'
    BY DEF Metered
  <1>1. TypeOK'
    BY StepTypes
  <1>2. Growing(s) /\ Counting(s) /\ Bounded(s)
    BY DEF Metered
  <1>3. now \in Nat
    BY MeterTypes
  <1>4. ASSUME NEW t \in Tabs, Pass(t) PROVE Growing(s)' /\ Counting(s)' /\ Bounded(s)'
    <2>1. now' = now /\ restarts' = restarts
      BY <1>4 DEF Pass, SecurityMiddleware, Admit
    <2>2. Source(t) \in Sources /\ Source(t)[2] = tab[t].path
      BY SourceTyped
    <2>3. CASE s # Source(t)
      <3>1. passes'[s] = passes[s]
        BY <1>4, <2>3 DEF Pass, TypeOK
      <3>2. entries'[s] = entries[s] /\ late'[s] = late[s]
        BY <1>4, <2>3 DEF Pass, Admit, TypeOK
      <3>3. QED
        BY <1>1, <1>2, <1>3, <2>1, <3>1, <3>2, QuietMetered
    <2>4. CASE s = Source(t)
      <3> DEFINE at == tab[t].at
      <3>1. passes'[s] = OneMore(s)
        BY <1>4, <2>4 DEF Pass, TypeOK
      <3>2. At(t, "timed") /\ Admit(t)
        BY <1>4, <2>2, <2>4 DEF Limited, Pass
      <3>3. at \in Nat /\ at > 0 /\ at <= now
        <4>1. tab[t] \in TabType /\ Readings
          BY SourceTyped DEF TypeOK
        <4>2. QED
          BY <3>2, <4>1 DEF TabType, Readings
      <3>4. CASE Over(entries[s], at)
        <4>1. entries'[s] = [started |-> at, count |-> 1]
          BY <2>4, <3>2, <3>4 DEF Admit, TypeOK
        <4>2. late'[s] = IF at # now THEN late[s] + 1 ELSE late[s]
          BY <2>4, <3>2, <3>4 DEF Admit, TypeOK
        <4> HIDE DEF at
        <4>3. QED
          BY <1>2, <2>1, <3>1, <3>3, <3>4, <4>1, <4>2, PassMetered
      <3>5. CASE ~Over(entries[s], at)
        <4>1. /\ entries[s].count < Limit[s[2]]
              /\ entries' = [entries EXCEPT ![s] = [entries[s] EXCEPT !.count = entries[s].count + 1]]
              /\ late' = late
          BY <2>4, <3>2, <3>5 DEF Admit
        <4>2. entries[s] \in [started : 0..now, count : Nat]
          BY DEF TypeOK
        <4>3. /\ entries'[s].started = entries[s].started
              /\ entries'[s].count = entries[s].count + 1
          BY <4>1, <4>2 DEF TypeOK
        <4> HIDE DEF at
        <4>4. QED
          BY <1>2, <2>1, <3>1, <3>3, <3>5, <4>1, <4>3, PassMetered
      <3>6. QED
        BY <3>4, <3>5
    <2>5. QED
      BY <2>3, <2>4
  <1>5. CASE Restart
    <2>1. /\ passes' = passes /\ now' = now /\ restarts' = restarts + 1 /\ late' = late
          /\ entries'[s].started = 0
      BY <1>5 DEF Restart, NoWindow
    <2>2. Growing(s)' /\ Counting(s)'
      BY <1>2, <2>1 DEF Growing, Counting
    <2>3. Bounded(s)'
      <3> DEFINE used == (restarts + late[s]) * Limit[s[2]]
                 used2 == (restarts + 1 + late[s]) * Limit[s[2]]
      <3> SUFFICES ASSUME NEW m \in 1..MaxTime
                   PROVE  /\ PassedIn(s, m, SpanEnd(m)) < used2 + Limit[s[2]] + Limit[s[2]]
                          /\ PassedIn(s, m, SpanEnd(m)) < used2 + Limit[s[2]]
                          /\ ~(m <= 0)
        BY <2>1 DEF Bounded, PassedIn, SpanEnd
      <3>1. PassedIn(s, m, SpanEnd(m)) < used + Limit[s[2]] + Limit[s[2]]
        BY <1>2 DEF Bounded
      <3>2. PassedIn(s, m, SpanEnd(m)) \in Int
        <4>1. SpanEnd(m) \in 0..MaxTime /\ m - 1 \in 0..MaxTime
          BY MeterTypes
        <4>2. passes[s][SpanEnd(m)] \in Nat /\ passes[s][m - 1] \in Nat
          BY <4>1, MeterTypes
        <4>3. QED
          BY <4>2 DEF PassedIn
      <3>3. restarts \in Nat /\ late[s] \in Nat /\ Limit[s[2]] \in Nat
        BY MeterTypes
      <3>4. used \in Nat /\ used2 = used + Limit[s[2]]
        <4>1. restarts + late[s] \in Nat /\ restarts + 1 + late[s] = (restarts + late[s]) + 1
          BY <3>3
        <4>2. /\ (restarts + late[s]) * Limit[s[2]] \in Nat
              /\ ((restarts + late[s]) + 1) * Limit[s[2]] = (restarts + late[s]) * Limit[s[2]] + Limit[s[2]]
          BY <3>3, <4>1, Rooms
        <4>3. QED
          BY <4>1, <4>2
      <3> HIDE DEF used, used2
      <3>5. QED
        BY <3>1, <3>2, <3>3, <3>4
    <2>4. QED
      BY <2>2, <2>3
  <1>6. ASSUME /\ UNCHANGED <<entries, passes, restarts, late>>
               /\ now' \in {now, now + 1}
        PROVE  Growing(s)' /\ Counting(s)' /\ Bounded(s)'
    BY <1>1, <1>2, <1>3, <1>6, QuietMetered
  <1>7. QED
    BY <1>4, <1>5, <1>6, Zenon
       DEF Next, Build, Send, Receive, Refuse, ReadClock, Deny, SecurityMiddleware, Tick, Stop, vars

-----------------------------------------------------------------------------
(* The theorems                                                             *)

(* The step that answers a tab's request is the one its outcome names.      *)
LEMMA OutcomeOf ==
  ASSUME TypeOK, [Next]_vars, NEW t \in Tabs, At(t, "sent") \/ At(t, "timed"),
         tab'[t].pc = "answered"
  PROVE  /\ tab'[t].outcome = "refused" => Refuse(t)
         /\ tab'[t].outcome = "limited" => Deny(t)
  <1>1. tab'[t] # tab[t] /\ tab[t] \in TabType
    BY SourceTyped DEF At
  <1>2. PICK u \in Tabs : \/ Build(u) \/ Send(u) \/ Receive(u) \/ ReadClock(u)
                         \/ Refuse(u) \/ Pass(u) \/ Deny(u)
    <2>1. ~Restart
      BY <1>1 DEF Restart, Idle
    <2>2. QED
      BY <1>1, <2>1 DEF Next, Tick, Stop, vars
  <1>3. u = t
    <2>1. Build(u) \/ Send(u) \/ Receive(u) \/ ReadClock(u) => (u # t => tab'[t] = tab[t])
      BY DEF Build, Send, Receive, ReadClock, TypeOK
    <2>2. Refuse(u) \/ Pass(u) \/ Deny(u) => (u # t => tab'[t] = tab[t])
      BY AnswerTypes DEF Refuse, Pass, Deny, Outcomes
    <2>3. QED
      BY <1>1, <1>2, <2>1, <2>2
  <1>4. Refuse(t) \/ Pass(t) \/ Deny(t)
    <2>1. ~ReadClock(t)
      BY <1>1 DEF ReadClock, TypeOK, TabType
    <2>2. QED
      BY <1>2, <1>3, <2>1 DEF Build, Send, Receive, At
  <1>5. \A o \in Outcomes : SecurityMiddleware(t, o) => tab'[t].outcome = o
    BY AnswerTypes
  <1>6. QED
    BY <1>4, <1>5 DEF Refuse, Pass, Deny, Outcomes

LEMMA Inductive == Spec => []IInv
  <1>1. Init => IInv
    BY InitTypes DEF Init, IInv
  <1>2. IInv /\ [Next]_vars => IInv'
    BY StepTypes, StepReady DEF IInv
  <1>3. QED
    BY <1>1, <1>2, PTL DEF Spec

(* Tabs, tokens and windows keep their types, and the limiter never counts  *)
(* more than the limit in a window.                                         *)
THEOREM TypeCorrect == Spec => []TypeOK
  <1>1. IInv => TypeOK
    BY DEF IInv
  <1>2. QED
    BY <1>1, Inductive, PTL

(* However many tabs, browsers, restarts and requests interleave, a tab     *)
(* whose write was refused is not refused when it tries again, unless       *)
(* another tab changed the cookie or the server's secret changed.           *)
THEOREM NoSecondRefusal == Spec => RefusedOnce
  <1>1. ASSUME IInv, [Next]_vars, NEW t \in Tabs, At(t, "sent"),
               tab'[t].pc = "answered", tab'[t].outcome = "refused",
               t \in calm, tab[t].outcome = "refused"
        PROVE  FALSE
    <2> USE DEF IInv
    <2>1. tab[t].pc = "sent" /\ tab[t] \in TabType
      BY <1>1, SourceTyped DEF At
    <2>2. ValidToken(tab[t].cookie) /\ (tab[t].path \in Writes => tab[t].header = tab[t].cookie)
      BY <1>1 DEF Ready
    <2>3. tab[t].path \in Writes => tab[t].header = Effective(t)
      BY <1>1, <2>2, TokenTyped
    <2>4. Refuse(t)
      BY <1>1, <2>1, OutcomeOf
    <2>5. QED
      BY <2>3, <2>4 DEF Refuse, Repeats
  <1>2. IInv /\ [Next]_vars =>
          [\A t \in Tabs : At(t, "sent") /\ tab'[t].pc = "answered" /\ tab'[t].outcome = "refused" =>
             ~(t \in calm /\ tab[t].outcome = "refused")]_vars
    BY <1>1
  <1>3. QED
    BY <1>2, Inductive, PTL DEF Spec, RefusedOnce

(* For every limit, window, number of restarts and of requests that wait    *)
(* for the lock with an old reading of the clock: in no span of a window's  *)
(* length pass twice as many requests of an address as the limit allows,    *)
(* but for the limit once more for each restart and each window that was    *)
(* opened with an old reading.                                              *)
THEOREM RateBounded == Spec => []LessThanTwice
  <1>1. TypeOK /\ Metered => LessThanTwice
    <2> SUFFICES ASSUME TypeOK, Metered, NEW s \in Sources, Limit[s[2]] > 0, NEW m \in 1..MaxTime
                 PROVE  PassedIn(s, m, SpanEnd(m)) < (2 + restarts + late[s]) * Limit[s[2]]
      BY DEF LessThanTwice
    <2> DEFINE L == Limit[s[2]]
               k == restarts + late[s]
    <2>1. PassedIn(s, m, SpanEnd(m)) < k * L + L + L
      BY DEF Metered, Bounded
    <2>2. L \in Nat /\ k \in Nat /\ 2 + restarts + late[s] = 2 + k
      <3>1. restarts \in Nat /\ late[s] \in Nat /\ L \in Nat
        BY MeterTypes
      <3> HIDE DEF L
      <3>2. QED
        BY <3>1
    <2> HIDE DEF L, k
    <2>3. (2 + k) * L = k * L + L + L
      BY <2>2, Rooms
    <2>4. PassedIn(s, m, SpanEnd(m)) < (2 + k) * L
      BY <2>1, <2>3
    <2>5. QED
      BY <2>2, <2>4 DEF L
  <1>2. QED
    BY <1>1, InitTypes, StepTypes, InitMetered, StepMetered, PTL DEF Spec

(* A request is only turned away when the limit has really passed from its  *)
(* address within a window's length of the time that it read.               *)
THEOREM OnlyTheBusyAreDenied == Spec => DeniedOnlyIfBusy
  <1>1. ASSUME TypeOK, Metered, [Next]_vars, NEW t \in Tabs, At(t, "timed"),
               tab'[t].outcome = "limited", tab'[t].pc = "answered"
        PROVE  PassedIn(Source(t), SpanStart(tab[t].at), now) >= Limit[tab[t].path]
    <2> DEFINE s == Source(t)
               e == entries[s]
               at == tab[t].at
    <2>1. s \in Sources /\ s[2] = tab[t].path /\ tab[t] \in TabType
      BY <1>1, SourceTyped
    <2>2. Deny(t)
      BY <1>1, <2>1, OutcomeOf DEF Outcomes
    <2>3. Limit[s[2]] > 0 /\ ~Over(e, at) /\ e.count >= Limit[s[2]]
      BY <1>1, <2>1, <2>2 DEF Deny, Limited, TypeOK, Readings
    <2>4. Growing(s) /\ Counting(s)
      BY <1>1, <2>1, <2>3 DEF Metered
    <2>5. /\ e.started \in Nat /\ e.started <= now /\ e.count \in Nat
          /\ now \in Nat /\ now <= MaxTime /\ MaxTime \in Nat /\ Window \in Nat /\ Window > 0
          /\ at \in Nat /\ at > 0 /\ at <= now
          /\ Limit[s[2]] \in Nat /\ passes[s] \in [0..MaxTime -> Nat]
      <3>1. /\ passes[s] \in [0..MaxTime -> Nat]
            /\ e.started \in 0..now /\ e.count \in Nat
            /\ Limit[s[2]] \in Nat
            /\ now \in 1..MaxTime /\ now \in Nat
            /\ MaxTime \in Nat /\ Window \in Nat \ {0}
        BY <1>1, <2>1, MeterTypes
      <3>2. at \in Nat /\ at > 0 /\ at <= now
        BY <1>1, <2>1 DEF TypeOK, Readings, TabType
      <3> HIDE DEF e, s, at
      <3>3. QED
        BY <3>1, <3>2
    <2>6. e.started # 0 /\ at - e.started < Window
      <3> HIDE DEF e, at
      <3>1. QED
        BY <2>3, <2>5 DEF Over
    <2> DEFINE opened == e.started - 1
               first == SpanStart(at) - 1
               P == passes[s]
    <2>7. P[now] - P[opened] >= e.count
      BY <2>4, <2>6 DEF Counting, PassedIn
    <2>8. opened \in Nat /\ first \in Nat /\ first <= opened /\ opened <= MaxTime
      <3> DEFINE k == e.started
      <3>1. /\ k \in Nat /\ k # 0 /\ k <= now /\ at - k < Window
            /\ now \in Nat /\ now <= MaxTime /\ MaxTime \in Nat /\ Window \in Nat /\ Window > 0
            /\ at \in Nat
        BY <2>5, <2>6
      <3>2. /\ opened = k - 1
            /\ first = (IF at - Window + 1 > 1 THEN at - Window + 1 ELSE 1) - 1
        BY DEF SpanStart
      <3> HIDE DEF k, e, s, first, opened, at
      <3>3. QED
        BY <3>1, <3>2
    <2>9. P[first] <= P[opened]
      <3> HIDE DEF first, opened
      <3>1. first \in 0..MaxTime /\ opened \in 0..MaxTime
        BY <2>5, <2>8
      <3>2. QED
        BY <2>4, <2>8, <3>1 DEF Growing
    <2>10. P[first] \in Nat /\ P[opened] \in Nat /\ P[now] \in Nat
      <3>1. P \in [0..MaxTime -> Nat]
        BY <2>5
      <3> HIDE DEF e, s, P, first, opened
      <3>2. first \in 0..MaxTime /\ opened \in 0..MaxTime /\ now \in 0..MaxTime
        BY <2>5, <2>8
      <3>3. QED
        BY <3>1, <3>2
    <2>11. PassedIn(s, SpanStart(at), now) >= Limit[s[2]]
      <3>1. PassedIn(s, SpanStart(at), now) = P[now] - P[first]
        BY DEF PassedIn
      <3> DEFINE before == P[first]
                 then == P[opened]
                 sofar == P[now]
                 count == e.count
                 limit == Limit[s[2]]
      <3>2. /\ before \in Nat /\ then \in Nat /\ sofar \in Nat /\ before <= then
            /\ sofar - then >= count /\ count \in Nat /\ limit \in Nat /\ count >= limit
        BY <2>3, <2>5, <2>7, <2>9, <2>10
      <3> HIDE DEF before, then, sofar, count, limit
      <3>3. sofar - before >= limit
        BY <3>2
      <3>4. QED
        BY <3>1, <3>3 DEF before, sofar, limit
    <2>12. QED
      BY <2>1, <2>11 DEF s
  <1>2. TypeOK /\ Metered /\ [Next]_vars =>
          [\A t \in Tabs : At(t, "timed") /\ tab'[t].outcome = "limited" /\ tab'[t].pc = "answered" =>
             PassedIn(Source(t), SpanStart(tab[t].at), now) >= Limit[tab[t].path]]_vars
    BY <1>1
  <1>3. QED
    BY <1>2, InitTypes, StepTypes, InitMetered, StepMetered, PTL DEF Spec, DeniedOnlyIfBusy
=============================================================================
