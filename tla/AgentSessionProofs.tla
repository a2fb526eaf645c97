------------------------- MODULE AgentSessionProofs -------------------------
(***************************************************************************)
(* Proofs about AgentSession, for every agent, every number of messages,   *)
(* calls, ticks and abort signals, and every depth of the pipeline.        *)
(***************************************************************************)
EXTENDS AgentSession, FiniteSetTheorems, WellFoundedInduction, TLAPS

LogTyped ==
    /\ \E S : log \in Seq(S)
    /\ \E S : out \in Seq(S)
    /\ at \in [Reader -> Int] /\ pos \in [Reader -> Nat] /\ calls \in Nat
    /\ gen \in [call : Nat, streaming : BOOLEAN, text : Texts \cup {"none"}]

\* A call is requested once, under an id of its own.
RequestedOnce ==
    /\ \A i \in 1..Len(log) : log[i].kind = "request" => log[i].id \in 1..calls
    /\ \A c \in net : c.kind = "request" => c.id \in 1..calls
    /\ \A i, j \in 1..Len(log) :
          log[i].kind = "request" /\ log[j].kind = "request" /\ log[i].id = log[j].id => i = j
    /\ \A i \in 1..Len(log), c \in net :
          log[i].kind = "request" /\ c.kind = "request" => log[i].id # c.id
    /\ \A c, d \in net : c.kind = "request" /\ d.kind = "request" /\ c.id = d.id => c = d

\* The request at r is for call k, came live to its service, and the service has taken it.
TakenAt(r, k) ==
    /\ log[r].kind = "request" /\ log[r].id = k
    /\ at[Service(log[r].info)] >= 0 /\ Live(Service(log[r].info), r)
    /\ r <= pos[Service(log[r].info)]

Taken(k) == \E r \in 1..Len(log) : TakenAt(r, k)

\* Whatever the services have under way or have written belongs to a request they took.
WorkIsTaken ==
    /\ \A i \in 1..Len(log) : log[i].kind = "response" => \E r \in 1..i - 1 : TakenAt(r, log[i].id)
    /\ \A i \in 1..Len(log) : log[i].kind = "done" => Taken(log[i].id)
    /\ \A c \in net : c.kind = "response" => Taken(c.id)
    /\ \A j \in 1..Len(out) : Taken(out[j].id) /\ out[j].kind \in {"text", "done", "response"}
    /\ gen # Idle => Taken(gen.call)

LogAnswers(k) == \E i \in 1..Len(log) : log[i].kind = "response" /\ log[i].id = k
NetAnswers(k) == \E c \in net : c.kind = "response" /\ c.id = k
OutAnswers(k) == \E j \in 1..Len(out) : out[j].kind = "response" /\ out[j].id = k
GenAnswers(k) == gen # Idle /\ gen.call = k

\* A call has one answer at most, in the session, on its way to it, or to be given.
OneAnswer ==
    /\ \A i, j \in 1..Len(log) :
          log[i].kind = "response" /\ log[j].kind = "response" /\ log[i].id = log[j].id => i = j
    /\ \A c, d \in net : c.kind = "response" /\ d.kind = "response" /\ c.id = d.id => c = d
    /\ \A i, j \in 1..Len(out) :
          out[i].kind = "response" /\ out[j].kind = "response" /\ out[i].id = out[j].id => i = j
    /\ \A k : LogAnswers(k) => ~NetAnswers(k) /\ ~OutAnswers(k) /\ ~GenAnswers(k)
    /\ \A k : NetAnswers(k) => ~OutAnswers(k) /\ ~GenAnswers(k)
    /\ \A k : OutAnswers(k) => ~GenAnswers(k)

\* The text of an answer does not come after its completion.
TextFirst ==
    /\ \A c \in net : c.kind \notin {"text", "done"}
    /\ \A i \in 1..Len(log) : log[i].kind = "done" =>
          /\ \A j \in 1..Len(out) : out[j].kind = "text" => out[j].id # log[i].id
          /\ ~GenAnswers(log[i].id)
    /\ \A i \in 1..Len(out) : out[i].kind = "done" =>
          /\ \A j \in i..Len(out) : out[j].kind = "text" => out[j].id # out[i].id
          /\ ~GenAnswers(out[i].id)

\* A pipeline is a record with the trigger it was started for.
RunTyped ==
    /\ run = [trigger |-> run.trigger, text |-> run.text, on |-> run.on, depth |-> run.depth,
              items |-> run.items, todo |-> run.todo, wait |-> run.wait]
    /\ run # NoRun => run.trigger \in 1..Len(log)

AgentInv ==
    /\ LogTyped /\ RequestedOnce /\ WorkIsTaken /\ OneAnswer /\ TextFirst
    /\ RunTyped /\ TextIsOfTrigger

-----------------------------------------------------------------------------
(***************************************************************************)
(* What the steps do, as far as requests and answers are concerned         *)
(***************************************************************************)

Quiet(c) == c.kind \notin {"request", "response", "text", "done"}

\* Nothing that was published, subscribed to or dealt with is taken back.
Grows ==
    /\ log' = log \/ \E c : log' = Append(log, c)
    /\ \A p \in Reader : at[p] >= 0 => at'[p] = at[p]
    /\ \A p \in Reader : pos'[p] >= pos[p]

\* Nothing is requested, answered or written.
Rests ==
    /\ log' = log \/ \E c : Quiet(c) /\ log' = Append(log, c)
    /\ \A c \in net' : c \in net \/ Quiet(c)
    /\ out' = out /\ calls' = calls
    /\ gen' = gen \/ (gen # Idle /\ gen' # Idle /\ gen'.call = gen.call)

\* A call is requested, in the session or on its way to it.
Requests(c) ==
    /\ c.kind = "request" /\ c.id = calls + 1
    /\ \/ log' = Append(log, c) /\ net' = net
       \/ log' = log /\ net' = net \cup {c}
    /\ calls' = calls + 1 /\ out' = out /\ gen' = gen

Arrives(c) ==
    /\ c \in net /\ c.kind \in {"request", "response"}
    /\ log' = Append(log, c) /\ net' = net \ {c}
    /\ out' = out /\ calls' = calls /\ gen' = gen

Flushes ==
    /\ out # <<>> /\ log' = Append(log, Head(out)) /\ out' = Tail(out)
    /\ net' = net /\ calls' = calls /\ gen' = gen

\* Service p takes the request at i, which came live.
Accepts(p, i) ==
    /\ p \in Reader /\ i \in 1..Len(log) /\ i > pos[p]
    /\ at[p] >= 0 /\ Live(p, i)
    /\ log[i].kind = "request" /\ Service(log[i].info) = p
    /\ log' = log /\ at' = at /\ calls' = calls
    /\ pos' = [pos EXCEPT ![p] = i]

Invokes(i) ==
    /\ Accepts(Llm, i)
    /\ gen = Idle /\ gen' # Idle /\ gen'.call = log[i].id
    /\ out' = out /\ net' = net

\* What a service may write for call k: at most one answer, and no text after done.
Written(s, k) ==
    /\ \E S : s \in Seq(S)
    /\ \A n \in 1..Len(s) : s[n].id = k /\ s[n].kind \in {"text", "done", "response"}
    /\ \A m, n \in 1..Len(s) : s[m].kind = "response" /\ s[n].kind = "response" => m = n
    /\ \A m, n \in 1..Len(s) : m <= n /\ s[m].kind = "done" => s[n].kind # "text"

Prompts(i, s) ==
    /\ Accepts(Llm, i) /\ Written(s, log[i].id)
    /\ gen = Idle /\ gen' = Idle /\ out' = out \o s /\ net' = net

Finishes(s) ==
    /\ gen # Idle /\ gen' = Idle /\ Written(s, gen.call) /\ out' = out \o s
    /\ log' = log /\ net' = net /\ at' = at /\ pos' = pos /\ calls' = calls

Rolls(i, reply) ==
    /\ Accepts(Dice, i)
    /\ \A c \in reply : c.id = log[i].id /\ c.kind \notin {"request", "text", "done"}
    /\ \A c, d \in reply : c.kind = "response" /\ d.kind = "response" => c = d
    /\ net' = net \cup reply /\ out' = out /\ gen' = gen

AgentStep ==
    \/ Rests
    \/ \E c : Requests(c) \/ Arrives(c)
    \/ Flushes
    \/ \E i : Invokes(i)
    \/ \E i, s : Prompts(i, s)
    \/ \E s : Finishes(s)
    \/ \E i, reply : Rolls(i, reply)

-----------------------------------------------------------------------------

LEMMA Appended ==
    ASSUME NEW s, NEW S, s \in Seq(S), NEW c
    PROVE  /\ \E T : Append(s, c) \in Seq(T)
           /\ Len(Append(s, c)) = Len(s) + 1
           /\ Len(s) \in Nat
           /\ \A i \in 1..Len(s) : Append(s, c)[i] = s[i]
           /\ Append(s, c)[Len(s) + 1] = c
  <1> DEFINE T == S \cup {c}
  <1>1. s \in Seq(T) /\ c \in T
    OBVIOUS
  <1> HIDE DEF T
  <1>2. Append(s, c) \in Seq(T)
    BY <1>1
  <1> QED
    BY <1>1, <1>2

LEMMA Joined ==
    ASSUME NEW s, NEW S, s \in Seq(S), NEW t, NEW T, t \in Seq(T)
    PROVE  /\ \E U : s \o t \in Seq(U)
           /\ Len(s \o t) = Len(s) + Len(t)
           /\ Len(s) \in Nat /\ Len(t) \in Nat
           /\ \A i \in 1..Len(s) : (s \o t)[i] = s[i]
           /\ \A i \in Len(s) + 1..Len(s) + Len(t) : (s \o t)[i] = t[i - Len(s)]
  <1> DEFINE U == S \cup T
  <1>1. s \in Seq(U) /\ t \in Seq(U)
    OBVIOUS
  <1> HIDE DEF U
  <1>2. s \o t \in Seq(U)
    BY <1>1
  <1> QED
    BY <1>1, <1>2

LEMMA Shortened ==
    ASSUME NEW s, NEW S, s \in Seq(S), s # <<>>
    PROVE  /\ Tail(s) \in Seq(S)
           /\ Len(s) \in Nat \ {0}
           /\ Len(Tail(s)) = Len(s) - 1
           /\ Head(s) = s[1]
           /\ \A i \in 1..Len(Tail(s)) : Tail(s)[i] = s[i + 1]
  OBVIOUS

\* What a service has taken it keeps.
LEMMA TakenStays ==
    ASSUME LogTyped, LogTyped', Grows
    PROVE  \A r \in 1..Len(log) : r \in 1..Len(log') /\ log'[r] = log[r]
                /\ \A k : TakenAt(r, k) => TakenAt(r, k)'
  <1>1. \A m : Service(m) \in Reader
    BY LlmAssumption, DiceAssumption DEF Service
  <1>2. Len(log) \in Nat /\ Len(log') \in Nat
    BY DEF LogTyped
  <1>3. Len(log') >= Len(log) /\ \A i \in 1..Len(log) : log'[i] = log[i]
    <2>1. PICK S : log \in Seq(S)
      BY DEF LogTyped
    <2>2. CASE log' = log
      BY <1>2, <2>2
    <2>3. CASE \E c : log' = Append(log, c)
      BY <1>2, <2>1, <2>3, Appended
    <2> QED
      BY <2>2, <2>3 DEF Grows
  <1>4. \A p \in Reader : at[p] \in Int /\ at'[p] \in Int /\ pos[p] \in Nat /\ pos'[p] \in Nat
    BY DEF LogTyped
  <1> SUFFICES ASSUME NEW r \in 1..Len(log), NEW k, TakenAt(r, k)
               PROVE  TakenAt(r, k)'
    BY <1>2, <1>3
  <1>5. log'[r] = log[r]
    BY <1>3
  <1> DEFINE p == Service(log[r].info)
  <1>6. p \in Reader /\ at[p] >= 0 /\ r > at[p] /\ r <= pos[p] /\ log[r].kind = "request" /\ log[r].id = k
    BY <1>1 DEF TakenAt, Live
  <1>7. at'[p] = at[p] /\ pos'[p] >= pos[p]
    BY <1>6 DEF Grows
  <1>8. r <= pos'[p]
    BY <1>2, <1>4, <1>6, <1>7
  <1> QED
    BY <1>5, <1>6, <1>7, <1>8 DEF TakenAt, Live, Service

-----------------------------------------------------------------------------
(***************************************************************************)
(* A step that answers nothing                                             *)
(***************************************************************************)

Core == LogTyped /\ RequestedOnce /\ WorkIsTaken /\ OneAnswer /\ TextFirst

\* No answer is given, and nothing is written by the evaluator.
Mute(c) == c.kind \notin {"response", "text", "done"}

Silent ==
    /\ log' = log \/ \E c : Mute(c) /\ log' = Append(log, c)
    /\ \A c \in net' : c \in net \/ Mute(c)
    /\ out' = out
    /\ gen' = gen \/ (gen # Idle /\ gen' # Idle /\ gen'.call = gen.call)

\* What a session has after such a step it had before, but for chunks of other kinds.
LEMMA SilentShows ==
    ASSUME LogTyped, LogTyped', Grows, Silent
    PROVE  /\ \A i \in 1..Len(log') : ~Mute(log'[i]) => i \in 1..Len(log) /\ log'[i] = log[i]
           /\ \A k : LogAnswers(k)' => LogAnswers(k)
           /\ \A k : NetAnswers(k)' => NetAnswers(k)
           /\ \A k : OutAnswers(k)' => OutAnswers(k)
           /\ \A k : GenAnswers(k)' => GenAnswers(k)
           /\ \A k : Taken(k) => Taken(k)'
           /\ \A c \in net' : ~Mute(c) => c \in net
           /\ out' = out
           /\ gen' # Idle => gen # Idle /\ gen'.call = gen.call
  <1>1. \A i \in 1..Len(log') : ~Mute(log'[i]) => i \in 1..Len(log) /\ log'[i] = log[i]
    <2>1. PICK S : log \in Seq(S)
      BY DEF LogTyped
    <2>2. CASE log' = log
      BY <2>2
    <2>3. CASE \E c : Mute(c) /\ log' = Append(log, c)
      <3>1. PICK c : Mute(c) /\ log' = Append(log, c)
        BY <2>3
      <3> QED
        BY <2>1, <3>1, Appended
    <2> QED
      BY <2>2, <2>3 DEF Silent
  <1>2. \A k : LogAnswers(k)' => LogAnswers(k)
    <2> SUFFICES ASSUME NEW k, NEW i \in 1..Len(log'), log'[i].kind = "response", log'[i].id = k
                 PROVE  LogAnswers(k)
      BY DEF LogAnswers
    <2>1. ~Mute(log'[i])
      BY DEF Mute
    <2> QED
      BY <1>1, <2>1 DEF LogAnswers
  <1>3. \A c \in net' : ~Mute(c) => c \in net
    BY DEF Silent
  <1>4. \A k : NetAnswers(k)' => NetAnswers(k)
    BY <1>3 DEF NetAnswers, Mute
  <1>5. \A k : OutAnswers(k)' => OutAnswers(k)
    BY DEF OutAnswers, Silent
  <1>6. gen' # Idle => gen # Idle /\ gen'.call = gen.call
    BY DEF Silent
  <1>7. \A k : GenAnswers(k)' => GenAnswers(k)
    BY <1>6 DEF GenAnswers
  <1>8. \A k : Taken(k) => Taken(k)'
    <2> HIDE DEF Taken
    <2> SUFFICES ASSUME NEW k, Taken(k) PROVE Taken(k)'
      OBVIOUS
    <2>1. PICK r \in 1..Len(log) : TakenAt(r, k)
      BY DEF Taken
    <2>2. r \in 1..Len(log') /\ TakenAt(r, k)'
      BY <2>1, TakenStays
    <2> QED
      BY <2>2 DEF Taken
  <1> QED
    BY <1>1, <1>2, <1>3, <1>4, <1>5, <1>6, <1>7, <1>8 DEF Silent

\* WorkIsTaken of the next state, without a primed argument.
LEMMA TakenNext ==
    ASSUME \A i \in 1..Len(log') : \A k : log'[i].kind = "response" /\ log'[i].id = k =>
               \E r \in 1..i - 1 : TakenAt(r, k)',
           \A i \in 1..Len(log') : \A k : log'[i].kind = "done" /\ log'[i].id = k => Taken(k)',
           \A c \in net' : c.kind = "response" => \A k : c.id = k => Taken(k)',
           \A j \in 1..Len(out') : \A k : out'[j].id = k => Taken(k)',
           \A j \in 1..Len(out') : out'[j].kind \in {"text", "done", "response"},
           gen' # Idle => \A k : gen'.call = k => Taken(k)'
    PROVE  WorkIsTaken'
  BY DEF WorkIsTaken, Taken, TakenAt

LEMMA SilentKeeps ==
    ASSUME Core, LogTyped', Grows, Silent
    PROVE  WorkIsTaken' /\ OneAnswer' /\ TextFirst'
  <1>0. LogTyped /\ RequestedOnce /\ WorkIsTaken /\ OneAnswer /\ TextFirst
    BY DEF Core
  <1>1. /\ \A i \in 1..Len(log') : ~Mute(log'[i]) => i \in 1..Len(log) /\ log'[i] = log[i]
        /\ \A k : LogAnswers(k)' => LogAnswers(k)
        /\ \A k : NetAnswers(k)' => NetAnswers(k)
        /\ \A k : OutAnswers(k)' => OutAnswers(k)
        /\ \A k : GenAnswers(k)' => GenAnswers(k)
        /\ \A k : Taken(k) => Taken(k)'
        /\ \A c \in net' : ~Mute(c) => c \in net
        /\ out' = out
        /\ gen' # Idle => gen # Idle /\ gen'.call = gen.call
    BY <1>0, SilentShows
  <1>3. WorkIsTaken'
    <2>1. \A i \in 1..Len(log') : \A k : log'[i].kind = "response" /\ log'[i].id = k =>
             \E r \in 1..i - 1 : TakenAt(r, k)'
      <3> SUFFICES ASSUME NEW i \in 1..Len(log'), NEW k, log'[i].kind = "response", log'[i].id = k
                   PROVE  \E r \in 1..i - 1 : TakenAt(r, k)'
        OBVIOUS
      <3>1. i \in 1..Len(log) /\ log'[i] = log[i]
        BY <1>1 DEF Mute
      <3>2. PICK r \in 1..i - 1 : TakenAt(r, k)
        BY <1>0, <3>1 DEF WorkIsTaken
      <3>3. r \in 1..Len(log)
        BY <1>0, <3>1 DEF LogTyped
      <3> QED
        BY <1>0, <3>2, <3>3, TakenStays
    <2>2. \A i \in 1..Len(log') : \A k : log'[i].kind = "done" /\ log'[i].id = k => Taken(k)'
      BY <1>0, <1>1 DEF WorkIsTaken, Mute
    <2>3. \A c \in net' : c.kind = "response" => \A k : c.id = k => Taken(k)'
      BY <1>0, <1>1 DEF WorkIsTaken, Mute
    <2>4. \A j \in 1..Len(out') : \A k : out'[j].id = k => Taken(k)'
      BY <1>0, <1>1 DEF WorkIsTaken
    <2>5. \A j \in 1..Len(out') : out'[j].kind \in {"text", "done", "response"}
      BY <1>0, <1>1 DEF WorkIsTaken
    <2>6. gen' # Idle => \A k : gen'.call = k => Taken(k)'
      BY <1>0, <1>1 DEF WorkIsTaken
    <2> QED
      BY <2>1, <2>2, <2>3, <2>4, <2>5, <2>6, TakenNext
  <1>4. OneAnswer'
    BY <1>0, <1>1 DEF OneAnswer, Mute
  <1>5. TextFirst'
    BY <1>0, <1>1 DEF TextFirst, Mute
  <1> QED
    BY <1>3, <1>4, <1>5

-----------------------------------------------------------------------------
(***************************************************************************)
(* Requests                                                                *)
(***************************************************************************)

\* No request is published or taken by the bus.
NoRequest ==
    /\ \A i \in 1..Len(log') : log'[i].kind = "request" => i \in 1..Len(log) /\ log'[i] = log[i]
    /\ \A c \in net' : c.kind = "request" => c \in net
    /\ calls' = calls

LEMMA NoRequestKeeps == RequestedOnce /\ NoRequest => RequestedOnce'
  BY DEF RequestedOnce, NoRequest

\* A call id is used for one request.
LEMMA RequestKeeps ==
    ASSUME LogTyped, RequestedOnce, NEW c, Requests(c)
    PROVE  RequestedOnce'
  <1>1. PICK S : log \in Seq(S)
    BY DEF LogTyped
  <1>2. calls \in Nat /\ calls' = calls + 1 /\ c.kind = "request" /\ c.id = calls + 1
    BY DEF LogTyped, Requests
  <1>3. CASE log' = Append(log, c) /\ net' = net
    <2>1. \A i \in 1..Len(log') :
             (i \in 1..Len(log) /\ log'[i] = log[i]) \/ (i = Len(log) + 1 /\ log'[i] = c)
      BY <1>1, <1>3, Appended
    <2> QED
      BY <1>2, <1>3, <2>1 DEF RequestedOnce
  <1>4. CASE log' = log /\ net' = net \cup {c}
    BY <1>2, <1>4 DEF RequestedOnce
  <1> QED
    BY <1>3, <1>4 DEF Requests

\* It is the same request when the bus has taken it.
LEMMA ArrivalKeeps ==
    ASSUME LogTyped, RequestedOnce, NEW c, Arrives(c)
    PROVE  RequestedOnce'
  <1>1. PICK S : log \in Seq(S)
    BY DEF LogTyped
  <1>2. \A i \in 1..Len(log') :
           (i \in 1..Len(log) /\ log'[i] = log[i]) \/ (i = Len(log) + 1 /\ log'[i] = c)
    BY <1>1, Appended DEF Arrives
  <1>3. c \in net /\ net' = net \ {c} /\ calls' = calls
    BY DEF Arrives
  <1> QED
    BY <1>2, <1>3 DEF RequestedOnce

-----------------------------------------------------------------------------
(***************************************************************************)
(* What was written comes into the session                                 *)
(***************************************************************************)

LEMMA TakenKept ==
    ASSUME LogTyped, LogTyped', Grows
    PROVE  \A k : Taken(k) => Taken(k)'
  <1> SUFFICES ASSUME NEW k, Taken(k) PROVE Taken(k)'
    BY Zenon
  <1>1. PICK r \in 1..Len(log) : TakenAt(r, k)
    BY DEF Taken
  <1>2. r \in 1..Len(log') /\ TakenAt(r, k)'
    BY <1>1, TakenStays
  <1> QED
    BY <1>2 DEF Taken

\* The requests before the answers are still there.
LEMMA AnswersStayTaken ==
    ASSUME LogTyped, LogTyped', Grows, WorkIsTaken
    PROVE  \A n \in 1..Len(log) : \A k : log[n].kind = "response" /\ log[n].id = k =>
              \E r \in 1..n - 1 : TakenAt(r, k)'
  <1> SUFFICES ASSUME NEW n \in 1..Len(log), NEW k, log[n].kind = "response", log[n].id = k
               PROVE  \E r \in 1..n - 1 : TakenAt(r, k)'
    OBVIOUS
  <1>1. PICK r \in 1..n - 1 : TakenAt(r, k)
    BY DEF WorkIsTaken
  <1>2. r \in 1..Len(log)
    BY DEF LogTyped
  <1> QED
    BY <1>1, <1>2, TakenStays

\* The bus takes a chunk that belongs to a taken call: the request is before it.
LEMMA AppendKeepsTaken ==
    ASSUME LogTyped, LogTyped', Grows, WorkIsTaken,
           NEW c, log' = Append(log, c), c.kind \in {"response", "done"} => Taken(c.id)
    PROVE  /\ \A i \in 1..Len(log') : \A k : log'[i].kind = "response" /\ log'[i].id = k =>
                 \E r \in 1..i - 1 : TakenAt(r, k)'
           /\ \A i \in 1..Len(log') : \A k : log'[i].kind = "done" /\ log'[i].id = k => Taken(k)'
  <1>0. PICK S : log \in Seq(S)
    BY DEF LogTyped
  <1>1. /\ Len(log) \in Nat
        /\ \A i \in 1..Len(log') :
              (i \in 1..Len(log) /\ log'[i] = log[i]) \/ (i = Len(log) + 1 /\ log'[i] = c)
    BY <1>0, Appended
  <1>2. ASSUME NEW i \in 1..Len(log'), NEW k, log'[i].kind = "response", log'[i].id = k
        PROVE  \E r \in 1..i - 1 : TakenAt(r, k)'
    <2>1. CASE i \in 1..Len(log) /\ log'[i] = log[i]
      <3>1. PICK r \in 1..i - 1 : TakenAt(r, k)
        BY <1>2, <2>1 DEF WorkIsTaken
      <3>2. r \in 1..Len(log)
        BY <1>1, <2>1
      <3> QED
        BY <3>1, <3>2, TakenStays
    <2>2. CASE i = Len(log) + 1 /\ log'[i] = c
      <3>1. PICK r \in 1..Len(log) : TakenAt(r, k)
        BY <1>2, <2>2 DEF Taken
      <3>2. r \in 1..i - 1
        BY <1>1, <2>2
      <3> QED
        BY <3>1, <3>2, TakenStays
    <2> QED
      BY <1>1, <2>1, <2>2
  <1>3. ASSUME NEW i \in 1..Len(log'), NEW k, log'[i].kind = "done", log'[i].id = k
        PROVE  Taken(k)'
    <2>1. Taken(k)
      BY <1>1, <1>3 DEF WorkIsTaken
    <2> QED
      BY <2>1, TakenKept
  <1> QED
    BY <1>2, <1>3

\* An answer that was on its way.
LEMMA AnswerArrives ==
    ASSUME Core, LogTyped', Grows, NEW c, Arrives(c), c.kind = "response"
    PROVE  WorkIsTaken' /\ OneAnswer' /\ TextFirst'
  <1>0. LogTyped /\ RequestedOnce /\ WorkIsTaken /\ OneAnswer /\ TextFirst
    BY DEF Core
  <1>1. PICK S : log \in Seq(S)
    BY <1>0 DEF LogTyped
  <1>2. /\ c \in net /\ net' = net \ {c} /\ log' = Append(log, c)
        /\ out' = out /\ gen' = gen
    BY DEF Arrives
  <1>3. /\ Len(log) \in Nat
        /\ \A i \in 1..Len(log') :
              (i \in 1..Len(log) /\ log'[i] = log[i]) \/ (i = Len(log) + 1 /\ log'[i] = c)
    BY <1>1, <1>2, Appended
  <1>4. Taken(c.id)
    BY <1>0, <1>2 DEF WorkIsTaken
  <1>5. WorkIsTaken'
    <2>1. /\ \A i \in 1..Len(log') : \A k : log'[i].kind = "response" /\ log'[i].id = k =>
                \E r \in 1..i - 1 : TakenAt(r, k)'
          /\ \A i \in 1..Len(log') : \A k : log'[i].kind = "done" /\ log'[i].id = k => Taken(k)'
      BY <1>0, <1>2, <1>4, AppendKeepsTaken
    <2>2. \A k : Taken(k) => Taken(k)'
      BY <1>0, TakenKept
    <2>3. \A d \in net' : d.kind = "response" => \A k : d.id = k => Taken(k)'
      BY <1>0, <1>2, <2>2 DEF WorkIsTaken
    <2>4. /\ \A j \in 1..Len(out') : \A k : out'[j].id = k => Taken(k)'
          /\ \A j \in 1..Len(out') : out'[j].kind \in {"text", "done", "response"}
      BY <1>0, <1>2, <2>2 DEF WorkIsTaken
    <2>5. gen' # Idle => \A k : gen'.call = k => Taken(k)'
      BY <1>0, <1>2, <2>2 DEF WorkIsTaken
    <2> QED
      BY <2>1, <2>3, <2>4, <2>5, TakenNext
  <1>6. OneAnswer'
    <2>1. NetAnswers(c.id)
      BY <1>2 DEF NetAnswers
    <2>2. ~LogAnswers(c.id) /\ ~OutAnswers(c.id) /\ ~GenAnswers(c.id)
      BY <1>0, <2>1 DEF OneAnswer
    <2>3. \A k : LogAnswers(k)' => LogAnswers(k) \/ k = c.id
      BY <1>3 DEF LogAnswers
    <2>4. \A k : NetAnswers(k)' => NetAnswers(k) /\ k # c.id
      BY <1>0, <1>2 DEF NetAnswers, OneAnswer
    <2>5. \A k : OutAnswers(k)' <=> OutAnswers(k)
      BY <1>2 DEF OutAnswers
    <2>6. \A k : GenAnswers(k)' <=> GenAnswers(k)
      BY <1>2 DEF GenAnswers
    <2>7. \A i, j \in 1..Len(log') :
             log'[i].kind = "response" /\ log'[j].kind = "response" /\ log'[i].id = log'[j].id => i = j
      BY <1>0, <1>3, <2>2 DEF OneAnswer, LogAnswers
    <2> QED
      BY <1>0, <1>2, <2>2, <2>3, <2>4, <2>5, <2>6, <2>7 DEF OneAnswer
  <1>7. TextFirst'
    BY <1>0, <1>2, <1>3 DEF TextFirst, GenAnswers
  <1> QED
    BY <1>5, <1>6, <1>7

\* The next chunk of the evaluator's connection.
LEMMA FlushKeeps ==
    ASSUME Core, LogTyped', Grows, Flushes
    PROVE  NoRequest /\ WorkIsTaken' /\ OneAnswer' /\ TextFirst'
  <1>0. LogTyped /\ RequestedOnce /\ WorkIsTaken /\ OneAnswer /\ TextFirst
    BY DEF Core
  <1>1. PICK S : log \in Seq(S)
    BY <1>0 DEF LogTyped
  <1>2. PICK T : out \in Seq(T)
    BY <1>0 DEF LogTyped
  <1>3. PICK c : c = Head(out)
    OBVIOUS
  <1>4. /\ log' = Append(log, c)
        /\ net' = net /\ gen' = gen /\ calls' = calls
    BY <1>3 DEF Flushes
  <1>5. /\ Len(log) \in Nat
        /\ \A i \in 1..Len(log') :
              (i \in 1..Len(log) /\ log'[i] = log[i]) \/ (i = Len(log) + 1 /\ log'[i] = c)
    BY <1>1, <1>4, Appended
  <1>6. /\ 1 \in 1..Len(out) /\ out[1] = c
        /\ \A j \in 1..Len(out') : j + 1 \in 1..Len(out) /\ out'[j] = out[j + 1]
    BY <1>2, <1>3, Shortened DEF Flushes
  <1>7. Taken(c.id) /\ c.kind \in {"text", "done", "response"}
    BY <1>0, <1>6 DEF WorkIsTaken
  <1>8. WorkIsTaken'
    <2>1. /\ \A i \in 1..Len(log') : \A k : log'[i].kind = "response" /\ log'[i].id = k =>
                \E r \in 1..i - 1 : TakenAt(r, k)'
          /\ \A i \in 1..Len(log') : \A k : log'[i].kind = "done" /\ log'[i].id = k => Taken(k)'
      BY <1>0, <1>4, <1>7, AppendKeepsTaken
    <2>2. \A k : Taken(k) => Taken(k)'
      BY <1>0, TakenKept
    <2>3. \A d \in net' : d.kind = "response" => \A k : d.id = k => Taken(k)'
      BY <1>0, <1>4, <2>2 DEF WorkIsTaken
    <2>4. /\ \A j \in 1..Len(out') : \A k : out'[j].id = k => Taken(k)'
          /\ \A j \in 1..Len(out') : out'[j].kind \in {"text", "done", "response"}
      BY <1>0, <1>6, <2>2 DEF WorkIsTaken
    <2>5. gen' # Idle => \A k : gen'.call = k => Taken(k)'
      BY <1>0, <1>4, <2>2 DEF WorkIsTaken
    <2> QED
      BY <2>1, <2>3, <2>4, <2>5, TakenNext
  <1>9. OneAnswer'
    <2>1. c.kind = "response" => OutAnswers(c.id)
      BY <1>6 DEF OutAnswers
    <2>2. c.kind = "response" => ~LogAnswers(c.id) /\ ~NetAnswers(c.id) /\ ~GenAnswers(c.id)
      BY <1>0, <2>1 DEF OneAnswer
    <2>3. \A k : LogAnswers(k)' => LogAnswers(k) \/ (c.kind = "response" /\ k = c.id)
      BY <1>5 DEF LogAnswers
    <2>4. \A k : OutAnswers(k)' => OutAnswers(k) /\ ~(c.kind = "response" /\ k = c.id)
      BY <1>0, <1>6 DEF OutAnswers, OneAnswer
    <2>5. \A k : NetAnswers(k)' <=> NetAnswers(k)
      BY <1>4 DEF NetAnswers
    <2>6. \A k : GenAnswers(k)' <=> GenAnswers(k)
      BY <1>4 DEF GenAnswers
    <2>7. \A i, j \in 1..Len(log') :
             log'[i].kind = "response" /\ log'[j].kind = "response" /\ log'[i].id = log'[j].id => i = j
      BY <1>0, <1>5, <2>2 DEF OneAnswer, LogAnswers
    <2>8. \A i, j \in 1..Len(out') :
             out'[i].kind = "response" /\ out'[j].kind = "response" /\ out'[i].id = out'[j].id => i = j
      BY <1>0, <1>6 DEF OneAnswer
    <2> QED
      BY <1>0, <1>4, <2>2, <2>3, <2>4, <2>5, <2>6, <2>7, <2>8 DEF OneAnswer
  <1>10. TextFirst'
    <2>1. \A i \in 1..Len(log') : log'[i].kind = "done" =>
              /\ \A j \in 1..Len(out') : out'[j].kind = "text" => out'[j].id # log'[i].id
              /\ \A k : k = log'[i].id => ~GenAnswers(k)
      BY <1>0, <1>5, <1>6, SMTT(60) DEF TextFirst
    <2>2. \A i \in 1..Len(out') : out'[i].kind = "done" =>
              /\ \A j \in i..Len(out') : out'[j].kind = "text" => out'[j].id # out'[i].id
              /\ \A k : k = out'[i].id => ~GenAnswers(k)
      <3> SUFFICES ASSUME NEW i \in 1..Len(out'), out'[i].kind = "done"
                   PROVE  /\ \A j \in i..Len(out') : out'[j].kind = "text" => out'[j].id # out'[i].id
                          /\ \A k : k = out'[i].id => ~GenAnswers(k)
        OBVIOUS
      <3>1. i + 1 \in 1..Len(out) /\ out[i + 1] = out'[i]
        BY <1>6
      <3>2. \A j \in i..Len(out') : j + 1 \in i + 1..Len(out) /\ out'[j] = out[j + 1]
        <4>1. \A j \in i..Len(out') : j \in 1..Len(out')
          OBVIOUS
        <4> QED
          BY <1>6, <4>1
      <3> QED
        BY <1>0, <3>1, <3>2 DEF TextFirst
    <2> QED
      BY <1>0, <1>4, <2>1, <2>2 DEF TextFirst, GenAnswers
  <1>11. NoRequest
    BY <1>4, <1>5, <1>7 DEF NoRequest
  <1> QED
    BY <1>8, <1>9, <1>10, <1>11

-----------------------------------------------------------------------------
(***************************************************************************)
(* A service takes a request, or the evaluator ends one                    *)
(***************************************************************************)

\* Nothing is there for call k.
Unseen(k) ==
    /\ ~LogAnswers(k) /\ ~NetAnswers(k) /\ ~OutAnswers(k) /\ ~GenAnswers(k)
    /\ \A i \in 1..Len(log) : log[i].kind = "done" => log[i].id # k
    /\ \A j \in 1..Len(out) : out[j].id # k

\* A request its service has not dealt with was not dealt with by anybody.
LEMMA TakesFresh ==
    ASSUME Core, LogTyped', Grows, NEW p, NEW i, Accepts(p, i), NEW k, k = log[i].id
    PROVE  Unseen(k) /\ Taken(k)'
  <1>0. LogTyped /\ RequestedOnce /\ WorkIsTaken
    BY DEF Core
  <1>1. /\ p \in Reader /\ i \in 1..Len(log) /\ i > pos[p] /\ at[p] >= 0 /\ Live(p, i)
        /\ log[i].kind = "request" /\ Service(log[i].info) = p
        /\ log' = log /\ at' = at /\ pos' = [pos EXCEPT ![p] = i]
    BY DEF Accepts
  <1>2. Len(log) \in Nat /\ pos[p] \in Nat /\ pos'[p] = i
    BY <1>0, <1>1 DEF LogTyped
  <1>3. ~Taken(k)
    <2> SUFFICES ASSUME NEW r \in 1..Len(log), TakenAt(r, k) PROVE FALSE
      BY DEF Taken
    <2>1. r = i
      BY <1>0, <1>1 DEF TakenAt, RequestedOnce
    <2> QED
      BY <1>1, <1>2, <2>1 DEF TakenAt
  <1>4. Taken(k)'
    BY <1>1, <1>2 DEF Taken, TakenAt, Live, Service
  <1>5. ~LogAnswers(k)
    <2> SUFFICES ASSUME NEW j \in 1..Len(log), log[j].kind = "response", log[j].id = k PROVE FALSE
      BY DEF LogAnswers
    <2>1. PICK r \in 1..j - 1 : TakenAt(r, k)
      BY <1>0 DEF WorkIsTaken
    <2> QED
      BY <1>2, <1>3, <2>1 DEF Taken
  <1> QED
    BY <1>0, <1>3, <1>4, <1>5 DEF WorkIsTaken, Unseen, NetAnswers, OutAnswers, GenAnswers

LEMMA AcceptsNoRequest ==
    ASSUME NEW p, NEW i, Accepts(p, i), \A c \in net' : c.kind = "request" => c \in net
    PROVE  NoRequest
  BY DEF Accepts, NoRequest

\* The evaluator begins with a call.
LEMMA InvokeKeeps ==
    ASSUME Core, LogTyped', Grows, NEW i, Invokes(i)
    PROVE  NoRequest /\ WorkIsTaken' /\ OneAnswer' /\ TextFirst'
  <1>0. LogTyped /\ RequestedOnce /\ WorkIsTaken /\ OneAnswer /\ TextFirst
    BY DEF Core
  <1>1. PICK k : k = log[i].id
    OBVIOUS
  <1>2. /\ Accepts(Llm, i) /\ log' = log /\ net' = net /\ out' = out
        /\ gen = Idle /\ gen' # Idle /\ gen'.call = k
    BY <1>1 DEF Invokes, Accepts
  <1>3. Unseen(k) /\ Taken(k)'
    BY <1>1, <1>2, TakesFresh
  <1>4. NoRequest
    BY <1>2, AcceptsNoRequest
  <1>5. WorkIsTaken'
    <2>1. \A n \in 1..Len(log) : \A l : log[n].kind = "response" /\ log[n].id = l =>
             \E r \in 1..n - 1 : TakenAt(r, l)'
      BY <1>0, AnswersStayTaken
    <2>2. \A l : Taken(l) => Taken(l)'
      BY <1>0, TakenKept
    <2>3. /\ \A n \in 1..Len(log) : \A l : log[n].kind = "done" /\ log[n].id = l => Taken(l)'
          /\ \A c \in net : c.kind = "response" => \A l : c.id = l => Taken(l)'
          /\ \A j \in 1..Len(out) : \A l : out[j].id = l => Taken(l)'
          /\ \A j \in 1..Len(out) : out[j].kind \in {"text", "done", "response"}
      BY <1>0, <2>2 DEF WorkIsTaken
    <2>4. \A l : gen'.call = l => Taken(l)'
      BY <1>2, <1>3
    <2> HIDE DEF TakenAt, Taken
    <2> QED
      BY <1>2, <2>1, <2>3, <2>4, TakenNext
  <1>6. OneAnswer'
    BY <1>0, <1>2, <1>3 DEF OneAnswer, Unseen, LogAnswers, NetAnswers, OutAnswers, GenAnswers
  <1>7. TextFirst'
    BY <1>0, <1>2, <1>3 DEF TextFirst, Unseen, GenAnswers
  <1> QED
    BY <1>4, <1>5, <1>6, <1>7

\* An answer in a reply of the service, for a call that has none.
LEMMA RollKeeps ==
    ASSUME Core, LogTyped', Grows, NEW i, NEW reply, Rolls(i, reply)
    PROVE  NoRequest /\ WorkIsTaken' /\ OneAnswer' /\ TextFirst'
  <1>0. LogTyped /\ RequestedOnce /\ WorkIsTaken /\ OneAnswer /\ TextFirst
    BY DEF Core
  <1>1. PICK k : k = log[i].id
    OBVIOUS
  <1>2. /\ Accepts(Dice, i) /\ log' = log /\ out' = out /\ gen' = gen
        /\ net' = net \cup reply
        /\ \A c \in reply : c.id = k /\ c.kind \notin {"request", "text", "done"}
        /\ \A c, d \in reply : c.kind = "response" /\ d.kind = "response" => c = d
    BY <1>1 DEF Rolls, Accepts
  <1>3. Unseen(k) /\ Taken(k)'
    BY <1>1, <1>2, TakesFresh
  <1>4. NoRequest
    BY <1>2, AcceptsNoRequest
  <1>5. WorkIsTaken'
    <2>1. \A l : Taken(l) => Taken(l)'
      BY <1>0, TakenKept
    <2>2. /\ \A n \in 1..Len(log) : \A l : log[n].kind = "done" /\ log[n].id = l => Taken(l)'
          /\ \A j \in 1..Len(out) : \A l : out[j].id = l => Taken(l)'
          /\ \A j \in 1..Len(out) : out[j].kind \in {"text", "done", "response"}
          /\ gen # Idle => \A l : gen.call = l => Taken(l)'
      BY <1>0, <2>1 DEF WorkIsTaken
    <2>3. \A c \in net' : c.kind = "response" => \A l : c.id = l => Taken(l)'
      BY <1>0, <1>2, <1>3, <2>1 DEF WorkIsTaken
    <2>4. \A n \in 1..Len(log) : \A l : log[n].kind = "response" /\ log[n].id = l =>
             \E r \in 1..n - 1 : TakenAt(r, l)'
      BY <1>0, AnswersStayTaken
    <2> HIDE DEF TakenAt, Taken
    <2> QED
      BY <1>2, <2>2, <2>3, <2>4, TakenNext
  <1>6. OneAnswer'
    <2>1. \A l : NetAnswers(l)' => NetAnswers(l) \/ l = k
      BY <1>2 DEF NetAnswers
    <2>2. \A l : /\ LogAnswers(l)' <=> LogAnswers(l)
                 /\ OutAnswers(l)' <=> OutAnswers(l)
                 /\ GenAnswers(l)' <=> GenAnswers(l)
      BY <1>2 DEF LogAnswers, OutAnswers, GenAnswers
    <2>3. \A c, d \in net' : c.kind = "response" /\ d.kind = "response" /\ c.id = d.id => c = d
      BY <1>0, <1>2, <1>3 DEF OneAnswer, Unseen, NetAnswers
    <2> QED
      BY <1>0, <1>2, <1>3, <2>1, <2>2, <2>3 DEF OneAnswer, Unseen
  <1>7. TextFirst'
    BY <1>0, <1>2 DEF TextFirst, GenAnswers
  <1> QED
    BY <1>4, <1>5, <1>6, <1>7

\* The evaluator writes what ends call k.
LEMMA WritesKeep ==
    ASSUME Core, LogTyped', Grows, NEW k, NEW s, Written(s, k), Taken(k)',
           ~LogAnswers(k), ~NetAnswers(k), ~OutAnswers(k),
           \A n \in 1..Len(log) : log[n].kind = "done" => log[n].id # k,
           \A j \in 1..Len(out) : out[j].kind = "done" => out[j].id # k,
           out' = out \o s, log' = log, net' = net, gen' = Idle
    PROVE  WorkIsTaken' /\ OneAnswer' /\ TextFirst'
  <1>0. LogTyped /\ WorkIsTaken /\ OneAnswer /\ TextFirst
    BY DEF Core
  <1>1. PICK S : out \in Seq(S)
    BY <1>0 DEF LogTyped
  <1>2. PICK T : s \in Seq(T)
    BY DEF Written
  <1>3. PICK n : n = Len(out)
    OBVIOUS
  <1>4. PICK m : m = Len(s)
    OBVIOUS
  <1>5. /\ n \in Nat /\ m \in Nat /\ Len(out') = n + m
        /\ \A j \in 1..n : out'[j] = out[j]
        /\ \A j \in n + 1..n + m : out'[j] = s[j - n]
    BY <1>1, <1>2, <1>3, <1>4, Joined
  <1>6. /\ \A j \in 1..m : s[j].id = k /\ s[j].kind \in {"text", "done", "response"}
        /\ \A i, j \in 1..m : s[i].kind = "response" /\ s[j].kind = "response" => i = j
        /\ \A i, j \in 1..m : i <= j /\ s[i].kind = "done" => s[j].kind # "text"
    BY <1>4 DEF Written
  <1>7. \A j \in 1..Len(out') :
           \/ j \in 1..n /\ out'[j] = out[j]
           \/ j - n \in 1..m /\ out'[j] = s[j - n] /\ j > n
    BY <1>5
  <1>8. WorkIsTaken'
    <2>1. \A l : Taken(l) => Taken(l)'
      BY <1>0, TakenKept
    <2>2. /\ \A j \in 1..Len(log) : \A l : log[j].kind = "done" /\ log[j].id = l => Taken(l)'
          /\ \A c \in net : c.kind = "response" => \A l : c.id = l => Taken(l)'
      BY <1>0, <2>1 DEF WorkIsTaken
    <2>3. \A j \in 1..Len(out') : \A l : out'[j].id = l => Taken(l)'
      BY <1>0, <1>3, <1>6, <1>7, <2>1 DEF WorkIsTaken
    <2>4. \A j \in 1..Len(out') : out'[j].kind \in {"text", "done", "response"}
      BY <1>0, <1>3, <1>6, <1>7 DEF WorkIsTaken
    <2>5. \A j \in 1..Len(log) : \A l : log[j].kind = "response" /\ log[j].id = l =>
             \E r \in 1..j - 1 : TakenAt(r, l)'
      BY <1>0, AnswersStayTaken
    <2> HIDE DEF TakenAt, Taken
    <2> QED
      BY <2>2, <2>3, <2>4, <2>5, TakenNext
  <1>9. OneAnswer'
    <2>1. \A l : OutAnswers(l)' => OutAnswers(l) \/ l = k
      BY <1>3, <1>6, <1>7 DEF OutAnswers
    <2>2. \A l : /\ LogAnswers(l)' <=> LogAnswers(l)
                 /\ NetAnswers(l)' <=> NetAnswers(l)
                 /\ ~GenAnswers(l)'
      BY DEF LogAnswers, NetAnswers, GenAnswers
    <2>3. \A i, j \in 1..Len(out') :
             out'[i].kind = "response" /\ out'[j].kind = "response" /\ out'[i].id = out'[j].id => i = j
      <3> SUFFICES ASSUME NEW i \in 1..Len(out'), NEW j \in 1..Len(out'),
                          out'[i].kind = "response", out'[j].kind = "response", out'[i].id = out'[j].id
                   PROVE  i = j
        OBVIOUS
      <3>1. CASE i \in 1..n /\ j \in 1..n
        BY <1>0, <1>3, <1>5, <3>1 DEF OneAnswer
      <3>2. CASE i > n /\ j > n
        <4>1. i - n \in 1..m /\ j - n \in 1..m
          BY <1>5, <3>2
        <4>2. out'[i] = s[i - n] /\ out'[j] = s[j - n]
          BY <1>5, <3>2
        <4>3. i - n = j - n
          BY <1>6, <4>1, <4>2
        <4> QED
          BY <1>5, <4>3
      <3>3. CASE i \in 1..n /\ j > n
        BY <1>3, <1>5, <1>6, <1>7, <3>3 DEF OutAnswers
      <3>4. CASE j \in 1..n /\ i > n
        BY <1>3, <1>5, <1>6, <1>7, <3>4 DEF OutAnswers
      <3> QED
        BY <1>5, <3>1, <3>2, <3>3, <3>4
    <2> QED
      BY <1>0, <2>1, <2>2, <2>3 DEF OneAnswer
  <1>10. TextFirst'
    <2>1. \A i \in 1..Len(log) : log[i].kind = "done" =>
             \A j \in 1..Len(out') : out'[j].kind = "text" => out'[j].id # log[i].id
      BY <1>0, <1>3, <1>6, <1>7 DEF TextFirst
    <2>2. \A i \in 1..Len(out') : out'[i].kind = "done" =>
             \A j \in i..Len(out') : out'[j].kind = "text" => out'[j].id # out'[i].id
      <3> SUFFICES ASSUME NEW i \in 1..Len(out'), NEW j \in i..Len(out'),
                          out'[i].kind = "done", out'[j].kind = "text", out'[j].id = out'[i].id
                   PROVE  FALSE
        OBVIOUS
      <3>1. CASE i \in 1..n /\ j \in 1..n
        <4>1. out'[i] = out[i] /\ out'[j] = out[j]
          BY <1>5, <3>1
        <4> QED
          BY <1>0, <1>3, <3>1, <4>1 DEF TextFirst
      <3>2. CASE i > n
        <4>1. i - n \in 1..m /\ j - n \in 1..m /\ i - n <= j - n
          BY <1>5, <3>2
        <4>2. out'[i] = s[i - n] /\ out'[j] = s[j - n]
          BY <1>5, <3>2
        <4> QED
          BY <1>6, <4>1, <4>2
      <3>3. CASE i \in 1..n /\ j > n
        BY <1>3, <1>5, <1>6, <1>7, <3>3
      <3> QED
        BY <1>5, <3>1, <3>2, <3>3
    <2> QED
      BY <1>0, <2>1, <2>2 DEF TextFirst, GenAnswers
  <1> QED
    BY <1>8, <1>9, <1>10

LEMMA PromptKeeps ==
    ASSUME Core, LogTyped', Grows, NEW i, NEW s, Prompts(i, s)
    PROVE  NoRequest /\ WorkIsTaken' /\ OneAnswer' /\ TextFirst'
  <1>1. PICK k : k = log[i].id
    OBVIOUS
  <1>2. /\ Accepts(Llm, i) /\ log' = log /\ net' = net /\ out' = out \o s
        /\ gen' = Idle /\ Written(s, k)
    BY <1>1 DEF Prompts, Accepts
  <1>3. Unseen(k) /\ Taken(k)'
    BY <1>1, <1>2, TakesFresh
  <1>4. NoRequest
    BY <1>2, AcceptsNoRequest
  <1> QED
    BY <1>2, <1>3, <1>4, WritesKeep DEF Unseen

LEMMA FinishKeeps ==
    ASSUME Core, LogTyped', Grows, NEW s, Finishes(s)
    PROVE  NoRequest /\ WorkIsTaken' /\ OneAnswer' /\ TextFirst'
  <1>0. LogTyped /\ WorkIsTaken /\ OneAnswer /\ TextFirst
    BY DEF Core
  <1>1. PICK k : k = gen.call
    OBVIOUS
  <1>2. /\ log' = log /\ net' = net /\ out' = out \o s /\ gen' = Idle
        /\ Written(s, k) /\ GenAnswers(k) /\ NoRequest
    BY <1>1 DEF Finishes, GenAnswers, NoRequest
  <1>3. Taken(k)'
    <2>1. Taken(k)
      BY <1>0, <1>1 DEF WorkIsTaken, Finishes
    <2> QED
      BY <1>0, <2>1, TakenKept
  <1>4. /\ ~LogAnswers(k) /\ ~NetAnswers(k) /\ ~OutAnswers(k)
        /\ \A n \in 1..Len(log) : log[n].kind = "done" => log[n].id # k
        /\ \A j \in 1..Len(out) : out[j].kind = "done" => out[j].id # k
    BY <1>0, <1>2 DEF OneAnswer, TextFirst
  <1> QED
    BY <1>2, <1>3, <1>4, WritesKeep

-----------------------------------------------------------------------------
(***************************************************************************)
(* Every step                                                              *)
(***************************************************************************)

LEMMA CoreKept ==
    ASSUME Core, LogTyped', Grows, AgentStep
    PROVE  Core'
  <1>0. LogTyped /\ RequestedOnce
    BY DEF Core
  <1>1. CASE Rests
    <2>1. Silent /\ NoRequest
      <3>1. Silent
        BY <1>1 DEF Rests, Silent, Quiet, Mute
      <3>2. PICK S : log \in Seq(S)
        BY <1>0 DEF LogTyped
      <3>3. \A i \in 1..Len(log') : log'[i].kind = "request" => i \in 1..Len(log) /\ log'[i] = log[i]
        BY <1>1, <3>2, Appended DEF Rests, Quiet
      <3> QED
        BY <1>1, <3>1, <3>3 DEF Rests, NoRequest, Quiet
    <2> QED
      BY <1>0, <2>1, SilentKeeps, NoRequestKeeps DEF Core
  <1>2. ASSUME NEW c, Requests(c) PROVE Core'
    <2>1. Silent
      BY <1>2 DEF Requests, Silent, Mute
    <2> QED
      BY <1>0, <1>2, <2>1, SilentKeeps, RequestKeeps DEF Core
  <1>3. ASSUME NEW c, Arrives(c) PROVE Core'
    <2>1. CASE c.kind = "request"
      <3>1. Silent
        BY <1>3, <2>1 DEF Arrives, Silent, Mute
      <3> QED
        BY <1>0, <1>3, <3>1, SilentKeeps, ArrivalKeeps DEF Core
    <2>2. CASE c.kind = "response"
      BY <1>0, <1>3, <2>2, AnswerArrives, ArrivalKeeps DEF Core
    <2> QED
      BY <1>3, <2>1, <2>2 DEF Arrives
  <1>4. CASE Flushes
    BY <1>0, <1>4, FlushKeeps, NoRequestKeeps DEF Core
  <1>5. ASSUME NEW i, Invokes(i) PROVE Core'
    BY <1>0, <1>5, InvokeKeeps, NoRequestKeeps DEF Core
  <1>6. ASSUME NEW i, NEW s, Prompts(i, s) PROVE Core'
    BY <1>0, <1>6, PromptKeeps, NoRequestKeeps DEF Core
  <1>7. ASSUME NEW s, Finishes(s) PROVE Core'
    BY <1>0, <1>7, FinishKeeps, NoRequestKeeps DEF Core
  <1>8. ASSUME NEW i, NEW reply, Rolls(i, reply) PROVE Core'
    BY <1>0, <1>8, RollKeeps, NoRequestKeeps DEF Core
  <1> HIDE DEF Core
  <1> QED
    BY <1>1, <1>2, <1>3, <1>4, <1>5, <1>6, <1>7, <1>8 DEF AgentStep

-----------------------------------------------------------------------------
(***************************************************************************)
(* The actions                                                             *)
(***************************************************************************)

\* The pipeline is over, or still the one for its trigger and its text.
RunStays ==
    \/ run' = NoRun
    \/ /\ run # NoRun
       /\ run' = [trigger |-> run.trigger, text |-> run.text, on |-> run'.on, depth |-> run'.depth,
                  items |-> run'.items, todo |-> run'.todo, wait |-> run'.wait]

\* A pipeline is started for the chunk at i.
RunStarts(i) ==
    /\ i \in 1..Len(log) /\ log' = log
    /\ run' = [trigger |-> i, text |-> run'.text, on |-> run'.on, depth |-> run'.depth,
               items |-> run'.items, todo |-> run'.todo, wait |-> run'.wait]
    /\ log[i].kind = "done" => run'.text = LastText(log)

Effect ==
    /\ LogTyped' /\ Grows /\ AgentStep
    /\ RunStays \/ \E i : RunStarts(i)

LEMMA SameRun == RunTyped /\ run' = run => RunStays
  BY DEF RunTyped, RunStays

LEMMA SaysEffect ==
    ASSUME LogTyped, RunTyped, SendMessage \/ SendAbort \/ SendTick
    PROVE  Effect
  <1>1. /\ at' = at /\ pos' = pos /\ calls' = calls /\ gen' = gen /\ out' = out
        /\ run' = run
        /\ \/ net' = net /\ \E c : Quiet(c) /\ log' = Append(log, c)
           \/ log' = log /\ \E c : Quiet(c) /\ net' = net \cup {c}
    BY DEF SendMessage, SendAbort, SendTick, pipeVars, llmVars, Quiet, PipeChunk
  <1>2. LogTyped'
    <2>1. PICK S : log \in Seq(S)
      BY DEF LogTyped
    <2>2. \E T : log' \in Seq(T)
      <3>1. CASE log' = log
        BY <2>1, <3>1
      <3>2. CASE \E c : log' = Append(log, c)
        BY <2>1, <3>2, Appended, SMTT(60)
      <3> QED
        BY <1>1, <3>1, <3>2
    <2> QED
      BY <1>1, <2>2 DEF LogTyped
  <1>3. Grows
    BY <1>1 DEF Grows, LogTyped
  <1>4. Rests
    BY <1>1 DEF Rests
  <1> QED
    BY <1>1, <1>2, <1>3, <1>4, SameRun DEF Effect, AgentStep

LEMMA AskEffect ==
    ASSUME LogTyped, RunTyped, NEW m, Ask(m)
    PROVE  Effect
  <1>1. PICK c : c = PipeChunk("request", calls + 1, m)
    OBVIOUS
  <1>2. /\ at' = at /\ pos' = pos /\ calls' = calls + 1 /\ gen' = gen /\ out' = out
        /\ run' = run /\ net' = net /\ log' = Append(log, c)
        /\ c.kind = "request" /\ c.id = calls + 1
    BY <1>1 DEF Ask, llmVars, PipeChunk
  <1>3. LogTyped'
    <2>1. PICK S : log \in Seq(S)
      BY DEF LogTyped
    <2>2. \E T : log' \in Seq(T)
      BY <1>2, <2>1, Appended
    <2> QED
      BY <1>2, <2>2 DEF LogTyped
  <1>4. Grows
    BY <1>2 DEF Grows, LogTyped
  <1>5. Requests(c)
    BY <1>2 DEF Requests
  <1> QED
    BY <1>2, <1>3, <1>4, <1>5, SameRun DEF Effect, AgentStep

LEMMA DeliverEffect ==
    ASSUME LogTyped, RunTyped, TextFirst, Deliver
    PROVE  Effect
  <1>1. PICK c \in net : Arrive(c)
    BY DEF Deliver
  <1>2. /\ at' = at /\ pos' = pos /\ calls' = calls /\ gen' = gen /\ out' = out
        /\ run' = run /\ net' = net \ {c} /\ log' = Append(log, c)
    BY <1>1 DEF Deliver, Arrive, pipeVars, llmVars
  <1>3. LogTyped'
    <2>1. PICK S : log \in Seq(S)
      BY DEF LogTyped
    <2>2. \E T : log' \in Seq(T)
      BY <1>2, <2>1, Appended
    <2> QED
      BY <1>2, <2>2 DEF LogTyped
  <1>4. Grows
    BY <1>2 DEF Grows, LogTyped
  <1>5. AgentStep
    <2>1. CASE c.kind \in {"request", "response"}
      BY <1>2, <2>1 DEF Arrives, AgentStep
    <2>2. CASE Quiet(c)
      BY <1>2, <2>2 DEF Rests, AgentStep
    <2> QED
      BY <2>1, <2>2 DEF Quiet, TextFirst
  <1> QED
    BY <1>2, <1>3, <1>4, <1>5, SameRun DEF Effect

LEMMA SubscribeEffect ==
    ASSUME LogTyped, RunTyped, NEW p, Subscribe(p),
           calls' = calls, gen' = gen, out' = out, run' = run
    PROVE  Effect
  <1>1. at[p] = -1 /\ at' = [at EXCEPT ![p] = Len(log)] /\ log' = log /\ net' = net /\ pos' = pos
    BY DEF Subscribe
  <1>2. Len(log) \in Nat
    BY DEF LogTyped
  <1>3. LogTyped'
    <2>1. at' \in [Reader -> Int]
      <3>1. at \in [Reader -> Int] /\ Len(log) \in Int
        BY <1>2 DEF LogTyped
      <3> QED
        BY <1>1, <3>1
    <2> QED
      BY <1>1, <2>1 DEF LogTyped
  <1>4. Grows
    BY <1>1, <1>2 DEF Grows, LogTyped
  <1>5. Rests
    BY <1>1 DEF Rests
  <1> QED
    BY <1>3, <1>4, <1>5, SameRun DEF Effect, AgentStep

\* A step of the pipeline that publishes no request.
LEMMA PipelineEffect ==
    ASSUME LogTyped, log' = log, at' = at, pos' = pos, calls' = calls, gen' = gen, out' = out,
           RunStays, \A c \in net' : c \in net \/ Quiet(c)
    PROVE  Effect
  <1>1. LogTyped' /\ Grows /\ Rests
    BY DEF LogTyped, Grows, Rests
  <1> QED
    BY <1>1 DEF Effect, AgentStep

LEMMA PipelineGoesOn ==
    ASSUME RunTyped,
           run' = NoRun \/ (run # NoRun /\ \E depth, items, todo, wait :
               run' = [run EXCEPT !.depth = depth, !.items = items, !.todo = todo, !.wait = wait])
    PROVE  RunStays
  <1>1. CASE run' = NoRun
    BY <1>1 DEF RunStays
  <1>2. ASSUME run # NoRun, NEW depth, NEW items, NEW todo, NEW wait,
               run' = [run EXCEPT !.depth = depth, !.items = items, !.todo = todo, !.wait = wait]
        PROVE  RunStays
    <2>1. run = [trigger |-> run.trigger, text |-> run.text, on |-> run.on, depth |-> run.depth,
                 items |-> run.items, todo |-> run.todo, wait |-> run.wait]
      BY DEF RunTyped
    <2>2. run' = [trigger |-> run.trigger, text |-> run.text, on |-> run.on, depth |-> depth,
                  items |-> items, todo |-> todo, wait |-> wait]
      BY <1>2, <2>1
    <2> QED
      BY <1>2, <2>2 DEF RunStays
  <1> QED
    BY <1>1, <1>2

\* A pipeline with something left to do, or a call it waits for, is one.
LEMMA Running ==
    /\ NoRun.todo = <<>> /\ NoRun.items = <<>> /\ NoRun.wait = 0
    /\ run.todo # <<>> \/ run.items # <<>> \/ run.wait # 0 => run # NoRun
  BY DEF NoRun

LEMMA NextEventEffect ==
    ASSUME LogTyped, RunTyped, NextEvent, gen' = gen, out' = out
    PROVE  Effect
  <1>1. run # NoRun
    BY Running DEF NextEvent
  <1>2. PICK e, items, todo :
            run' = [run EXCEPT !.items = items, !.depth = e, !.todo = todo]
    BY DEF NextEvent
  <1>3. run' = [run EXCEPT !.depth = e, !.items = items, !.todo = todo, !.wait = run.wait]
    BY <1>2 DEF RunTyped
  <1>4. RunStays
    BY <1>1, <1>3, PipelineGoesOn
  <1> QED
    BY <1>4, PipelineEffect DEF NextEvent, logVars

LEMMA BuiltInEffect ==
    ASSUME LogTyped, RunTyped, RunBuiltIn, gen' = gen, out' = out
    PROVE  Effect
  <1>1. run # NoRun
    BY Running DEF RunBuiltIn
  <1> DEFINE op == Head(run.todo)
             detected == {PipeChunk("toolcall", run.trigger, log[i].info) :
                            i \in {j \in Published("text", run.text) : log[j].info # "plain"}}
  <1>2. /\ log' = log /\ at' = at /\ pos' = pos /\ calls' = calls
        /\ \/ net' = net \cup detected /\ run' = [run EXCEPT !.todo = Tail(@)]
           \/ /\ run' = [run EXCEPT !.todo = ToolCalls(log) \o Tail(@), !.items = Followed(op.step)]
              /\ net' = net
           \/ run' = [run EXCEPT !.todo = Tail(@)] /\ net' = net
    BY DEF RunBuiltIn
  <1>3. \A c \in detected : Quiet(c)
    BY DEF PipeChunk, Quiet
  <1> HIDE DEF op, detected
  <1>4. \A c \in net' : c \in net \/ Quiet(c)
    BY <1>2, <1>3
  <1>5. \E items, todo : run' = [run EXCEPT !.items = items, !.todo = todo]
    <2>1. CASE run' = [run EXCEPT !.todo = Tail(@)]
      <3>1. run' = [run EXCEPT !.items = run.items, !.todo = Tail(run.todo)]
        BY <2>1 DEF RunTyped
      <3> QED
        BY <3>1
    <2>2. CASE run' = [run EXCEPT !.todo = ToolCalls(log) \o Tail(@), !.items = Followed(op.step)]
      <3>1. run' = [run EXCEPT !.items = Followed(op.step), !.todo = ToolCalls(log) \o Tail(run.todo)]
        BY <2>2 DEF RunTyped
      <3> QED
        BY <3>1
    <2> QED
      BY <1>2, <2>1, <2>2
  <1>6. RunStays
    <2>1. PICK items, todo : run' = [run EXCEPT !.items = items, !.todo = todo]
      BY <1>5
    <2>2. run' = [run EXCEPT !.depth = run.depth, !.items = items, !.todo = todo, !.wait = run.wait]
      BY <2>1 DEF RunTyped
    <2> QED
      BY <1>1, <2>2, PipelineGoesOn
  <1> QED
    BY <1>2, <1>4, <1>6, PipelineEffect

LEMMA AnsweredEffect ==
    ASSUME LogTyped, RunTyped, RpcAnswered, gen' = gen, out' = out
    PROVE  Effect
  <1>1. run # NoRun
    BY Running DEF RpcAnswered, Waiting
  <1>2. PICK items, todo : run' = [run EXCEPT !.wait = 0, !.todo = todo, !.items = items]
    BY DEF RpcAnswered
  <1>3. run' = [run EXCEPT !.depth = run.depth, !.items = items, !.todo = todo, !.wait = 0]
    BY <1>2 DEF RunTyped
  <1>4. RunStays
    BY <1>1, <1>3, PipelineGoesOn
  <1> QED
    BY <1>4, PipelineEffect DEF RpcAnswered, logVars

LEMMA GiveUpEffect ==
    ASSUME LogTyped, RunTyped, GiveUp, gen' = gen, out' = out
    PROVE  Effect
  <1>1. RunStays
    BY DEF GiveUp, RunStays
  <1>2. \A c \in net' : c \in net \/ Quiet(c)
    <2>1. PICK e : e = PipeChunk("error", run.wait, "")
      OBVIOUS
    <2>2. Quiet(e)
      BY <2>1 DEF PipeChunk, Quiet
    <2>3. net' = net \cup {e}
      BY <2>1 DEF GiveUp
    <2> QED
      BY <2>2, <2>3
  <1> QED
    BY <1>1, <1>2, PipelineEffect DEF GiveUp

LEMMA ToolEndedEffect ==
    ASSUME LogTyped, RunTyped, Waiting("tool"), ToolEnded, gen' = gen, out' = out
    PROVE  Effect
  <1>1. run # NoRun
    BY Running DEF Waiting
  <1>2. \A c \in net' : c \in net \/ Quiet(c)
    <2>1. PICK e : e = PipeChunk("note", run.wait, "")
      OBVIOUS
    <2>2. Quiet(e)
      BY <2>1 DEF PipeChunk, Quiet
    <2>3. net' = net \cup {e}
      BY <2>1 DEF ToolEnded
    <2> QED
      BY <2>2, <2>3
  <1>3. run' = [run EXCEPT !.depth = run.depth, !.items = run.items, !.todo = Tail(run.todo), !.wait = 0]
    BY DEF ToolEnded, RunTyped
  <1>4. RunStays
    BY <1>1, <1>3, PipelineGoesOn
  <1> QED
    BY <1>2, <1>4, PipelineEffect DEF ToolEnded

LEMMA DispatchEffect ==
    ASSUME LogTyped, RunTyped, Dispatch, gen' = gen, out' = out
    PROVE  Effect
  <1>1. run # NoRun
    BY Running DEF Dispatch
  <1>2. PICK c : c = PipeChunk("request", calls + 1, Head(run.todo).type)
    OBVIOUS
  <1>3. /\ log' = log /\ at' = at /\ pos' = pos /\ calls' = calls + 1
        /\ net' = net \cup {c} /\ c.kind = "request" /\ c.id = calls + 1
    BY <1>2 DEF Dispatch, PipeChunk
  <1>4. run' = [run EXCEPT !.depth = run.depth, !.items = run.items, !.todo = run.todo, !.wait = calls']
    BY DEF Dispatch, RunTyped
  <1>5. RunStays
    <2>1. PICK w : w = calls'
      OBVIOUS
    <2> QED
      BY <1>1, <1>4, <2>1, PipelineGoesOn
  <1>6. LogTyped' /\ Grows /\ Requests(c)
    BY <1>3 DEF LogTyped, Grows, Requests
  <1> QED
    BY <1>5, <1>6 DEF Effect, AgentStep

\* The newest chunk of h that satisfies a condition, if there is one.
LEMMA Newest ==
    ASSUME NEW n \in Nat, NEW T, T \subseteq 1..n, T # {}
    PROVE  \E i \in T : \A j \in T : j <= i
  <1> DEFINE D == {d \in 0..n : n - d \in T}
  <1>1. PICK t : t \in T
    OBVIOUS
  <1>2. n - t \in D
    BY <1>1
  <1>3. D # {} /\ D \subseteq Nat
    BY <1>2
  <1> HIDE DEF D
  <1>4. PICK d \in D : \A e \in D : <<e, d>> \notin OpToRel(<, Nat)
    BY <1>3, WFMin, NatLessThanWellFounded, Zenon
  <1>5. \A e \in D : ~(e < d)
    BY <1>3, <1>4, Zenon DEF OpToRel
  <1>6. d \in 0..n /\ n - d \in T
    BY DEF D
  <1>7. ASSUME NEW j \in T PROVE j <= n - d
    <2>1. n - j \in D
      BY DEF D
    <2> QED
      BY <1>5, <1>6, <2>1
  <1> QED
    BY <1>6, <1>7

LEMMA LastTextIsNewest ==
    ASSUME NEW h, NEW S, h \in Seq(S), NEW i \in 1..Len(h), h[i].kind = "text"
    PROVE  \E j \in 1..Len(h) : i <= j /\ h[j].kind = "text" /\ h[j].id = LastText(h)
  <1> DEFINE T == {j \in DOMAIN h : h[j].kind = "text"}
  <1>1. Len(h) \in Nat /\ DOMAIN h = 1..Len(h) /\ T \subseteq 1..Len(h) /\ i \in T
    OBVIOUS
  <1>2. \E j \in T : \A l \in T : l <= j
    <2> HIDE DEF T
    <2> QED
      BY <1>1, Newest
  <1> DEFINE m == CHOOSE j \in T : \A l \in T : l <= j
  <1>3. m \in T /\ \A l \in T : l <= m
    <2> HIDE DEF T
    <2> QED
      BY <1>2
  <1>4. LastText(h) = h[m].id
    BY <1>1 DEF LastText
  <1> HIDE DEF m
  <1> QED
    BY <1>1, <1>3, <1>4

LEMMA StartRunEffect ==
    ASSUME LogTyped, RunTyped, StartRun, gen' = gen, out' = out
    PROVE  Effect
  <1>1. PICK i \in pos[Loop] + 1..Len(log) :
            /\ pos' = [pos EXCEPT ![Loop] = i]
            /\ run' = [NoRun EXCEPT
                         !.trigger = i,
                         !.text = IF Trigger(log[i]) = "llm_complete" THEN LastText(log) ELSE 0,
                         !.on = \E j \in DOMAIN log : log[j].kind = "config",
                         !.items = <<Event(Trigger(log[i]), "", 0)>>]
    BY DEF StartRun
  <1>2. log' = log /\ net' = net /\ at' = at /\ calls' = calls
    BY DEF StartRun
  <1>3. pos[Loop] \in Nat /\ Len(log) \in Nat /\ Loop \in Reader
    BY LoopAssumption DEF LogTyped
  <1>4. i \in 1..Len(log) /\ i > pos[Loop]
    BY <1>3
  <1>5. RunStarts(i)
    <2>1. run'.trigger = i /\ run'.text = IF Trigger(log[i]) = "llm_complete" THEN LastText(log) ELSE 0
      BY <1>1 DEF NoRun
    <2>2. log[i].kind = "done" => Trigger(log[i]) = "llm_complete"
      BY DEF Trigger
    <2>3. run' = [trigger |-> i, text |-> run'.text, on |-> run'.on, depth |-> run'.depth,
                  items |-> run'.items, todo |-> run'.todo, wait |-> run'.wait]
      BY <1>1 DEF NoRun
    <2> QED
      BY <1>2, <1>4, <2>1, <2>2, <2>3 DEF RunStarts
  <1>6. LogTyped'
    <2>1. pos' \in [Reader -> Nat]
      BY <1>1, <1>3, <1>4 DEF LogTyped
    <2> QED
      BY <1>2, <2>1 DEF LogTyped
  <1>7. Grows
    BY <1>1, <1>2, <1>4 DEF Grows, LogTyped
  <1>8. Rests
    BY <1>2 DEF Rests
  <1> QED
    BY <1>5, <1>6, <1>7, <1>8 DEF Effect, AgentStep

LEMMA PipeEffect ==
    ASSUME LogTyped, RunTyped, PipeStep
    PROVE  Effect
  <1>1. gen' = gen /\ out' = out
    BY DEF PipeStep, llmVars
  <1>2. CASE Attach
    BY <1>1, <1>2, SubscribeEffect DEF Attach, pipeVars
  <1>3. CASE PublishConfig
    <2>1. \A c \in net' : c \in net \/ Quiet(c)
      <3>1. PICK e : e = PipeChunk("config", 0, "")
        OBVIOUS
      <3>2. Quiet(e)
        BY <3>1 DEF PipeChunk, Quiet
      <3>3. net' = net \cup {e}
        BY <1>3, <3>1 DEF PublishConfig
      <3> QED
        BY <3>2, <3>3
    <2> QED
      BY <1>1, <1>3, <2>1, PipelineEffect, SameRun DEF PublishConfig, pipeVars
  <1>4. CASE StartRun
    BY <1>1, <1>4, StartRunEffect
  <1>5. CASE NextEvent
    BY <1>1, <1>5, NextEventEffect
  <1>6. CASE EndRun
    BY <1>1, <1>6, PipelineEffect DEF EndRun, logVars, RunStays
  <1>7. CASE RunBuiltIn
    BY <1>1, <1>7, BuiltInEffect
  <1>8. CASE Dispatch
    BY <1>1, <1>8, DispatchEffect
  <1>9. CASE RpcAnswered
    BY <1>1, <1>9, AnsweredEffect
  <1>10. CASE RpcFailed \/ RpcTimeout
    BY <1>1, <1>10, GiveUpEffect DEF RpcFailed, RpcTimeout
  <1>11. CASE ToolAnswered \/ ToolTimeout
    BY <1>1, <1>11, ToolEndedEffect DEF ToolAnswered, ToolTimeout
  <1> QED
    BY <1>2, <1>3, <1>4, <1>5, <1>6, <1>7, <1>8, <1>9, <1>10, <1>11
       DEF PipeStep, PipeNext, RunStep

\* The evaluator reads the chunk at i.
LEMMA ReadEffect ==
    ASSUME LogTyped, NEW p \in Reader, NEW i \in 1..Len(log), i > pos[p],
           pos' = [pos EXCEPT ![p] = i], log' = log, at' = at
    PROVE  Grows /\ pos' \in [Reader -> Nat] /\ at' \in [Reader -> Int]
  <1>1. i \in Nat
    BY DEF LogTyped
  <1> QED
    BY <1>1 DEF LogTyped, Grows

LEMMA OneWritten ==
    ASSUME NEW k, NEW d, d.kind = "response", d.id = k
    PROVE  Written(<<d>>, k)
  <1>1. <<d>> \in Seq({d}) /\ Len(<<d>>) = 1 /\ <<d>>[1] = d
    OBVIOUS
  <1>2. \A n \in 1..1 : n = 1
    OBVIOUS
  <1>3. PICK s : s = <<d>>
    OBVIOUS
  <1> QED
    BY <1>1, <1>2, <1>3 DEF Written

LEMMA TwoWritten ==
    ASSUME NEW k, NEW c, c.kind = "done", c.id = k, NEW d, d.kind = "response", d.id = k
    PROVE  Written(<<c, d>>, k)
  <1>1. /\ <<c, d>> \in Seq({c, d}) /\ Len(<<c, d>>) = 2
        /\ <<c, d>>[1] = c /\ <<c, d>>[2] = d
    OBVIOUS
  <1>2. \A n \in 1..2 : n = 1 \/ n = 2
    OBVIOUS
  <1>3. PICK s : s = <<c, d>>
    OBVIOUS
  <1> QED
    BY <1>1, <1>2, <1>3 DEF Written

LEMMA ThreeWritten ==
    ASSUME NEW k, NEW t, t.kind = "text", t.id = k, NEW c, c.kind = "done", c.id = k,
           NEW d, d.kind = "response", d.id = k
    PROVE  Written(<<t>> \o <<c, d>>, k)
  <1>1. PICK s : s = <<t>> \o <<c, d>>
    OBVIOUS
  <1>2. <<t>> \in Seq({t}) /\ Len(<<t>>) = 1 /\ <<t>>[1] = t
    OBVIOUS
  <1>3. /\ <<c, d>> \in Seq({c, d}) /\ Len(<<c, d>>) = 2
        /\ <<c, d>>[1] = c /\ <<c, d>>[2] = d
    OBVIOUS
  <1>4. (\E U : s \in Seq(U)) /\ Len(s) = 3 /\ s[1] = t /\ s[2] = c /\ s[3] = d
    <2>1. /\ \E U : s \in Seq(U)
          /\ Len(s) = 1 + 2
          /\ \A i \in 1..1 : s[i] = <<t>>[i]
          /\ s[1 + 1] = <<c, d>>[1 + 1 - 1] /\ s[1 + 2] = <<c, d>>[1 + 2 - 1]
      <3> DEFINE a == <<t>>  b == <<c, d>>
      <3>1. a \in Seq({t}) /\ Len(a) = 1 /\ b \in Seq({c, d}) /\ Len(b) = 2 /\ s = a \o b
        BY <1>1, <1>2, <1>3
      <3> HIDE DEF a, b
      <3>2. /\ \E U : a \o b \in Seq(U)
            /\ Len(a \o b) = 1 + 2
            /\ \A i \in 1..1 : (a \o b)[i] = a[i]
            /\ \A i \in 1 + 1..1 + 2 : (a \o b)[i] = b[i - 1]
        <4>1. /\ \E U : a \o b \in Seq(U)
              /\ Len(a \o b) = Len(a) + Len(b)
              /\ \A i \in 1..Len(a) : (a \o b)[i] = a[i]
              /\ \A i \in Len(a) + 1..Len(a) + Len(b) : (a \o b)[i] = b[i - Len(a)]
          BY <3>1, Joined
        <4> QED
          BY <3>1, <4>1
      <3>3. (a \o b)[1 + 1] = b[1 + 1 - 1] /\ (a \o b)[1 + 2] = b[1 + 2 - 1]
        BY <3>2
      <3> QED
        BY <3>1, <3>2, <3>3 DEF a, b
    <2> QED
      BY <1>2, <1>3, <2>1
  <1>5. \A n \in 1..Len(s) : n = 1 \/ n = 2 \/ n = 3
    BY <1>4
  <1>6. \A n \in 1..Len(s) : s[n].id = k /\ s[n].kind \in {"text", "done", "response"}
    BY <1>4, <1>5
  <1>7. \A m, n \in 1..Len(s) : s[m].kind = "response" /\ s[n].kind = "response" => m = n
    BY <1>4, <1>5
  <1>8. \A m, n \in 1..Len(s) : m <= n /\ s[m].kind = "done" => s[n].kind # "text"
    BY <1>4, <1>5
  <1> QED
    BY <1>1, <1>4, <1>6, <1>7, <1>8 DEF Written

LEMMA LlmReadsEffect ==
    ASSUME LogTyped, RequestedOnce, RunTyped, NEW i \in Upcoming(Llm, LlmActs), LlmReadsOne(i),
           calls' = calls, run' = run
    PROVE  Effect
  <1>1. Llm \in Reader /\ pos[Llm] \in Nat /\ Len(log) \in Nat
    BY LlmAssumption DEF LogTyped
  <1>2. i \in 1..Len(log) /\ i > pos[Llm]
    BY <1>1 DEF Upcoming
  <1>3. /\ gen = Idle /\ at[Llm] >= 0 /\ pos' = [pos EXCEPT ![Llm] = i]
        /\ log' = log /\ net' = net /\ at' = at
    BY DEF LlmReadsOne, LlmAbort, LlmIgnore, LlmInvoke, LlmPrompt, LlmReads
  <1>4. Grows /\ pos' \in [Reader -> Nat] /\ at' \in [Reader -> Int]
    BY <1>1, <1>2, <1>3, ReadEffect
  <1>5. RunStays
    BY SameRun
  <1>6. CASE LlmAbort(i) \/ LlmIgnore(i)
    <2>1. gen' = gen /\ out' = out
      BY <1>6 DEF LlmAbort, LlmIgnore, llmVars
    <2>2. LogTyped'
      BY <1>3, <1>4, <2>1 DEF LogTyped
    <2>3. Rests
      BY <1>3, <2>1 DEF Rests
    <2> QED
      BY <1>4, <1>5, <2>2, <2>3 DEF Effect, AgentStep
  <1>7. ASSUME LlmInvoke(i) \/ LlmPrompt(i), log[i].info \in {"llm", "llm.prompt"},
               log[i].kind = "request", Live(Llm, i)
        PROVE  Accepts(Llm, i)
    BY <1>1, <1>2, <1>3, <1>7 DEF Accepts, Service
  <1>8. CASE LlmInvoke(i)
    <2>1. /\ log[i].kind = "request" /\ log[i].info = "llm" /\ Live(Llm, i)
          /\ gen' = [call |-> log[i].id, streaming |-> FALSE, text |-> "none"] /\ out' = out
      BY <1>8 DEF LlmInvoke, Ungated
    <2>2. Accepts(Llm, i)
      BY <1>7, <1>8, <2>1
    <2>3. log[i].id \in Nat /\ log[i].id # 0
      BY <1>2, <2>1 DEF RequestedOnce, LogTyped
    <2>4. gen' # Idle /\ gen'.call = log[i].id
      BY <2>1, <2>3 DEF Idle
    <2>5. LogTyped'
      BY <1>3, <1>4, <2>1, <2>3 DEF LogTyped
    <2>6. Invokes(i)
      BY <1>3, <2>1, <2>2, <2>4 DEF Invokes
    <2> QED
      BY <1>4, <1>5, <2>5, <2>6 DEF Effect, AgentStep
  <1>9. CASE LlmPrompt(i)
    <2>1. log[i].kind = "request" /\ log[i].info = "llm.prompt" /\ Live(Llm, i) /\ gen' = gen
      BY <1>9 DEF LlmPrompt, Ungated
    <2>2. Accepts(Llm, i)
      BY <1>7, <1>9, <2>1
    <2>3. PICK c : out' = Append(out, c) /\ c.kind = "response" /\ c.id = log[i].id
      BY <1>9 DEF LlmPrompt, LlmChunk
    <2>4. Written(<<c>>, log[i].id)
      BY <2>3, OneWritten
    <2>5. PICK T : out \in Seq(T)
      BY DEF LogTyped
    <2>6. out' = out \o <<c>>
      <3>1. out \in Seq(T \cup {c})
        BY <2>5
      <3> QED
        BY <2>3, <3>1
    <2>7. \E U : out' \in Seq(U)
      BY <2>3, <2>5, Appended
    <2>8. LogTyped'
      BY <1>3, <1>4, <2>1, <2>7 DEF LogTyped
    <2>9. Prompts(i, <<c>>)
      BY <1>3, <2>1, <2>2, <2>4, <2>6 DEF Prompts
    <2> QED
      BY <1>4, <1>5, <2>8, <2>9 DEF Effect, AgentStep
  <1> QED
    BY <1>6, <1>8, <1>9 DEF LlmReadsOne

\* The chunks that end a call.
LEMMA FailureIsWritten == ASSUME NEW k PROVE Written(Failure(k), k)
  <1>1. PICK c : c = LlmChunk("done", k, "error")
    OBVIOUS
  <1>2. PICK d : d = LlmChunk("response", k, "err")
    OBVIOUS
  <1>3. c.kind = "done" /\ c.id = k /\ d.kind = "response" /\ d.id = k /\ Failure(k) = <<c, d>>
    BY <1>1, <1>2 DEF LlmChunk, Failure
  <1> QED
    BY <1>3, TwoWritten

LEMMA AnswerIsWritten == ASSUME NEW g, NEW reason PROVE Written(Answer(g, reason), g.call)
  <1>1. PICK c : c = LlmChunk("done", g.call, reason)
    OBVIOUS
  <1>2. PICK d : d = LlmChunk("response", g.call, "ok")
    OBVIOUS
  <1>3. PICK t : t = LlmChunk("text", g.call, g.text)
    OBVIOUS
  <1>4. /\ c.kind = "done" /\ c.id = g.call /\ d.kind = "response" /\ d.id = g.call
        /\ t.kind = "text" /\ t.id = g.call
    BY <1>1, <1>2, <1>3 DEF LlmChunk
  <1>5. CASE g.text = "none"
    <2>1. <<>> \o <<c, d>> = <<c, d>>
      OBVIOUS
    <2>2. Answer(g, reason) = <<c, d>>
      BY <1>1, <1>2, <1>5, <2>1 DEF Answer
    <2> QED
      BY <1>4, <2>2, TwoWritten
  <1>6. CASE g.text # "none"
    <2>1. Answer(g, reason) = <<t>> \o <<c, d>>
      BY <1>1, <1>2, <1>3, <1>6 DEF Answer
    <2> QED
      BY <1>4, <2>1, ThreeWritten
  <1> QED
    BY <1>5, <1>6

LEMMA EndEffect ==
    ASSUME LogTyped, RunTyped, gen # Idle, gen' = Idle, NEW s, Written(s, gen.call), out' = out \o s,
           log' = log, net' = net, at' = at, pos' = pos, calls' = calls, run' = run
    PROVE  Effect
  <1>1. PICK S : out \in Seq(S)
    BY DEF LogTyped
  <1>2. PICK T : s \in Seq(T)
    BY DEF Written
  <1>3. \E U : out' \in Seq(U)
    BY <1>1, <1>2, Joined
  <1>4. LogTyped'
    BY <1>3 DEF LogTyped, Idle
  <1>5. Grows
    BY DEF LogTyped, Grows
  <1>6. Finishes(s)
    BY DEF Finishes
  <1> QED
    BY <1>4, <1>5, <1>6, SameRun DEF Effect, AgentStep

LEMMA LlmEffect ==
    ASSUME LogTyped, RequestedOnce, RunTyped, LlmStep
    PROVE  Effect
  <1>0. calls' = calls /\ run' = run
    BY DEF LlmStep, pipeVars
  <1>1. ASSUME NEW p, LlmSubscribe(p) PROVE Effect
    BY <1>0, <1>1, SubscribeEffect DEF LlmSubscribe, llmVars
  <1>2. ASSUME NEW i \in Upcoming(Llm, LlmActs), LlmReadsOne(i) PROVE Effect
    BY <1>0, <1>2, LlmReadsEffect
  <1>3. ASSUME NEW i \in Upcoming(Listener, IsAbort), ListenerAbort(i) PROVE Effect
    <2>1. Listener \in Reader /\ pos[Listener] \in Nat /\ Len(log) \in Nat
      BY LlmAssumption DEF LogTyped
    <2>2. i \in 1..Len(log) /\ i > pos[Listener]
      BY <2>1 DEF Upcoming
    <2>3. /\ pos' = [pos EXCEPT ![Listener] = i] /\ gen' = gen /\ out' = out
          /\ log' = log /\ net' = net /\ at' = at
      BY <1>3 DEF ListenerAbort
    <2>4. Grows /\ pos' \in [Reader -> Nat] /\ at' \in [Reader -> Int]
      BY <2>1, <2>2, <2>3, ReadEffect
    <2>5. LogTyped'
      BY <1>0, <2>3, <2>4 DEF LogTyped
    <2>6. Rests
      BY <1>0, <2>3 DEF Rests
    <2> QED
      BY <1>0, <2>4, <2>5, <2>6, SameRun DEF Effect, AgentStep
  <1>4. CASE LlmFails
    BY <1>0, <1>4, EndEffect, FailureIsWritten DEF LlmFails, logVars
  <1>5. ASSUME NEW reason, StreamEnds(reason) PROVE Effect
    <2>1. gen # Idle
      BY <1>5 DEF StreamEnds, Idle
    <2> QED
      BY <1>0, <1>5, <2>1, EndEffect, AnswerIsWritten DEF StreamEnds, logVars
  <1>6. CASE LlmStart \/ \E text \in Texts : LlmToken(text)
    <2>1. /\ log' = log /\ net' = net /\ at' = at /\ pos' = pos /\ out' = out
          /\ gen # Idle /\ gen' # Idle /\ gen'.call = gen.call
          /\ gen' \in [call : Nat, streaming : BOOLEAN, text : Texts \cup {"none"}]
      <3>1. gen \in [call : Nat, streaming : BOOLEAN, text : Texts \cup {"none"}]
        BY DEF LogTyped
      <3>2. log' = log /\ net' = net /\ at' = at /\ pos' = pos /\ out' = out /\ gen # Idle
        BY <1>6 DEF LlmStart, LlmToken, logVars, Idle
      <3>3. CASE LlmStart
        <4>1. gen' = [gen EXCEPT !.streaming = TRUE]
          BY <3>3 DEF LlmStart
        <4> QED
          BY <3>1, <3>2, <4>1 DEF Idle
      <3>4. ASSUME NEW text \in Texts, LlmToken(text)
            PROVE  /\ gen' # Idle /\ gen'.call = gen.call
                   /\ gen' \in [call : Nat, streaming : BOOLEAN, text : Texts \cup {"none"}]
        <4>1. gen' = [gen EXCEPT !.text = text] /\ gen.streaming
          BY <3>4 DEF LlmToken
        <4> QED
          BY <3>1, <4>1 DEF Idle
      <3> QED
        BY <1>6, <3>2, <3>3, <3>4
    <2>2. LogTyped' /\ Grows
      BY <1>0, <2>1 DEF LogTyped, Grows
    <2>3. Rests
      BY <1>0, <2>1 DEF Rests
    <2> QED
      BY <1>0, <2>2, <2>3, SameRun DEF Effect, AgentStep
  <1>7. CASE LlmFlush
    <2>1. PICK S : out \in Seq(S)
      BY DEF LogTyped
    <2>2. PICK T : log \in Seq(T)
      BY DEF LogTyped
    <2>3. /\ out # <<>> /\ log' = Append(log, Head(out)) /\ out' = Tail(out)
          /\ net' = net /\ at' = at /\ pos' = pos /\ gen' = gen
      BY <1>7 DEF LlmFlush
    <2>4. out' \in Seq(S) /\ \E U : log' \in Seq(U)
      BY <2>1, <2>2, <2>3, Appended, Shortened
    <2>5. LogTyped'
      BY <1>0, <2>3, <2>4 DEF LogTyped
    <2>6. Grows
      BY <2>3 DEF Grows, LogTyped
    <2>7. Flushes
      BY <1>0, <2>3 DEF Flushes
    <2> QED
      BY <1>0, <2>5, <2>6, <2>7, SameRun DEF Effect, AgentStep
  <1> QED
    BY <1>1, <1>2, <1>3, <1>4, <1>5, <1>6, <1>7 DEF LlmStep, LlmNext, LlmEnds, LlmAborted

\* Every reply of the service has one answer, and it is to the request.
LEMMA RepliesAnswerOnce ==
    ASSUME NEW c, DiceActs(c), NEW reply \in Replies(c)
    PROVE  /\ \A d \in reply : d.id = c.id /\ d.kind \notin {"request", "text", "done"}
           /\ \A d, e \in reply : d.kind = "response" /\ e.kind = "response" => d = e
  <1> DEFINE ok == DiceChunk("response", c.id, "ok")
             err == DiceChunk("response", c.id, "err")
             roll == DiceChunk("toolcall", c.id, "dice.roll")
             note == DiceChunk("note", c.id, "")
  <1>1. /\ ok.kind = "response" /\ ok.id = c.id /\ err.kind = "response" /\ err.id = c.id
        /\ roll.kind = "toolcall" /\ roll.id = c.id /\ note.kind = "note" /\ note.id = c.id
    BY DEF DiceChunk
  <1>2. Replies(c) \subseteq {{ok}, {err}, {roll, ok}, {ok, note}}
    <2>1. c.info \in {"dice-detector", "dice.roll", "rot13", "web-fetch", "rss-fetch"}
      BY DEF DiceActs
    <2>2. CASE c.info = "dice-detector"
      <3>1. Replies(c) = {{roll, ok}, {ok}}
        BY <2>2 DEF Replies
      <3> QED
        BY <3>1
    <2>3. CASE c.info = "dice.roll"
      <3>1. Replies(c) = {{ok}, {err}}
        BY <2>3 DEF Replies
      <3> QED
        BY <3>1
    <2>4. CASE c.info = "rot13"
      <3>1. Replies(c) = {{ok, note}}
        BY <2>4 DEF Replies, Rot13Replies
      <3> QED
        BY <3>1
    <2>5. CASE c.info = "web-fetch"
      <3>1. Replies(c) = {{note, ok}, {err}} /\ {note, ok} = {ok, note}
        BY <2>5 DEF Replies, FetchReplies
      <3> QED
        BY <3>1
    <2>6. CASE c.info = "rss-fetch"
      <3>1. Replies(c) = {{ok}, {err}}
        BY <2>6 DEF Replies, RssReplies
      <3> QED
        BY <3>1
    <2> QED
      BY <2>1, <2>2, <2>3, <2>4, <2>5, <2>6
  <1> HIDE DEF ok, err, roll, note
  <1>3. reply \in {{ok}, {err}, {roll, ok}, {ok, note}}
    BY <1>2
  <1> QED
    BY <1>1, <1>3

LEMMA DiceEffect ==
    ASSUME LogTyped, RunTyped, DiceStep
    PROVE  Effect
  <1>0. calls' = calls /\ run' = run /\ gen' = gen /\ out' = out
    BY DEF DiceStep, pipeVars, llmVars
  <1>1. CASE Subscribe(Dice)
    BY <1>0, <1>1, SubscribeEffect
  <1>2. ASSUME NEW i \in Upcoming(Dice, DiceActs), DiceIgnore(i) \/ DiceAnswer(i)
        PROVE  Effect
    <2>1. Dice \in Reader /\ pos[Dice] \in Nat /\ Len(log) \in Nat
      BY DiceAssumption DEF LogTyped
    <2>2. i \in 1..Len(log) /\ i > pos[Dice] /\ DiceActs(log[i])
      BY <2>1 DEF Upcoming
    <2>3. /\ pos' = [pos EXCEPT ![Dice] = i] /\ log' = log /\ at' = at /\ at[Dice] >= 0
      BY <1>2 DEF DiceIgnore, DiceAnswer, DiceReads
    <2>4. Grows /\ pos' \in [Reader -> Nat] /\ at' \in [Reader -> Int]
      BY <2>1, <2>2, <2>3, ReadEffect
    <2>5. LogTyped'
      BY <1>0, <2>3, <2>4 DEF LogTyped
    <2>6. CASE net' = net
      <3>1. Rests
        BY <1>0, <2>3, <2>6 DEF Rests
      <3> QED
        BY <1>0, <2>4, <2>5, <3>1, SameRun DEF Effect, AgentStep
    <2>7. CASE DiceAnswer(i)
      <3>1. Live(Dice, i)
        BY <2>7 DEF DiceAnswer, DiceGate
      <3>2. PICK reply \in Replies(log[i]) : net' = net \cup reply
        BY <2>7 DEF DiceAnswer
      <3>3. /\ \A d \in reply : d.id = log[i].id /\ d.kind \notin {"request", "text", "done"}
            /\ \A d, e \in reply : d.kind = "response" /\ e.kind = "response" => d = e
        BY <2>2, <3>2, RepliesAnswerOnce
      <3>4. log[i].kind = "request" /\ Service(log[i].info) = Dice
        BY <2>2 DEF DiceActs, Service
      <3>5. Accepts(Dice, i)
        BY <1>0, <2>1, <2>2, <2>3, <3>1, <3>4 DEF Accepts
      <3>6. Rolls(i, reply)
        BY <1>0, <3>2, <3>3, <3>5 DEF Rolls
      <3> QED
        BY <1>0, <2>4, <2>5, <3>6, SameRun DEF Effect, AgentStep
    <2> QED
      BY <1>2, <2>6, <2>7 DEF DiceIgnore
  <1> QED
    BY <1>1, <1>2 DEF DiceStep, DiceNext

LEMMA NextEffect ==
    ASSUME LogTyped, RequestedOnce, TextFirst, RunTyped, [Next]_vars
    PROVE  Effect
  <1>1. CASE SendMessage \/ SendAbort \/ SendTick
    BY <1>1, SaysEffect
  <1>2. CASE \E m \in {"llm", "llm.prompt"} : Ask(m)
    BY <1>2, AskEffect
  <1>3. CASE Deliver
    BY <1>3, DeliverEffect
  <1>4. CASE PipeStep
    BY <1>4, PipeEffect
  <1>5. CASE LlmStep
    BY <1>5, LlmEffect
  <1>6. CASE DiceStep
    BY <1>6, DiceEffect
  <1>7. CASE UNCHANGED vars
    <2>1. /\ log' = log /\ net' = net /\ at' = at /\ pos' = pos /\ calls' = calls
          /\ gen' = gen /\ out' = out /\ run' = run
      BY <1>7 DEF vars, logVars, pipeVars, llmVars
    <2> QED
      BY <2>1, PipelineEffect, SameRun
  <1> QED
    BY <1>1, <1>2, <1>3, <1>4, <1>5, <1>6, <1>7 DEF Next

-----------------------------------------------------------------------------
(***************************************************************************)
(* The text a pipeline works on                                            *)
(***************************************************************************)

\* A text that comes into the session belongs to no answer that is complete.
LEMMA NewTexts ==
    ASSUME LogTyped, TextFirst, WorkIsTaken, AgentStep
    PROVE  \A i \in 1..Len(log') : log'[i].kind = "text" =>
              \/ i \in 1..Len(log) /\ log'[i] = log[i]
              \/ \A n \in 1..Len(log) : log[n].kind = "done" => log[n].id # log'[i].id
  <1>1. PICK S : log \in Seq(S)
    BY DEF LogTyped
  <1>2. CASE log' = log
    BY <1>2
  <1>3. ASSUME NEW c, c.kind # "text", log' = Append(log, c)
        PROVE  \A i \in 1..Len(log') : log'[i].kind = "text" => i \in 1..Len(log) /\ log'[i] = log[i]
    BY <1>1, <1>3, Appended
  <1>4. CASE Flushes
    <2>1. PICK T : out \in Seq(T)
      BY DEF LogTyped
    <2>2. PICK c : c = Head(out)
      OBVIOUS
    <2>3. 1 \in 1..Len(out) /\ out[1] = c /\ log' = Append(log, c)
      BY <1>4, <2>1, <2>2, Shortened DEF Flushes
    <2>4. \A i \in 1..Len(log') :
             (i \in 1..Len(log) /\ log'[i] = log[i]) \/ (i = Len(log) + 1 /\ log'[i] = c)
      BY <1>1, <2>3, Appended
    <2>5. c.kind = "text" => \A n \in 1..Len(log) : log[n].kind = "done" => log[n].id # c.id
      BY <2>3 DEF TextFirst
    <2> QED
      BY <2>4, <2>5
  <1>5. log' = log \/ (\E c : c.kind # "text" /\ log' = Append(log, c)) \/ Flushes
    BY DEF AgentStep, Rests, Requests, Arrives, Quiet, Invokes, Prompts, Finishes, Rolls, Accepts
  <1> QED
    BY <1>2, <1>3, <1>4, <1>5

LEMMA RunKept ==
    ASSUME LogTyped, WorkIsTaken, TextFirst, RunTyped, TextIsOfTrigger, Effect
    PROVE  RunTyped' /\ TextIsOfTrigger'
  <1>0. /\ LogTyped' /\ Grows /\ AgentStep
        /\ RunStays \/ \E i : RunStarts(i)
    BY DEF Effect
  <1>1. PICK S : log \in Seq(S)
    BY DEF LogTyped
  <1>2. /\ Len(log) \in Nat /\ DOMAIN log = 1..Len(log)
        /\ \A i \in 1..Len(log) : i \in 1..Len(log') /\ log'[i] = log[i]
    BY <1>0, <1>1, TakenStays
  <1>3. CASE run' = NoRun
    <2>1. RunTyped'
      BY <1>3 DEF RunTyped, NoRun
    <2> QED
      BY <1>3, <2>1 DEF TextIsOfTrigger
  <1>4. ASSUME run # NoRun, run' = [trigger |-> run.trigger, text |-> run.text, on |-> run'.on,
                       depth |-> run'.depth, items |-> run'.items, todo |-> run'.todo,
                       wait |-> run'.wait]
        PROVE  RunTyped' /\ TextIsOfTrigger'
    <2>1. run'.trigger = run.trigger /\ run'.text = run.text
      BY <1>4
    <2>2. run.trigger \in 1..Len(log)
      BY <1>4 DEF RunTyped
    <2>3. RunTyped'
      BY <1>2, <1>4, <2>1, <2>2 DEF RunTyped
    <2>4. TextIsOfTrigger'
      <3> SUFFICES ASSUME log'[run'.trigger].kind = "done", NEW i \in TextsOf(run.trigger)'
                   PROVE  \E j \in Published("text", run.text)' : i <= j
        BY DEF TextIsOfTrigger
      <3>0. /\ i \in 1..Len(log') /\ log'[i].kind = "text"
            /\ i \in 1..run.trigger \/ log'[i].id = log'[run.trigger].id
        BY <1>2, <2>1, <2>2 DEF TextsOf, Published
      <3>1. log'[run.trigger] = log[run.trigger]
        BY <1>2, <2>2
      <3>2. i \in 1..Len(log) /\ log'[i] = log[i]
        <4>1. CASE i \in 1..run.trigger
          BY <1>2, <2>2, <4>1
        <4>2. CASE log'[i].id = log'[run.trigger].id
          BY <1>0, <2>1, <2>2, <3>0, <3>1, <4>2, NewTexts
        <4>. QED
          BY <3>0, <4>1, <4>2
      <3>3. i \in TextsOf(run.trigger)
        BY <1>2, <2>2, <3>0, <3>1, <3>2 DEF TextsOf, Published
      <3>4. PICK j \in Published("text", run.text) : i <= j
        BY <1>4, <2>1, <3>1, <3>3 DEF TextIsOfTrigger
      <3> QED
        BY <1>2, <2>1, <3>4 DEF Published
    <2> QED
      BY <2>3, <2>4
  <1>5. ASSUME NEW k, RunStarts(k) PROVE RunTyped' /\ TextIsOfTrigger'
    <2>1. /\ k \in 1..Len(log) /\ log' = log
          /\ run' = [trigger |-> k, text |-> run'.text, on |-> run'.on, depth |-> run'.depth,
                     items |-> run'.items, todo |-> run'.todo, wait |-> run'.wait]
          /\ log[k].kind = "done" => run'.text = LastText(log)
      BY <1>5 DEF RunStarts
    <2>2. run'.trigger = k
      BY <2>1
    <2>3. RunTyped'
      BY <2>1, <2>2 DEF RunTyped
    <2>4. TextIsOfTrigger'
      <3> SUFFICES ASSUME log[k].kind = "done", NEW i \in 1..Len(log), log[i].kind = "text"
                   PROVE  \E j \in 1..Len(log) :
                             log[j].kind = "text" /\ log[j].id = run'.text /\ i <= j
        BY <1>2, <2>1, <2>2 DEF TextIsOfTrigger, TextsOf, Published
      <3>1. \E j \in 1..Len(log) : i <= j /\ log[j].kind = "text" /\ log[j].id = LastText(log)
        BY <1>1, LastTextIsNewest
      <3> QED
        BY <2>1, <3>1
    <2> QED
      BY <2>3, <2>4
  <1> QED
    BY <1>0, <1>3, <1>4, <1>5 DEF RunStays

-----------------------------------------------------------------------------

LEMMA InitEstablishes == Init => AgentInv
  <1> SUFFICES ASSUME Init PROVE AgentInv
    OBVIOUS
  <1>1. PICK s \in Scenarios : LogInit(s.late) /\ PipeInit(s.agent) /\ LlmInit
    BY DEF Init
  <1>2. /\ log = <<>> /\ net = {} /\ out = <<>> /\ gen = Idle /\ run = NoRun /\ calls = 0
        /\ at = [p \in Reader |-> IF p \in s.late THEN -1 ELSE 0]
        /\ pos = [p \in Reader |-> 0]
    BY <1>1 DEF LogInit, PipeInit, LlmInit
  <1>3. Len(log) = 0 /\ Len(out) = 0 /\ 1..0 = {}
    BY <1>2
  <1>4. LogTyped
    <2>1. <<>> \in Seq({})
      OBVIOUS
    <2>2. at \in [Reader -> Int] /\ pos \in [Reader -> Nat] /\ calls \in Nat
      BY <1>2
    <2>3. gen \in [call : Nat, streaming : BOOLEAN, text : Texts \cup {"none"}]
      BY <1>2 DEF Idle
    <2> QED
      BY <1>2, <2>1, <2>2, <2>3 DEF LogTyped
  <1>5. RequestedOnce
    BY <1>2, <1>3 DEF RequestedOnce
  <1>6. WorkIsTaken
    BY <1>2, <1>3 DEF WorkIsTaken
  <1>7. OneAnswer
    BY <1>2, <1>3 DEF OneAnswer, LogAnswers, NetAnswers, OutAnswers, GenAnswers
  <1>8. TextFirst
    BY <1>2, <1>3 DEF TextFirst
  <1>9. RunTyped
    BY <1>2 DEF RunTyped, NoRun
  <1>10. TextIsOfTrigger
    BY <1>2 DEF TextIsOfTrigger
  <1> QED
    BY <1>4, <1>5, <1>6, <1>7, <1>8, <1>9, <1>10 DEF AgentInv

LEMMA NextKeeps == AgentInv /\ [Next]_vars => AgentInv'
  <1> SUFFICES ASSUME AgentInv, [Next]_vars PROVE AgentInv'
    OBVIOUS
  <1>1. /\ LogTyped /\ RequestedOnce /\ WorkIsTaken /\ OneAnswer /\ TextFirst
        /\ RunTyped /\ TextIsOfTrigger
    BY DEF AgentInv
  <1>2. Effect
    BY <1>1, NextEffect
  <1>3. LogTyped' /\ Grows /\ AgentStep
    BY <1>2 DEF Effect
  <1>4. Core'
    <2>1. Core
      BY <1>1 DEF Core
    <2> QED
      BY <1>3, <2>1, CoreKept
  <1>5. RunTyped' /\ TextIsOfTrigger'
    BY <1>1, <1>2, RunKept
  <1> QED
    BY <1>4, <1>5 DEF AgentInv, Core

\* The inductive invariant of a session with an agent: a call is requested once, its
\* service takes it once, and there is one answer at most, in the session or on its way
\* (the session loop, the evaluator and an RPC service, with all their calls in flight).
THEOREM AgentInvariant == Spec => []AgentInv
  BY InitEstablishes, NextKeeps, PTL DEF Spec

\* A pipeline set off by the completion of an answer works on a text at least as new as that
\* of the answer, if it has one, and as all that were there before its completion
\* (extract_last_assistant_text reads the history when the loop is free).
THEOREM TextIsAlwaysOfTrigger == Spec => []TextIsOfTrigger
  <1>1. AgentInv => TextIsOfTrigger
    BY DEF AgentInv
  <1> QED
    BY AgentInvariant, <1>1, PTL

\* A request is answered once at most, and only if its service got it live (ADR-123).
THEOREM AnswersAreAlwaysDue == Spec => []AnswersAreDue
  <1>1. AgentInv => AnswersAreDue
    <2> SUFFICES ASSUME AgentInv, NEW i \in DOMAIN log, log[i].kind = "response"
                 PROVE  /\ Cardinality(Published("response", log[i].id)) = 1
                        /\ \E r \in Published("request", log[i].id) :
                              r < i /\ Live(Service(log[r].info), r)
      BY DEF AnswersAreDue
    <2>1. LogTyped /\ WorkIsTaken /\ OneAnswer
      BY DEF AgentInv
    <2>2. i \in 1..Len(log) /\ Len(log) \in Nat
      BY <2>1 DEF LogTyped
    <2>3. Published("response", log[i].id) = {i}
      BY <2>1, <2>2 DEF Published, OneAnswer
    <2>4. Cardinality({i}) = 1
      BY FS_Singleton
    <2>5. PICK r \in 1..i - 1 : TakenAt(r, log[i].id)
      BY <2>1, <2>2 DEF WorkIsTaken
    <2>6. r \in Published("request", log[i].id) /\ r < i /\ Live(Service(log[r].info), r)
      BY <2>2, <2>5 DEF TakenAt, Published
    <2> QED
      BY <2>3, <2>4, <2>6
  <1> QED
    BY AgentInvariant, <1>1, PTL

=============================================================================
