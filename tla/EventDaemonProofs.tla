--------------------------- MODULE EventDaemonProofs ---------------------------
(***************************************************************************)
(* Proofs about EventDaemon, for every number of daemons, of VPs per       *)
(* daemon and of jobs.  ED is its instance in Prototypes: the invariant    *)
(* is one of ED!Spec, and the theorems are about the composition.          *)
(***************************************************************************)
EXTENDS Prototypes, SequenceTheorems, FiniteSetTheorems, TLAPS

-----------------------------------------------------------------------------
(* The invariant *)

Fns     == ED!Jobs \cup {Main}
Handed  == ED!Jobs \cup {NULL}
FrameOf == [body : Fns, joins : Handed]
Events  == [type : {"GetJob", "NewJob", "EndOfJob", "DestroyJob"}, vp : ED!VPs,
            job : Handed, fwd : BOOLEAN]

\* Where a VP is: in run() without a job, in a body or one of its joins, or
\* behind the GetJob event it has sent.
AtRun  == {"unborn", "loop", "gone", "ended", "endblock"}
InBody == {"body", "join", "joined", "help", "returned"}
Asking == {"blocked", "crash"}
Places == {"start", "turn", "sleep", "handle", "blocking", "count", "counted", "answer",
           "stop", "done"}

EDTypeOK ==
    /\ state \in [ED!Jobs -> {"none", "ready", "running", "finished"}]
    /\ handles \in [Fns -> SUBSET ED!Jobs]
    /\ dpc \in [ED!Daemons -> Places]
    /\ queue \in [ED!Daemons -> Seq(Events)] /\ waiting \in [ED!Daemons -> Seq(Events)]
    /\ hand = [d \in ED!Daemons |-> hand[d]]
    /\ shouldStop \in [ED!Daemons -> BOOLEAN]
    /\ pc \in [ED!VPs -> AtRun \cup InBody \cup Asking]
    /\ current \in [ED!VPs -> Handed] /\ context \in [ED!VPs -> Seq(Handed)]
    /\ frames \in [ED!VPs -> Seq(FrameOf)]
    /\ resumed \in [ED!VPs -> BOOLEAN]

\* The current job of a VP in the body b.
Code(b) == IF b = Main THEN NULL ELSE b

\* A join that looks for other work has saved the current job of its body.
Helps(v) == frames[v] # <<>> /\ pc[v] \in Asking \cup {"help"}

\* One saved context for every body below the top, and one of a helping join.
ShapeAt(v) ==
    /\ pc[v] \in AtRun => frames[v] = <<>>
    /\ pc[v] \in InBody => frames[v] # <<>>
    /\ frames[v] = <<>> => Len(context[v]) = 0
    /\ Helps(v) => Len(context[v]) = Len(frames[v])
    /\ frames[v] # <<>> /\ ~Helps(v) => Len(context[v]) = Len(frames[v]) - 1

\* What is saved are the current jobs of the bodies; a VP in a body has that of
\* the top one.
CodeAt(v) ==
    /\ \A i \in DOMAIN context[v] : context[v][i] = Code(frames[v][i].body)
    /\ pc[v] \in InBody => current[v] = Code(ED!Body(v))
    /\ pc[v] = "returned" => ED!Body(v) # Main
    /\ pc[v] \in {"unborn", "loop"} => current[v] = NULL

Running(v, j) == \E i \in DOMAIN frames[v] : frames[v][i].body = j

OnceAt(v) ==
    \A i, k \in DOMAIN frames[v] : frames[v][i].body = frames[v][k].body => i = k

MainAt(v) ==
    \A i \in DOMAIN frames[v] : frames[v][i].body = Main => v = 0 /\ i = 1

\* What a helping join has been given is new to the VP.
FreshAt(v) ==
    Helps(v) => current[v] = ED!Last(context[v]) \/ ~Running(v, current[v])

\* A body joins a job of its own; only the top one may not be in a join.
JoinsAt(v) ==
    \A i \in DOMAIN frames[v] :
        \/ frames[v][i].joins \in handles[frames[v][i].body]
        \/ i = Len(frames[v]) /\ pc[v] \in {"body", "returned"} /\ frames[v][i].joins = NULL

StackAt(v) ==
    /\ ShapeAt(v) /\ CodeAt(v) /\ OnceAt(v) /\ MainAt(v) /\ FreshAt(v) /\ JoinsAt(v)
    /\ v # 0 /\ dpc[ED!Boss(v)] = "start" => pc[v] = "unborn"

\* Who has the job j: a VP that runs it or was given it, a daemon that is about
\* to give it away.
Given(v, j)  == pc[v] = "blocked" /\ current[v] = j
Has(v, j)    == Running(v, j) \/ Given(v, j)
Offers(d, j) == dpc[d] = "answer" /\ hand[d] = j

Unclaimed(j) == state[j] \in {"none", "ready"}

\* One VP or daemon has the job, nobody before it was claimed.
HeldAt(j) ==
    /\ \A v, w \in ED!VPs : Has(v, j) /\ Has(w, j) => v = w
    /\ \A v \in ED!VPs, d \in ED!Daemons : ~(Has(v, j) /\ Offers(d, j))
    /\ \A d, k \in ED!Daemons : Offers(d, j) /\ Offers(k, j) => d = k
    /\ Unclaimed(j) => /\ \A v \in ED!VPs : ~Has(v, j)
                       /\ \A d \in ED!Daemons : ~Offers(d, j)

\* When it has finished, only the VP that is about to tell its daemon has it.
EndAt(j) ==
    state[j] = "finished" =>
        /\ \A v \in ED!VPs : Has(v, j) => pc[v] = "returned" /\ ED!Body(v) = j
        /\ \A d \in ED!Daemons : ~Offers(d, j)

\* A job that is to be joined was created, by one body.
OwnerAt(j) ==
    \A a, b \in Fns : j \in handles[a] =>
        /\ j \in handles[b] => a = b
        /\ state[j] # "none"

JobAt(j) == HeldAt(j) /\ EndAt(j) /\ OwnerAt(j)

Asks(e, v)   == e.type = "GetJob" /\ e.vp = v
Asked(s, v)  == \E i \in DOMAIN s : Asks(s[i], v)
OnceIn(s, v) == \A i, k \in DOMAIN s : Asks(s[i], v) /\ Asks(s[k], v) => i = k

Queued(v) == Asked(queue[ED!Boss(v)], v)
Waits(v)  == Asked(waiting[ED!Boss(v)], v)
InHand(v) == dpc[ED!Boss(v)] = "handle" /\ Asks(hand[ED!Boss(v)], v)

\* A blocked VP has one answer to come: its event is in one place, or it has
\* been resumed.
OneAt(v) ==
    /\ OnceIn(queue[ED!Boss(v)], v) /\ OnceIn(waiting[ED!Boss(v)], v)
    /\ ~(Queued(v) /\ Waits(v)) /\ ~(Queued(v) /\ InHand(v)) /\ ~(Waits(v) /\ InHand(v))
    /\ resumed[v] => ~Queued(v) /\ ~Waits(v) /\ ~InHand(v)
    /\ (pc[v] = "blocked") <=> (Queued(v) \/ Waits(v) \/ InHand(v) \/ resumed[v])

\* A GetJob event is with the daemon of its VP, and names the job its join waits
\* for; the other events are about a job.
Home(d, e) ==
    /\ e.type = "GetJob" =>
          /\ ED!Boss(e.vp) = d
          /\ e.job = IF frames[e.vp] = <<>> THEN NULL ELSE ED!Joined(e.vp)
    /\ e.type # "GetJob" => e.job \in ED!Jobs

EventsAt(d) ==
    /\ \A i \in DOMAIN queue[d] : Home(d, queue[d][i])
    /\ \A i \in DOMAIN waiting[d] : Home(d, waiting[d][i]) /\ waiting[d][i].type = "GetJob"
    /\ dpc[d] = "handle" => hand[d] \in Events /\ Home(d, hand[d])
    /\ dpc[d] = "answer" => hand[d] \in Handed
    /\ dpc[d] \in {"blocking", "count", "counted", "answer"} => waiting[d] # <<>>

EDInv ==
    /\ EDTypeOK
    /\ \A v \in ED!VPs : StackAt(v) /\ OneAt(v)
    /\ \A j \in ED!Jobs : JobAt(j)
    /\ \A d \in ED!Daemons : EventsAt(d)

-----------------------------------------------------------------------------
(* Lemmas *)

LEMMA Constants ==
    /\ \A v \in ED!VPs : ED!Boss(v) \in ED!Daemons
    /\ 0 \in ED!VPs /\ Main \notin ED!Jobs /\ NULL \notin ED!Jobs /\ NULL # Main
    /\ \A j \in ED!Jobs : Code(j) = j /\ Code(j) # NULL
    /\ Code(Main) = NULL
<1>1. ASSUME NEW v \in ED!VPs PROVE ED!Boss(v) \in ED!Daemons
  <2> DEFINE K == VPsPerDaemon
             D == NumDaemons
             q == v \div K
  <2>1. K \in Nat \ {0} /\ D \in Nat \ {0} /\ v \in Nat /\ v < D * K
    BY EventDaemonAssumption DEF ED!VPs
  <2>2. q \in Nat /\ K * q <= v BY <2>1
  <2>3. ASSUME D <= q PROVE FALSE
    <3>1. PICK i \in Nat : q = D + i BY <2>1, <2>2, <2>3
    <3> HIDE DEF q, K, D
    <3>2. K * q = D * K + K * i /\ K * i >= 0 /\ D * K \in Nat BY <2>1, <3>1
    <3> QED BY <2>1, <2>2, <3>2
  <2>4. q < D BY <2>1, <2>2, <2>3
  <2> QED BY <2>1, <2>2, <2>4 DEF ED!Boss, ED!Daemons
<1>2. 0 \in ED!VPs
  <2>1. NumDaemons * VPsPerDaemon >= 1 BY EventDaemonAssumption
  <2> QED BY <2>1, EventDaemonAssumption DEF ED!VPs
<1>3. Main \notin ED!Jobs /\ NULL \notin ED!Jobs /\ NULL # Main
  BY EventDaemonAssumption DEF ED!Jobs
<1> QED BY <1>1, <1>2, <1>3 DEF Code

\* What Front and Last are.
LEMMA FrontFacts ==
    ASSUME NEW S, NEW s \in Seq(S), s # <<>>
    PROVE  /\ ED!Front(s) \in Seq(S) /\ Len(ED!Front(s)) = Len(s) - 1
           /\ \A i \in 1 .. Len(s) - 1 : ED!Front(s)[i] = s[i]
           /\ Len(s) \in Nat \ {0} /\ ED!Last(s) \in S /\ ED!Last(s) = s[Len(s)]
<1>1. Len(s) \in Nat \ {0} /\ ED!Last(s) = s[Len(s)] /\ ED!Last(s) \in S
  BY DEF ED!Last
<1> DEFINE n == Len(s) - 1
<1>2. n \in Nat /\ n - 1 + 1 = n /\ \A i \in 1 .. n : s[i] \in S /\ 1 + i - 1 = i
  BY <1>1
<1>3. ED!Front(s) = SubSeq(s, 1, n) BY DEF ED!Front
<1>4. /\ ED!Front(s) \in Seq(S)
      /\ Len(ED!Front(s)) = IF 1 <= n THEN n - 1 + 1 ELSE 0
      /\ \A i \in 1 .. n - 1 + 1 : ED!Front(s)[i] = s[1 + i - 1]
  <2> HIDE DEF n
  <2> QED BY <1>2, <1>3, SubSeqProperties
<1>5. Len(ED!Front(s)) = n /\ \A i \in 1 .. n : ED!Front(s)[i] = s[i]
  <2> HIDE DEF n
  <2> QED BY <1>2, <1>4
<1> QED BY <1>1, <1>4, <1>5

\* A request that arrives is behind the others.
LEMMA AppendAsks ==
    ASSUME NEW s \in Seq(Events), NEW e \in Events
    PROVE  /\ Append(s, e) \in Seq(Events) /\ Append(s, e) # <<>>
           /\ \A v : Asked(Append(s, e), v) <=> Asked(s, v) \/ Asks(e, v)
           /\ \A v : OnceIn(s, v) /\ ~(Asked(s, v) /\ Asks(e, v)) => OnceIn(Append(s, e), v)
           /\ \A i \in DOMAIN Append(s, e) :
                 \/ Append(s, e)[i] = e
                 \/ i \in DOMAIN s /\ Append(s, e)[i] = s[i]
<1> DEFINE n == Len(s)
           t == Append(s, e)
<1>1. /\ n \in Nat /\ DOMAIN s = 1 .. n /\ t \in Seq(Events) /\ Len(t) = n + 1
      /\ DOMAIN t = 1 .. n + 1 /\ t # <<>> /\ t[n + 1] = e
      /\ \A i \in 1 .. n : t[i] = s[i]
  OBVIOUS
<1> HIDE DEF n, t
<1>2. \A i \in 1 .. n + 1 : i \in 1 .. n \/ i = n + 1 BY <1>1
<1>3. 1 .. n \subseteq 1 .. n + 1 /\ n + 1 \in 1 .. n + 1 BY <1>1
<1>4. \A v : Asked(t, v) <=> Asked(s, v) \/ Asks(e, v)
  BY <1>1, <1>2, <1>3 DEF Asked
<1>5. \A v : OnceIn(s, v) /\ ~(Asked(s, v) /\ Asks(e, v)) => OnceIn(t, v)
  BY <1>1, <1>2 DEF Asked, OnceIn
<1>6. \A i \in DOMAIN t : t[i] = e \/ (i \in DOMAIN s /\ t[i] = s[i])
  BY <1>1, <1>2
<1> QED BY <1>1, <1>4, <1>5, <1>6 DEF t

\* A request that is taken from a list, from its head or from the middle.
LEMMA RemoveAsks ==
    ASSUME NEW s \in Seq(Events), NEW i \in DOMAIN s, NEW t \in Seq(Events),
           Len(t) = Len(s) - 1,
           \A k \in DOMAIN t : t[k] = IF k < i THEN s[k] ELSE s[k + 1]
    PROVE  /\ \A v : Asked(s, v) <=> Asked(t, v) \/ Asks(s[i], v)
           /\ \A v : OnceIn(s, v) => OnceIn(t, v) /\ ~(Asked(t, v) /\ Asks(s[i], v))
           /\ \A k \in DOMAIN t : \E m \in DOMAIN s : t[k] = s[m]
<1> DEFINE n == Len(s)
<1>1. /\ n \in Nat /\ DOMAIN s = 1 .. n /\ DOMAIN t = 1 .. n - 1 /\ i \in 1 .. n
  OBVIOUS
<1> HIDE DEF n
<1>2. \A k \in 1 .. n - 1 : /\ k < i => k \in 1 .. n /\ k # i /\ t[k] = s[k]
                            /\ ~(k < i) => k + 1 \in 1 .. n /\ k + 1 # i /\ t[k] = s[k + 1]
  BY <1>1
<1>3. \A m \in 1 .. n : \/ m = i
                        \/ m < i /\ m \in 1 .. n - 1 /\ t[m] = s[m]
                        \/ i < m /\ m - 1 \in 1 .. n - 1 /\ t[m - 1] = s[m]
  BY <1>1
<1>4. \A k, m \in 1 .. n - 1 :
         (IF k < i THEN k ELSE k + 1) = (IF m < i THEN m ELSE m + 1) => k = m
  BY <1>1
<1> DEFINE p(k) == IF k < i THEN k ELSE k + 1
<1>5. \A k \in 1 .. n - 1 : p(k) \in 1 .. n /\ p(k) # i /\ t[k] = s[p(k)]
  BY <1>2
<1>6. \A k, m \in 1 .. n - 1 : p(k) = p(m) => k = m BY <1>4
<1> HIDE DEF p
<1>7. \A v : Asked(s, v) <=> Asked(t, v) \/ Asks(s[i], v)
  BY <1>1, <1>3, <1>5 DEF Asked
<1>8. \A v : OnceIn(s, v) => OnceIn(t, v) /\ ~(Asked(t, v) /\ Asks(s[i], v))
  BY <1>1, <1>5, <1>6 DEF Asked, OnceIn
<1> QED BY <1>1, <1>5, <1>7, <1>8

LEMMA TailAsks ==
    ASSUME NEW s \in Seq(Events), s # <<>>
    PROVE  /\ Tail(s) \in Seq(Events) /\ Head(s) \in Events /\ Head(s) = s[1] /\ 1 \in DOMAIN s
           /\ \A v : Asked(s, v) <=> Asked(Tail(s), v) \/ Asks(Head(s), v)
           /\ \A v : OnceIn(s, v)
                => OnceIn(Tail(s), v) /\ ~(Asked(Tail(s), v) /\ Asks(Head(s), v))
           /\ \A k \in DOMAIN Tail(s) : \E m \in DOMAIN s : Tail(s)[k] = s[m]
<1> DEFINE t == Tail(s)
<1>1. /\ t \in Seq(Events) /\ Len(t) = Len(s) - 1 /\ 1 \in DOMAIN s /\ Head(s) = s[1]
      /\ \A k \in DOMAIN t : t[k] = s[k + 1] /\ k \in Nat /\ ~(k < 1)
      /\ Head(s) \in Events
  OBVIOUS
<1> HIDE DEF t
<1>2. \A k \in DOMAIN t : t[k] = IF k < 1 THEN s[k] ELSE s[k + 1] BY <1>1
<1>3. /\ \A v : Asked(s, v) <=> Asked(t, v) \/ Asks(s[1], v)
      /\ \A v : OnceIn(s, v) => OnceIn(t, v) /\ ~(Asked(t, v) /\ Asks(s[1], v))
      /\ \A k \in DOMAIN t : \E m \in DOMAIN s : t[k] = s[m]
  BY <1>1, <1>2, RemoveAsks
<1> QED BY <1>1, <1>3 DEF t

LEMMA RemoveAtAsks ==
    ASSUME NEW s \in Seq(Events), NEW i \in DOMAIN s
    PROVE  /\ ED!RemoveAt(s, i) \in Seq(Events)
           /\ \A v : Asked(s, v) <=> Asked(ED!RemoveAt(s, i), v) \/ Asks(s[i], v)
           /\ \A v : OnceIn(s, v) => /\ OnceIn(ED!RemoveAt(s, i), v)
                                     /\ ~(Asked(ED!RemoveAt(s, i), v) /\ Asks(s[i], v))
           /\ \A k \in DOMAIN ED!RemoveAt(s, i) : \E m \in DOMAIN s : ED!RemoveAt(s, i)[k] = s[m]
<1> DEFINE n == Len(s)
           a == SubSeq(s, 1, i - 1)
           b == SubSeq(s, i + 1, n)
           t == ED!RemoveAt(s, i)
<1>1. n \in Nat /\ DOMAIN s = 1 .. n /\ i \in 1 .. n /\ \A k \in 1 .. n : s[k] \in Events
  OBVIOUS
<1>2. t = a \o b BY DEF ED!RemoveAt
<1>3. /\ a \in Seq(Events) /\ Len(a) = i - 1 /\ \A k \in 1 .. i - 1 : a[k] = s[k]
  <2>1. \A k \in 1 .. i - 1 : s[k] \in Events /\ 1 + k - 1 = k BY <1>1
  <2>2. i - 1 \in Int /\ 1 \in Int BY <1>1
  <2> DEFINE m == i - 1
  <2>3. m \in Nat /\ m - 1 + 1 = m BY <1>1
  <2>4. /\ a \in Seq(Events)
        /\ Len(a) = IF 1 <= m THEN m - 1 + 1 ELSE 0
        /\ \A k \in 1 .. m - 1 + 1 : a[k] = s[1 + k - 1]
    <3> HIDE DEF m
    <3> QED BY <2>1, <2>3, SubSeqProperties DEF m
  <2> HIDE DEF m, a
  <2>5. Len(a) = m /\ \A k \in 1 .. m : a[k] = s[k] BY <2>3, <2>4
  <2> QED BY <2>4, <2>5 DEF m
<1>4. /\ b \in Seq(Events) /\ Len(b) = n - i /\ \A k \in 1 .. n - i : b[k] = s[i + k]
  <2> DEFINE m == i + 1
  <2>1. m \in Nat /\ n - m + 1 = n - i /\ \A k \in m .. n : s[k] \in Events BY <1>1
  <2>2. /\ b \in Seq(Events)
        /\ Len(b) = IF m <= n THEN n - m + 1 ELSE 0
        /\ \A k \in 1 .. n - m + 1 : b[k] = s[m + k - 1]
    <3> HIDE DEF m, n
    <3> QED BY <1>1, <2>1, SubSeqProperties DEF m
  <2>3. \A k \in 1 .. n - i : m + k - 1 = i + k BY <1>1
  <2> HIDE DEF b
  <2>4. Len(b) = n - i BY <1>1, <2>1, <2>2
  <2> HIDE DEF m
  <2> QED BY <2>1, <2>2, <2>3, <2>4
<1> HIDE DEF a, b
<1>5. /\ t \in Seq(Events) /\ Len(t) = n - 1
      /\ \A k \in 1 .. n - 1 : t[k] = IF k < i THEN s[k] ELSE s[k + 1]
  <2> HIDE DEF t, n
  <2>1. a \o b \in Seq(Events) /\ Len(a \o b) = n - 1
    <3>1. i - 1 + (n - i) = n - 1 BY <1>1
    <3>2. a \in Seq(Events) /\ b \in Seq(Events) BY <1>3, <1>4
    <3>3. a \o b \in Seq(Events) /\ Len(a \o b) = Len(a) + Len(b)
      BY <3>2, ConcatProperties
    <3> QED BY <1>3, <1>4, <3>1, <3>3
  <2>2. ASSUME NEW k \in 1 .. n - 1 PROVE (a \o b)[k] = IF k < i THEN s[k] ELSE s[k + 1]
    <3>1. CASE k < i
      <4>1. k \in 1 .. Len(a) BY <1>1, <1>3, <3>1
      <4>2. (a \o b)[k] = a[k] BY <1>3, <1>4, <4>1
      <4> QED BY <1>3, <3>1, <4>1, <4>2
    <3>2. CASE ~(k < i)
      <4>0. Len(a) = i - 1 /\ Len(b) = n - i BY <1>3, <1>4
      <4>3. n \in Nat /\ i \in Nat /\ k \in Nat /\ i <= k /\ k <= n - 1 BY <1>1, <3>2
      <4> HIDE DEF t, n
      <4>4. /\ i - 1 + 1 = i /\ i - 1 + (n - i) = n - 1 /\ i + (k - (i - 1)) = k + 1
            /\ k - (i - 1) \in 1 .. n - i /\ k \in i .. n - 1
        BY <4>3
      <4>1. k \in Len(a) + 1 .. Len(a) + Len(b) /\ k - Len(a) \in 1 .. n - i
            /\ i + (k - Len(a)) = k + 1
        BY <4>0, <4>4
      <4>2. (a \o b)[k] = b[k - Len(a)] BY <1>3, <1>4, <4>1
      <4> QED BY <1>4, <3>2, <4>1, <4>2
    <3> QED BY <3>1, <3>2
  <2> QED BY <1>2, <2>1, <2>2
<1> HIDE DEF t
<1>6. /\ \A v : Asked(s, v) <=> Asked(t, v) \/ Asks(s[i], v)
      /\ \A v : OnceIn(s, v) => OnceIn(t, v) /\ ~(Asked(t, v) /\ Asks(s[i], v))
      /\ \A k \in DOMAIN t : \E m \in DOMAIN s : t[k] = s[m]
  <2>1. Len(t) = Len(s) - 1 /\ \A k \in DOMAIN t : t[k] = IF k < i THEN s[k] ELSE s[k + 1]
    BY <1>1, <1>5
  <2> HIDE DEF n
  <2> QED BY <1>5, <2>1, RemoveAsks
<1> QED BY <1>5, <1>6 DEF t

\* get_job returns a job that is ready, or none.
LEMMA FoundFact == ED!FoundJob = NULL \/ (ED!FoundJob \in ED!Jobs /\ ED!Ready(ED!FoundJob))
BY DEF ED!FoundJob

-----------------------------------------------------------------------------
(* What the invariant gives and what keeps its parts *)

\* What the invariant says of one VP.
LEMMA OwnFacts ==
    ASSUME EDInv, NEW v \in ED!VPs
    PROVE  /\ frames[v] \in Seq(FrameOf) /\ context[v] \in Seq(Handed)
           /\ current[v] \in Handed /\ pc[v] \in AtRun \cup InBody \cup Asking
           /\ Len(frames[v]) \in Nat /\ DOMAIN frames[v] = 1 .. Len(frames[v])
           /\ Len(context[v]) \in Nat /\ DOMAIN context[v] = 1 .. Len(context[v])
           /\ (frames[v] = <<>>) <=> (Len(frames[v]) = 0)
           /\ (context[v] = <<>>) <=> (Len(context[v]) = 0)
           /\ \A i \in DOMAIN frames[v] : frames[v][i] \in FrameOf
           /\ resumed[v] \in BOOLEAN
           /\ StackAt(v) /\ OneAt(v) /\ ED!Boss(v) \in ED!Daemons
BY Constants DEF EDInv, EDTypeOK

\* ... and of one daemon.
LEMMA DaemonFacts ==
    ASSUME EDInv, NEW d \in ED!Daemons
    PROVE  /\ queue[d] \in Seq(Events) /\ waiting[d] \in Seq(Events) /\ dpc[d] \in Places
           /\ \A i \in DOMAIN queue[d] : queue[d][i] \in Events
           /\ \A i \in DOMAIN waiting[d] : waiting[d][i] \in Events
           /\ EventsAt(d)
BY DEF EDInv, EDTypeOK

\* The top of a stack, and what is left without it.
LEMMA TopFacts ==
    ASSUME EDInv, NEW v \in ED!VPs
    PROVE  /\ frames[v] # <<>> =>
                  /\ ED!Front(frames[v]) \in Seq(FrameOf) /\ ED!Last(frames[v]) \in FrameOf
                  /\ Len(frames[v]) \in Nat \ {0}
                  /\ ED!Last(frames[v]) = frames[v][Len(frames[v])]
                  /\ Len(ED!Front(frames[v])) = Len(frames[v]) - 1
                  /\ \A i \in 1 .. Len(frames[v]) - 1 : ED!Front(frames[v])[i] = frames[v][i]
           /\ context[v] # <<>> =>
                  /\ ED!Front(context[v]) \in Seq(Handed) /\ ED!Last(context[v]) \in Handed
                  /\ Len(context[v]) \in Nat \ {0}
                  /\ ED!Last(context[v]) = context[v][Len(context[v])]
                  /\ Len(ED!Front(context[v])) = Len(context[v]) - 1
                  /\ \A i \in 1 .. Len(context[v]) - 1 : ED!Front(context[v])[i] = context[v][i]
<1>1. frames[v] \in Seq(FrameOf) /\ context[v] \in Seq(Handed) BY OwnFacts
<1>2. CASE frames[v] # <<>> /\ context[v] # <<>> BY <1>1, <1>2, FrontFacts
<1>3. CASE frames[v] # <<>> /\ context[v] = <<>> BY <1>1, <1>3, FrontFacts
<1>4. CASE frames[v] = <<>> /\ context[v] # <<>> BY <1>1, <1>4, FrontFacts
<1> QED BY <1>2, <1>3, <1>4

\* A VP that only gets a current job it does not run, or begins to wait, keeps
\* its stack in order.
LEMMA StackKept ==
    ASSUME EDInv, NEW w \in ED!VPs, frames'[w] = frames[w], context'[w] = context[w],
           \/ pc'[w] = pc[w]
           \/ pc[w] \in {"loop", "help"} /\ pc'[w] = "blocked",
           \/ current'[w] = current[w]
           \/ pc[w] = "blocked" /\ ~Running(w, current'[w]),
           \A i \in DOMAIN frames[w] :
               frames[w][i].joins \in handles[frames[w][i].body]
                   => frames[w][i].joins \in handles'[frames[w][i].body],
           dpc'[ED!Boss(w)] = "start" => dpc[ED!Boss(w)] = "start"
    PROVE  StackAt(w)'
<1>1. StackAt(w) BY OwnFacts
<1>2. Helps(w)' => Helps(w) BY <1>1 DEF StackAt, ShapeAt, Helps, AtRun, Asking
<1>3. Helps(w) => Helps(w)' BY DEF Helps, Asking
<1>4. ShapeAt(w)'
  BY <1>1, <1>2, <1>3 DEF StackAt, ShapeAt, AtRun, InBody, Asking
<1>5. CodeAt(w)' BY <1>1 DEF StackAt, CodeAt, InBody, ED!Body
<1>6. JoinsAt(w)' BY <1>1 DEF StackAt, JoinsAt
<1>7. OnceAt(w)' /\ MainAt(w)' BY <1>1 DEF StackAt, OnceAt, MainAt
<1>8. FreshAt(w)' BY <1>1, <1>2 DEF StackAt, FreshAt, Running
<1> QED BY <1>1, <1>4, <1>5, <1>6, <1>7, <1>8 DEF StackAt

\* Nobody comes to have a job but k, of which it is shown apart.
LEMMA JobsKept ==
    ASSUME EDInv, NEW k \in Handed,
           \A j \in ED!Jobs \ {k} :
               /\ \A w \in ED!VPs : Has(w, j)' => Has(w, j)
               /\ \A d \in ED!Daemons : Offers(d, j)' => Offers(d, j)
               /\ state'[j] = state[j] \/ (Unclaimed(j) /\ state'[j] = "ready")
               /\ \A w \in ED!VPs : pc[w] = "returned" /\ ED!Body(w) = j /\ Has(w, j)'
                                        => pc'[w] = "returned" /\ ED!Body(w)' = j,
           k \in ED!Jobs => HeldAt(k)' /\ EndAt(k)',
           \A j \in ED!Jobs : OwnerAt(j)'
    PROVE  \A j \in ED!Jobs : JobAt(j)'
<1> SUFFICES ASSUME NEW j \in ED!Jobs \ {k} PROVE HeldAt(j)' /\ EndAt(j)'
  BY DEF JobAt
<1>1. HeldAt(j) /\ EndAt(j) BY DEF EDInv, JobAt
<1>2. Unclaimed(j)' => Unclaimed(j) BY DEF Unclaimed
<1>3. HeldAt(j)' BY <1>1, <1>2 DEF HeldAt
<1>4. state'[j] = "finished" => state[j] = "finished" BY DEF Unclaimed
<1>5. EndAt(j)' BY <1>1, <1>4 DEF EndAt
<1> QED BY <1>3, <1>5

\* A job that is claimed gets one holder: the VP h or the daemon g.
LEMMA ClaimedOnce ==
    ASSUME EDInv, NEW k \in ED!Jobs, Unclaimed(k), state'[k] = "running",
           NEW h, NEW g, h \notin ED!VPs \/ g \notin ED!Daemons,
           \A w \in ED!VPs : Has(w, k)' => Has(w, k) \/ w = h,
           \A d \in ED!Daemons : Offers(d, k)' => Offers(d, k) \/ d = g
    PROVE  HeldAt(k)' /\ EndAt(k)'
<1>1. HeldAt(k) BY DEF EDInv, JobAt
<1>2. /\ \A w \in ED!VPs : Has(w, k)' => w = h
      /\ \A d \in ED!Daemons : Offers(d, k)' => d = g
  BY <1>1 DEF HeldAt
<1>3. ~Unclaimed(k)' /\ state'[k] # "finished" BY DEF Unclaimed
<1> QED BY <1>2, <1>3 DEF HeldAt, EndAt

\* The owners stay when no body gets a job and no job goes back to not created.
LEMMA OwnerKept ==
    ASSUME EDInv, \A b \in Fns : handles'[b] \subseteq handles[b],
           \A j \in ED!Jobs : state'[j] = "none" => state[j] = "none"
    PROVE  \A j \in ED!Jobs : OwnerAt(j)'
BY DEF EDInv, JobAt, OwnerAt

\* An unclaimed job is on no stack, and neither is no job.
LEMMA UnclaimedFresh ==
    ASSUME EDInv, NEW w \in ED!VPs, NEW k \in Handed, k # NULL => Unclaimed(k)
    PROVE  ~Running(w, k)
<1>1. CASE k = NULL
  <2>1. \A i \in DOMAIN frames[w] : frames[w][i].body # NULL
    BY OwnFacts, Constants DEF FrameOf, Fns
  <2> QED BY <1>1, <2>1 DEF Running
<1>2. CASE k \in ED!Jobs
  BY <1>2, Constants DEF EDInv, JobAt, HeldAt, Has
<1> QED BY <1>1, <1>2 DEF Handed

\* Who has a request somewhere is blocked.
LEMMA AskerBlocked ==
    ASSUME EDInv, NEW d \in ED!Daemons, NEW e \in Events, e.type = "GetJob",
           \/ \E i \in DOMAIN queue[d] : e = queue[d][i]
           \/ \E i \in DOMAIN waiting[d] : e = waiting[d][i]
           \/ dpc[d] = "handle" /\ e = hand[d]
    PROVE  e.vp \in ED!VPs /\ ED!Boss(e.vp) = d /\ pc[e.vp] = "blocked" /\ ~resumed[e.vp]
<1>1. e.vp \in ED!VPs BY DEF Events
<1>2. Home(d, e) BY DaemonFacts DEF EventsAt
<1>3. ED!Boss(e.vp) = d /\ Asks(e, e.vp) BY <1>2 DEF Home, Asks
<1>4. Queued(e.vp) \/ Waits(e.vp) \/ InHand(e.vp)
  BY <1>3 DEF Queued, Waits, InHand, Asked
<1>5. resumed[e.vp] \in BOOLEAN /\ OneAt(e.vp) BY <1>1, OwnFacts
<1> QED BY <1>1, <1>3, <1>4, <1>5 DEF OneAt

\* The events stay with the right daemon while they are queued, taken and put on
\* the waiting list, when their VPs' stacks stay.
LEMMA EventsKept ==
    ASSUME EDInv, NEW d \in ED!Daemons,
           \A v \in ED!VPs : pc[v] = "blocked" /\ ~resumed[v] => frames'[v] = frames[v],
           queue'[d] \in Seq(Events), waiting'[d] \in Seq(Events),
           \A i \in DOMAIN queue'[d] :
               \/ \E k \in DOMAIN queue[d] : queue'[d][i] = queue[d][k]
               \/ \E e \in Events : queue'[d][i] = e /\ Home(d, e)',
           \A i \in DOMAIN waiting'[d] :
               \/ \E k \in DOMAIN waiting[d] : waiting'[d][i] = waiting[d][k]
               \/ dpc[d] = "handle" /\ waiting'[d][i] = hand[d] /\ hand[d].type = "GetJob",
           dpc'[d] = "handle" => \/ dpc[d] = "handle" /\ hand'[d] = hand[d]
                                 \/ queue[d] # <<>> /\ hand'[d] = Head(queue[d]),
           dpc'[d] = "answer" => hand'[d] \in Handed,
           dpc'[d] \in {"blocking", "count", "counted", "answer"} => waiting'[d] # <<>>
    PROVE  EventsAt(d)'
<1>1. EventsAt(d) BY DaemonFacts
<1>2. ASSUME NEW e \in Events, Home(d, e),
             \/ \E i \in DOMAIN queue[d] : e = queue[d][i]
             \/ \E i \in DOMAIN waiting[d] : e = waiting[d][i]
             \/ dpc[d] = "handle" /\ e = hand[d]
      PROVE  Home(d, e)'
  <2>1. CASE e.type # "GetJob" BY <1>2, <2>1 DEF Home
  <2>2. CASE e.type = "GetJob"
    <3>1. e.vp \in ED!VPs /\ frames'[e.vp] = frames[e.vp]
      BY <1>2, <2>2, AskerBlocked
    <3> QED BY <1>2, <2>2, <3>1 DEF Home, ED!Joined
  <2> QED BY <2>1, <2>2
<1>3. \A e \in Events : (\E i \in DOMAIN queue[d] : e = queue[d][i]) => Home(d, e)'
  BY <1>1, <1>2, DaemonFacts DEF EventsAt
<1>4. \A e \in Events : (\E i \in DOMAIN waiting[d] : e = waiting[d][i])
                            => Home(d, e)' /\ e.type = "GetJob"
  BY <1>1, <1>2, DaemonFacts DEF EventsAt
<1>5. \A e \in Events : dpc[d] = "handle" /\ e = hand[d] => Home(d, e)'
  BY <1>1, <1>2 DEF EventsAt
<1>6. \A e \in Events : queue[d] # <<>> /\ e = Head(queue[d]) => Home(d, e)'
  BY <1>3, DaemonFacts, TailAsks
<1>7. \A e \in Events : (\E i \in DOMAIN queue'[d] : e = queue'[d][i]) => Home(d, e)'
  BY <1>3, DaemonFacts
<1>8. \A e \in Events : (\E i \in DOMAIN waiting'[d] : e = waiting'[d][i])
                            => Home(d, e)' /\ e.type = "GetJob"
  BY <1>4, <1>5, DaemonFacts
<1>9. /\ \A i \in DOMAIN queue'[d] : queue'[d][i] \in Events
      /\ \A i \in DOMAIN waiting'[d] : waiting'[d][i] \in Events
  OBVIOUS
<1>10. dpc'[d] = "handle" => hand'[d] \in Events
  BY <1>1, DaemonFacts, TailAsks DEF EventsAt
<1>11. dpc'[d] = "handle" => Home(d, hand[d])'
  BY <1>5, <1>6, <1>10
<1> QED BY <1>7, <1>8, <1>9, <1>10, <1>11 DEF EventsAt

\* A queue to which at most an event of another kind was appended.
Quiet(d) ==
    \/ queue'[d] = queue[d]
    \/ \E e \in Events : e.type # "GetJob" /\ e.job \in ED!Jobs /\ queue'[d] = Append(queue[d], e)

LEMMA QuietQueue ==
    ASSUME EDInv, NEW d \in ED!Daemons, Quiet(d)
    PROVE  /\ queue'[d] \in Seq(Events)
           /\ \A v : Asked(queue'[d], v) <=> Asked(queue[d], v)
           /\ \A v : OnceIn(queue[d], v) => OnceIn(queue'[d], v)
           /\ \A i \in DOMAIN queue'[d] :
                 \/ \E k \in DOMAIN queue[d] : queue'[d][i] = queue[d][k]
                 \/ \E e \in Events : queue'[d][i] = e /\ Home(d, e)'
<1>1. CASE queue'[d] = queue[d] BY <1>1, DaemonFacts
<1>2. ASSUME NEW e \in Events, e.type # "GetJob", e.job \in ED!Jobs,
             queue'[d] = Append(queue[d], e)
      PROVE  /\ queue'[d] \in Seq(Events)
             /\ \A v : Asked(queue'[d], v) <=> Asked(queue[d], v)
             /\ \A v : OnceIn(queue[d], v) => OnceIn(queue'[d], v)
             /\ \A i \in DOMAIN queue'[d] :
                   \/ \E k \in DOMAIN queue[d] : queue'[d][i] = queue[d][k]
                   \/ \E x \in Events : queue'[d][i] = x /\ Home(d, x)'
  <2>1. (\A v : ~Asks(e, v)) /\ Home(d, e)' BY <1>2 DEF Asks, Home
  <2>2. queue[d] \in Seq(Events) BY DaemonFacts
  <2> QED BY <1>2, <2>1, <2>2, AppendAsks
<1> QED BY <1>1, <1>2 DEF Quiet

\* The request of v stays where it is.
LEMMA OneKept ==
    ASSUME EDInv, NEW v \in ED!VPs, resumed'[v] = resumed[v],
           (pc'[v] = "blocked") <=> (pc[v] = "blocked"),
           Quiet(ED!Boss(v)), waiting'[ED!Boss(v)] = waiting[ED!Boss(v)],
           dpc'[ED!Boss(v)] = "handle" => /\ dpc[ED!Boss(v)] = "handle"
                                          /\ hand'[ED!Boss(v)] = hand[ED!Boss(v)],
           dpc[ED!Boss(v)] = "handle" => \/ dpc'[ED!Boss(v)] = "handle"
                                         \/ hand[ED!Boss(v)].type # "GetJob"
    PROVE  OneAt(v)'
<1> DEFINE d == ED!Boss(v)
<1>1. OneAt(v) /\ d \in ED!Daemons BY OwnFacts
<1>2. /\ Asked(queue'[d], v) <=> Asked(queue[d], v)
      /\ OnceIn(queue[d], v) => OnceIn(queue'[d], v)
  BY <1>1, QuietQueue
<1>3. (Queued(v)' <=> Queued(v)) /\ (Waits(v)' <=> Waits(v)) /\ (InHand(v)' <=> InHand(v))
  BY <1>2 DEF Queued, Waits, InHand, Asks
<1> QED BY <1>1, <1>2, <1>3 DEF OneAt

\* No request moves: events of other kinds are sent, and daemons are woken or
\* are through with such an event.
LEMMA TokensKept ==
    ASSUME EDInv,
           \A v \in ED!VPs : resumed'[v] = resumed[v],
           \A v \in ED!VPs : (pc'[v] = "blocked") <=> (pc[v] = "blocked"),
           \A v \in ED!VPs : pc[v] = "blocked" => frames'[v] = frames[v],
           \A d \in ED!Daemons :
               /\ Quiet(d) /\ waiting'[d] = waiting[d]
               /\ dpc'[d] = "handle" => dpc[d] = "handle" /\ hand'[d] = hand[d]
               /\ dpc[d] = "handle" => dpc'[d] = "handle" \/ hand[d].type # "GetJob"
               /\ dpc'[d] = "answer" => hand'[d] \in Handed
               /\ dpc'[d] \in {"blocking", "count", "counted", "answer"} => waiting[d] # <<>>
    PROVE  /\ \A v \in ED!VPs : OneAt(v)'
           /\ \A d \in ED!Daemons : EventsAt(d)'
<1>1. ASSUME NEW d \in ED!Daemons PROVE EventsAt(d)'
  BY DaemonFacts, QuietQueue, EventsKept
<1>2. ASSUME NEW v \in ED!VPs PROVE OneAt(v)'
  BY Constants, OneKept
<1> QED BY <1>1, <1>2

\* push_event, of an event that is not a request.
LEMMA WokenFact == \A l \in Places : /\ ED!Woken(l) \in Places
                                     /\ l # "sleep" => ED!Woken(l) = l
                                     /\ l = "sleep" => ED!Woken(l) = "turn"
BY DEF ED!Woken, Places

LEMMA PushFacts ==
    ASSUME EDInv, NEW d \in ED!Daemons, NEW e \in Events, ED!Push(d, e)
    PROVE  /\ queue' \in [ED!Daemons -> Seq(Events)] /\ dpc' \in [ED!Daemons -> Places]
           /\ \A k \in ED!Daemons \ {d} : queue'[k] = queue[k] /\ dpc'[k] = dpc[k]
           /\ queue'[d] = Append(queue[d], e) /\ dpc'[d] = ED!Woken(dpc[d])
           /\ \A k \in ED!Daemons : dpc'[k] = dpc[k] \/ (dpc[k] = "sleep" /\ dpc'[k] = "turn")
<1>1. /\ queue \in [ED!Daemons -> Seq(Events)] /\ dpc \in [ED!Daemons -> Places]
      /\ Append(queue[d], e) \in Seq(Events)
  BY DEF EDInv, EDTypeOK
<1>2. queue' = [queue EXCEPT ![d] = Append(@, e)] /\ dpc' = [dpc EXCEPT ![d] = ED!Woken(@)]
  BY DEF ED!Push
<1> QED BY <1>1, <1>2, WokenFact

-----------------------------------------------------------------------------
(* The steps of a VP that move no request *)

\* A step of VP v leaves the other VPs alone, and may tell its daemon of a job.
OwnStep(v) ==
    /\ EDTypeOK'
    /\ \A w \in ED!VPs \ {v} : /\ frames'[w] = frames[w] /\ context'[w] = context[w]
                               /\ current'[w] = current[w] /\ pc'[w] = pc[w]
    /\ UNCHANGED <<waiting, hand, resumed>>
    /\ \/ UNCHANGED <<queue, dpc>>
       \/ \E e \in Events : e.type # "GetJob" /\ e.job \in ED!Jobs /\ ED!Push(ED!Boss(v), e)
    /\ pc[v] # "blocked" /\ pc'[v] # "blocked"

LEMMA OwnStepInv ==
    ASSUME EDInv, NEW v \in ED!VPs, NEW k \in Handed, OwnStep(v), StackAt(v)',
           k \in ED!Jobs => HeldAt(k)' /\ EndAt(k)',
           \A j \in ED!Jobs : pc[v] = "returned" /\ ED!Body(v) = j => ~Running(v, j)',
           \A j \in ED!Jobs \ {k} :
               /\ Running(v, j)' => Running(v, j)
               /\ state'[j] = state[j] \/ (Unclaimed(j) /\ state'[j] = "ready"),
           \A j \in ED!Jobs : OwnerAt(j)',
           \A w \in ED!VPs \ {v} : \A i \in DOMAIN frames[w] :
               frames[w][i].joins \in handles[frames[w][i].body]
                   => frames[w][i].joins \in handles'[frames[w][i].body]
    PROVE  EDInv'
<1>1. \A d \in ED!Daemons : dpc'[d] = dpc[d] \/ (dpc[d] = "sleep" /\ dpc'[d] = "turn")
  BY OwnFacts, PushFacts DEF OwnStep
<1>2. EDTypeOK' BY DEF OwnStep
<1>3. ASSUME NEW w \in ED!VPs PROVE StackAt(w)'
  <2>1. CASE w # v
    <3>1. ED!Boss(w) \in ED!Daemons BY Constants
    <3> QED BY <1>1, <2>1, <3>1, StackKept DEF OwnStep
  <2> QED BY <2>1
<1>4. (\A w \in ED!VPs : OneAt(w)') /\ (\A d \in ED!Daemons : EventsAt(d)')
  <2>1. \A w \in ED!VPs : (pc'[w] = "blocked") <=> (pc[w] = "blocked")
    BY DEF OwnStep
  <2>2. \A w \in ED!VPs : pc[w] = "blocked" => frames'[w] = frames[w] BY DEF OwnStep
  <2>3. ASSUME NEW d \in ED!Daemons
        PROVE  Quiet(d)
    <3>1. CASE UNCHANGED <<queue, dpc>> BY <3>1 DEF Quiet
    <3>2. ASSUME NEW e \in Events, e.type # "GetJob", e.job \in ED!Jobs, ED!Push(ED!Boss(v), e)
          PROVE  Quiet(d)
      <4>1. ED!Boss(v) \in ED!Daemons BY Constants
      <4> QED BY <3>2, <4>1, PushFacts DEF Quiet
    <3> QED BY <3>1, <3>2 DEF OwnStep
  <2>4. ASSUME NEW d \in ED!Daemons
        PROVE  /\ waiting'[d] = waiting[d]
               /\ dpc'[d] = "handle" => dpc[d] = "handle" /\ hand'[d] = hand[d]
               /\ dpc[d] = "handle" => dpc'[d] = "handle" \/ hand[d].type # "GetJob"
               /\ dpc'[d] = "answer" => hand'[d] \in Handed
               /\ dpc'[d] \in {"blocking", "count", "counted", "answer"} => waiting[d] # <<>>
    BY <1>1, DaemonFacts DEF OwnStep, EventsAt
  <2>5. \A w \in ED!VPs : resumed'[w] = resumed[w] BY DEF OwnStep
  <2> QED BY <2>1, <2>2, <2>3, <2>4, <2>5, TokensKept
<1>5. \A j \in ED!Jobs : JobAt(j)'
  <2>1. ASSUME NEW j \in ED!Jobs \ {k}, NEW w \in ED!VPs, Has(w, j)' PROVE Has(w, j)
    BY <2>1 DEF OwnStep, Has, Running, Given
  <2>2. \A j \in ED!Jobs, d \in ED!Daemons : Offers(d, j)' => Offers(d, j)
    BY <1>1 DEF OwnStep, Offers
  <2>3. ASSUME NEW j \in ED!Jobs, NEW w \in ED!VPs, pc[w] = "returned", ED!Body(w) = j, Has(w, j)'
        PROVE  pc'[w] = "returned" /\ ED!Body(w)' = j
    <3>1. CASE w # v BY <2>3, <3>1 DEF OwnStep, ED!Body
    <3>2. CASE w = v
      <4>1. ~Given(w, j)' BY <3>2 DEF OwnStep, Given
      <4>2. Running(v, j)' BY <2>3, <3>2, <4>1 DEF Has
      <4> QED BY <2>3, <3>2, <4>2
    <3> QED BY <3>1, <3>2
  <2> QED BY <2>1, <2>2, <2>3, JobsKept
<1> QED BY <1>2, <1>3, <1>4, <1>5 DEF EDInv

\* A body is put on the stack that is not there yet.
LEMMA PushLocal ==
    ASSUME EDInv, NEW v \in ED!VPs, NEW b \in ED!Jobs, ~Running(v, b), pc[v] # "unborn",
           \A i \in DOMAIN frames[v] : frames[v][i].joins \in handles[frames[v][i].body],
           frames'[v] = Append(frames[v], ED!Frame(b)), pc'[v] = "body", current'[v] = b,
           context'[v] \in Seq(Handed), Len(context'[v]) = Len(frames[v]),
           \A i \in DOMAIN context'[v] : context'[v][i] = Code(frames[v][i].body),
           handles' = handles, dpc'[ED!Boss(v)] = "start" => dpc[ED!Boss(v)] = "start"
    PROVE  /\ StackAt(v)' /\ frames'[v] \in Seq(FrameOf)
           /\ \A j \in ED!Jobs : Running(v, j)' => Running(v, j) \/ j = b
<1> DEFINE n == Len(frames[v])
           g == frames'[v]
           c == context'[v]
<1>1. /\ frames[v] \in Seq(FrameOf) /\ n \in Nat /\ DOMAIN frames[v] = 1 .. n /\ StackAt(v)
  BY OwnFacts
<1>2. ED!Frame(b) \in FrameOf /\ ED!Frame(b).body = b /\ ED!Frame(b).joins = NULL
  BY DEF ED!Frame, FrameOf, Fns, Handed
<1>3. /\ g \in Seq(FrameOf) /\ g # <<>> /\ Len(g) = n + 1
      /\ DOMAIN g = 1 .. n + 1 /\ g[n + 1] = ED!Frame(b) /\ ED!Last(g) = ED!Frame(b)
      /\ \A i \in 1 .. n : g[i] = frames[v][i]
  BY <1>1, <1>2 DEF ED!Last
<1>4. DOMAIN c = 1 .. n BY <1>1
<1> HIDE DEF n, g, c
<1>5. ~Helps(v)' BY DEF Helps, Asking
<1>6. ShapeAt(v)' BY <1>1, <1>3, <1>4, <1>5 DEF ShapeAt, AtRun, InBody, n, g, c
<1>7. CodeAt(v)'
  <2>1. \A i \in 1 .. n : c[i] = Code(g[i].body) BY <1>1, <1>3, <1>4 DEF c
  <2>2. ED!Body(v)' = b BY <1>2, <1>3 DEF ED!Body, g
  <2>3. Code(b) = b /\ b # Main BY Constants
  <2> QED BY <1>4, <2>1, <2>2, <2>3 DEF CodeAt, g, c
<1>8. \A i \in 1 .. n : g[i].body # b BY <1>1, <1>3 DEF Running
<1>9. \A i \in 1 .. n + 1 : i \in 1 .. n \/ i = n + 1 BY <1>1
<1>10. OnceAt(v)'
  <2>1. \A i, k \in 1 .. n : g[i].body = g[k].body => i = k
    BY <1>1, <1>3 DEF StackAt, OnceAt
  <2>2. \A i, k \in 1 .. n + 1 : g[i].body = g[k].body => i = k
    BY <1>2, <1>3, <1>8, <1>9, <2>1
  <2> QED BY <1>3, <2>2 DEF OnceAt, g
<1>11. MainAt(v)'
  <2>1. b # Main BY Constants
  <2>2. \A i \in 1 .. n : g[i].body = Main => v = 0 /\ i = 1
    BY <1>1, <1>3 DEF StackAt, MainAt
  <2> QED BY <1>2, <1>3, <1>9, <2>1, <2>2 DEF MainAt, g
<1>12. JoinsAt(v)'
  <2>1. \A i \in 1 .. n : g[i].joins \in handles'[g[i].body] BY <1>1, <1>3
  <2> QED BY <1>2, <1>3, <1>9, <2>1 DEF JoinsAt, g
<1>13. \A j \in ED!Jobs : Running(v, j)' => Running(v, j) \/ j = b
  BY <1>1, <1>2, <1>3, <1>9 DEF Running, g
<1>14. v # 0 => dpc[ED!Boss(v)] # "start" BY <1>1 DEF StackAt
<1> QED BY <1>3, <1>5, <1>6, <1>7, <1>10, <1>11, <1>12, <1>13, <1>14
        DEF StackAt, FreshAt, g

\* A body begins a join or is through with it.
LEMMA MarkLocal ==
    ASSUME EDInv, NEW v \in ED!VPs, NEW x \in Handed, pc[v] \in {"body", "joined"},
           frames' = [frames EXCEPT ![v][Len(frames[v])].joins = x],
           UNCHANGED <<context, current>>,
           \/ pc'[v] = "body" /\ x = NULL
           \/ pc'[v] = "join" /\ x \in handles'[ED!Body(v)],
           \A b \in Fns \ {ED!Body(v)} : handles'[b] = handles[b],
           dpc'[ED!Boss(v)] = "start" => dpc[ED!Boss(v)] = "start"
    PROVE  /\ StackAt(v)' /\ frames'[v] \in Seq(FrameOf) /\ frames' \in [ED!VPs -> Seq(FrameOf)]
           /\ \A w \in ED!VPs \ {v} : frames'[w] = frames[w]
           /\ \A j \in ED!Jobs : Running(v, j)' => Running(v, j)
<1> DEFINE n == Len(frames[v])
           g == frames'[v]
<1>1. /\ frames[v] \in Seq(FrameOf) /\ n \in Nat /\ DOMAIN frames[v] = 1 .. n
      /\ StackAt(v) /\ \A i \in 1 .. n : frames[v][i] \in FrameOf
      /\ frames \in [ED!VPs -> Seq(FrameOf)]
  BY OwnFacts DEF EDInv, EDTypeOK
<1>2. frames[v] # <<>> /\ ~Helps(v) /\ ~Helps(v)'
  BY <1>1 DEF StackAt, ShapeAt, InBody, Helps, Asking
<1>3. n \in 1 .. n /\ ED!Body(v) = frames[v][n].body
  BY <1>1, <1>2, OwnFacts DEF ED!Body, ED!Last
<1>4. /\ g = [frames[v] EXCEPT ![n] = [frames[v][n] EXCEPT !.joins = x]]
      /\ frames' = [frames EXCEPT ![v] = g]
  BY <1>1 DEF n
<1>5. /\ [frames[v][n] EXCEPT !.joins = x] \in FrameOf
      /\ [frames[v][n] EXCEPT !.joins = x].body = frames[v][n].body
      /\ [frames[v][n] EXCEPT !.joins = x].joins = x
  BY <1>1, <1>3 DEF FrameOf
<1>6. /\ g \in Seq(FrameOf) /\ Len(g) = n
      /\ DOMAIN g = 1 .. n /\ g # <<>>
      /\ \A i \in 1 .. n : g[i].body = frames[v][i].body
      /\ \A i \in 1 .. n : i # n => g[i].joins = frames[v][i].joins
      /\ g[n].joins = x
  BY <1>1, <1>3, <1>4, <1>5
<1>7. frames' \in [ED!VPs -> Seq(FrameOf)] /\ \A w \in ED!VPs \ {v} : frames'[w] = frames[w]
  <2> HIDE DEF g
  <2> QED BY <1>1, <1>4, <1>6
<1> HIDE DEF n, g
<1>8. ShapeAt(v)' BY <1>1, <1>2, <1>6 DEF StackAt, ShapeAt, AtRun, InBody, n, g
<1>9. ED!Body(v)' = ED!Body(v) /\ ED!Last(g).joins = x
  BY <1>3, <1>6 DEF ED!Body, ED!Last, g
<1>10. CodeAt(v)'
  <2>1. DOMAIN context[v] \subseteq 1 .. n
    <3>1. Len(context[v]) = n - 1 BY <1>1, <1>2 DEF StackAt, ShapeAt, n
    <3>2. DOMAIN context[v] = 1 .. Len(context[v]) BY OwnFacts
    <3> QED BY <1>1, <3>1, <3>2
  <2>2. \A i \in DOMAIN context[v] : context[v][i] = Code(g[i].body)
    BY <1>1, <1>6, <2>1 DEF StackAt, CodeAt
  <2>3. current'[v] = Code(ED!Body(v)') BY <1>1, <1>9 DEF StackAt, CodeAt, InBody
  <2> QED BY <2>2, <2>3 DEF CodeAt, g
<1>11. OnceAt(v)' BY <1>1, <1>6 DEF StackAt, OnceAt, g
<1>12. MainAt(v)' BY <1>1, <1>6 DEF StackAt, MainAt, g
<1>13. JoinsAt(v)'
  <2>1. ASSUME NEW i \in 1 .. n, i # n PROVE g[i].joins \in handles'[g[i].body]
    <3>1. frames[v][i].joins \in handles[frames[v][i].body]
      BY <1>1, <2>1 DEF StackAt, JoinsAt, n
    <3>2. frames[v][i].body \in Fns \ {ED!Body(v)}
      BY <1>1, <1>3, <2>1 DEF StackAt, OnceAt, FrameOf
    <3> QED BY <1>6, <2>1, <3>1, <3>2
  <2>2. g[n].joins \in handles'[g[n].body] \/ (pc'[v] = "body" /\ g[n].joins = NULL)
    BY <1>3, <1>6
  <2> QED BY <1>6, <2>1, <2>2 DEF JoinsAt, g
<1>14. \A j \in ED!Jobs : Running(v, j)' => Running(v, j) BY <1>1, <1>6 DEF Running, g
<1>15. v # 0 => dpc[ED!Boss(v)] # "start" BY <1>1 DEF StackAt
<1> QED BY <1>2, <1>6, <1>7, <1>8, <1>10, <1>11, <1>12, <1>13, <1>14, <1>15
        DEF StackAt, FreshAt, g

LEMMA CreateStep ==
    ASSUME EDInv, NEW v \in ED!VPs, NEW j \in ED!Jobs, ED!Create(v, j)
    PROVE  EDInv'
<1> DEFINE e == ED!Event("NewJob", v, j)
<1>1. /\ pc[v] = "body" /\ state[j] = "none" /\ state' = [state EXCEPT ![j] = "ready"]
      /\ handles' = [handles EXCEPT ![ED!Body(v)] = @ \cup {j}]
      /\ ED!PushToBoss(v, e) /\ UNCHANGED ED!vpVars
  BY DEF ED!Create
<1>2. e \in Events /\ e.type # "GetJob" /\ e.job \in ED!Jobs
  BY DEF ED!Event, Events, Handed
<1> HIDE DEF e
<1>3. /\ ED!Boss(v) \in ED!Daemons /\ ED!Push(ED!Boss(v), e)
      /\ UNCHANGED <<waiting, hand, shouldStop>>
      /\ UNCHANGED <<pc, current, context, frames, resumed>>
  BY <1>1, Constants DEF ED!PushToBoss, ED!vpVars
<1>4. EDTypeOK' /\ \A b \in Fns : handles[b] \subseteq handles'[b]
  <2>1. queue' \in [ED!Daemons -> Seq(Events)] /\ dpc' \in [ED!Daemons -> Places]
    BY <1>2, <1>3, PushFacts
  <2>2. /\ state' \in [ED!Jobs -> {"none", "ready", "running", "finished"}]
        /\ handles' \in [Fns -> SUBSET ED!Jobs] /\ \A b \in Fns : handles[b] \subseteq handles'[b]
    BY <1>1 DEF EDInv, EDTypeOK
  <2> QED BY <1>3, <2>1, <2>2 DEF EDInv, EDTypeOK
<1>5. OwnStep(v) BY <1>1, <1>2, <1>3, <1>4 DEF OwnStep
<1>6. ASSUME NEW w \in ED!VPs
      PROVE  \A i \in DOMAIN frames[w] :
               frames[w][i].joins \in handles[frames[w][i].body]
                   => frames[w][i].joins \in handles'[frames[w][i].body]
  <2>1. \A i \in DOMAIN frames[w] : frames[w][i].body \in Fns
    BY OwnFacts DEF FrameOf
  <2> QED BY <1>4, <2>1
<1>7. StackAt(v)'
  <2>1. dpc'[ED!Boss(v)] = "start" => dpc[ED!Boss(v)] = "start" BY <1>2, <1>3, PushFacts
  <2> QED BY <1>3, <1>6, <2>1, StackKept
<1>8. \A i \in ED!Jobs : OwnerAt(i)'
  <2>1. \A b \in Fns : j \notin handles[b] BY <1>1 DEF EDInv, JobAt, OwnerAt
  <2>2. /\ state' \in [ED!Jobs -> {"none", "ready", "running", "finished"}]
        /\ \A i \in ED!Jobs : i # j => state'[i] = state[i]
        /\ state'[j] = "ready"
    BY <1>1 DEF EDInv, EDTypeOK
  <2>3. \A b \in Fns : handles'[b] \subseteq handles[b] \cup (IF b = ED!Body(v) THEN {j} ELSE {})
    BY <1>1 DEF EDInv, EDTypeOK
  <2> QED BY <2>1, <2>2, <2>3 DEF EDInv, JobAt, OwnerAt
<1>9. /\ \A i \in ED!Jobs \ {NULL} : /\ Running(v, i)' => Running(v, i)
                                     /\ state'[i] = state[i] \/ (Unclaimed(i) /\ state'[i] = "ready")
      /\ NULL \in Handed /\ NULL \notin ED!Jobs
  BY <1>1, <1>3, Constants DEF Running, Unclaimed, Handed, EDInv, EDTypeOK
<1> QED BY <1>1, <1>5, <1>6, <1>7, <1>8, <1>9, OwnStepInv

LEMMA JoinBeginStep ==
    ASSUME EDInv, NEW v \in ED!VPs, NEW j \in ED!Jobs, ED!JoinBegin(v, j)
    PROVE  EDInv'
<1>1. /\ pc[v] = "body" /\ j \in handles[ED!Body(v)] /\ pc' = [pc EXCEPT ![v] = "join"]
      /\ frames' = [frames EXCEPT ![v][Len(frames[v])].joins = j]
      /\ UNCHANGED <<state, handles, dpc, queue, waiting, hand, shouldStop, current, context,
                     resumed>>
  BY DEF ED!JoinBegin, ED!Goto, ED!jobVars, ED!dVars
<1>2. pc' \in [ED!VPs -> AtRun \cup InBody \cup Asking] /\ pc'[v] = "join"
      /\ \A w \in ED!VPs \ {v} : pc'[w] = pc[w]
  BY <1>1 DEF EDInv, EDTypeOK, InBody
<1>3. /\ StackAt(v)' /\ frames' \in [ED!VPs -> Seq(FrameOf)]
      /\ \A w \in ED!VPs \ {v} : frames'[w] = frames[w]
      /\ \A i \in ED!Jobs : Running(v, i)' => Running(v, i)
  BY <1>1, <1>2, MarkLocal DEF Handed
<1>4. OwnStep(v)
  BY <1>1, <1>2, <1>3 DEF OwnStep, EDInv, EDTypeOK
<1>5. \A i \in ED!Jobs : OwnerAt(i)' BY <1>1, OwnerKept
<1>6. NULL \in Handed /\ NULL \notin ED!Jobs BY Constants DEF Handed
<1> QED BY <1>1, <1>3, <1>4, <1>5, <1>6, OwnStepInv

LEMMA JoinStep ==
    ASSUME EDInv, NEW v \in ED!VPs, ED!Join(v)
    PROVE  EDInv'
<1> DEFINE j == ED!Joined(v)
           e == ED!Event("DestroyJob", v, j)
           h == [handles EXCEPT ![ED!Body(v)] = @ \ {j}]
<1>1. /\ pc[v] = "joined" /\ pc' = [pc EXCEPT ![v] = "body"] /\ ED!PushToBoss(v, e)
      /\ frames' = [frames EXCEPT ![v][Len(frames[v])].joins = NULL]
      /\ handles' = h /\ UNCHANGED <<state, current, context, resumed>>
  BY DEF ED!Join, ED!Goto
<1>2. /\ frames[v] # <<>> /\ ED!Last(frames[v]) = frames[v][Len(frames[v])]
      /\ Len(frames[v]) \in DOMAIN frames[v] /\ ED!Body(v) \in Fns
      /\ j \in handles[ED!Body(v)] /\ j \in ED!Jobs
  <2>1. frames[v] # <<>> BY <1>1, OwnFacts DEF StackAt, ShapeAt, InBody
  <2>2. /\ ED!Last(frames[v]) = frames[v][Len(frames[v])]
        /\ Len(frames[v]) \in DOMAIN frames[v] /\ ED!Last(frames[v]) \in FrameOf
    BY <2>1, TopFacts, OwnFacts
  <2>3. ED!Body(v) \in Fns BY <2>2 DEF ED!Body, FrameOf
  <2>4. j \in handles[ED!Body(v)]
    BY <1>1, <2>2, OwnFacts DEF StackAt, JoinsAt, ED!Joined, ED!Body
  <2>5. j \in ED!Jobs BY <2>3, <2>4 DEF EDInv, EDTypeOK
  <2> QED BY <2>1, <2>2, <2>3, <2>4, <2>5
<1>3. e \in Events /\ e.type # "GetJob" /\ e.job \in ED!Jobs
  BY <1>2 DEF ED!Event, Events, Handed
<1> HIDE DEF e, j
<1>4. /\ ED!Boss(v) \in ED!Daemons /\ ED!Push(ED!Boss(v), e)
      /\ UNCHANGED <<waiting, hand, shouldStop>>
  BY <1>1, Constants DEF ED!PushToBoss
<1>5. /\ pc' \in [ED!VPs -> AtRun \cup InBody \cup Asking] /\ pc'[v] = "body"
      /\ \A w \in ED!VPs \ {v} : pc'[w] = pc[w]
      /\ handles' \in [Fns -> SUBSET ED!Jobs]
      /\ \A b \in Fns \ {ED!Body(v)} : handles'[b] = handles[b]
      /\ handles'[ED!Body(v)] = handles[ED!Body(v)] \ {j}
      /\ queue' \in [ED!Daemons -> Seq(Events)] /\ dpc' \in [ED!Daemons -> Places]
      /\ dpc'[ED!Boss(v)] = "start" => dpc[ED!Boss(v)] = "start"
  <2>1. /\ pc' \in [ED!VPs -> AtRun \cup InBody \cup Asking] /\ pc'[v] = "body"
        /\ \A w \in ED!VPs \ {v} : pc'[w] = pc[w]
    BY <1>1 DEF EDInv, EDTypeOK, InBody
  <2>2. /\ handles' \in [Fns -> SUBSET ED!Jobs]
        /\ \A b \in Fns \ {ED!Body(v)} : handles'[b] = handles[b]
        /\ handles'[ED!Body(v)] = handles[ED!Body(v)] \ {j}
    BY <1>1, <1>2 DEF EDInv, EDTypeOK
  <2>3. /\ queue' \in [ED!Daemons -> Seq(Events)] /\ dpc' \in [ED!Daemons -> Places]
        /\ dpc'[ED!Boss(v)] = "start" => dpc[ED!Boss(v)] = "start"
    BY <1>3, <1>4, PushFacts
  <2> QED BY <2>1, <2>2, <2>3
<1> HIDE DEF h
<1>6. /\ StackAt(v)' /\ frames' \in [ED!VPs -> Seq(FrameOf)]
      /\ \A w \in ED!VPs \ {v} : frames'[w] = frames[w]
      /\ \A i \in ED!Jobs : Running(v, i)' => Running(v, i)
  BY <1>1, <1>5, MarkLocal DEF Handed
<1>7. OwnStep(v)
  BY <1>1, <1>3, <1>4, <1>5, <1>6 DEF OwnStep, EDInv, EDTypeOK
<1>8. \A b \in Fns : handles'[b] \subseteq handles[b] BY <1>2, <1>5
<1>9. \A i \in ED!Jobs : OwnerAt(i)' BY <1>1, <1>8, OwnerKept
<1>10. ASSUME NEW w \in ED!VPs \ {v}, NEW i \in DOMAIN frames[w]
       PROVE  handles'[frames[w][i].body] = handles[frames[w][i].body]
  <2>1. frames[w][i].body \in Fns BY OwnFacts DEF FrameOf
  <2>2. CASE frames[w][i].body = ED!Body(v)
    <3>1. CASE ED!Body(v) = Main
      BY <1>2, <2>2, <3>1, OwnFacts DEF StackAt, MainAt, ED!Body
    <3>2. CASE ED!Body(v) \in ED!Jobs
      <4>1. Has(w, ED!Body(v)) /\ Has(v, ED!Body(v))
        BY <1>2, <2>2 DEF Has, Running, ED!Body
      <4> QED BY <3>2, <4>1 DEF EDInv, JobAt, HeldAt
    <3> QED BY <1>2, <3>1, <3>2 DEF Fns
  <2> QED BY <1>5, <2>1, <2>2
<1>11. NULL \in Handed /\ NULL \notin ED!Jobs BY Constants DEF Handed
<1> QED BY <1>1, <1>6, <1>7, <1>9, <1>10, <1>11, OwnStepInv

LEMMA JoinTurnStep ==
    ASSUME EDInv, NEW v \in ED!VPs, ED!JoinTurn(v)
    PROVE  EDInv'
<1> DEFINE x == Append(context[v], current[v])
<1>0. /\ pc[v] = "join" /\ UNCHANGED <<handles, dpc, queue, waiting, hand, shouldStop, resumed>>
  BY DEF ED!JoinTurn, ED!dVars
<1>1. /\ StackAt(v) /\ frames[v] # <<>> /\ ~Helps(v)
      /\ Len(context[v]) = Len(frames[v]) - 1
      /\ \A i \in DOMAIN frames[v] : frames[v][i].joins \in handles[frames[v][i].body]
      /\ current[v] = Code(ED!Body(v))
  <2>1. frames[v] # <<>> /\ ~Helps(v)
    BY <1>0, OwnFacts DEF StackAt, ShapeAt, InBody, Helps, Asking
  <2>2. StackAt(v) /\ Len(context[v]) = Len(frames[v]) - 1
    BY <2>1, OwnFacts DEF StackAt, ShapeAt
  <2>3. \A i \in DOMAIN frames[v] : frames[v][i].joins \in handles[frames[v][i].body]
    BY <1>0, <2>2 DEF StackAt, JoinsAt
  <2>4. current[v] = Code(ED!Body(v)) BY <1>0, <2>2 DEF StackAt, CodeAt, InBody
  <2> QED BY <2>1, <2>2, <2>3, <2>4
<1>2. PICK j \in ED!Jobs : j = ED!Joined(v)
  <2>1. /\ ED!Last(frames[v]) = frames[v][Len(frames[v])] /\ Len(frames[v]) \in DOMAIN frames[v]
        /\ frames[v][Len(frames[v])].body \in Fns
    BY <1>1, OwnFacts, TopFacts DEF FrameOf
  <2> QED BY <1>1, <2>1 DEF ED!Joined, EDInv, EDTypeOK
<1>3. /\ x \in Seq(Handed) /\ Len(x) = Len(frames[v]) /\ x # <<>> /\ ED!Last(x) = current[v]
      /\ \A i \in DOMAIN x : x[i] = Code(frames[v][i].body)
  <2> DEFINE n == Len(context[v])
  <2>1. /\ context[v] \in Seq(Handed) /\ current[v] \in Handed /\ n \in Nat
        /\ \A i \in 1 .. n : context[v][i] = Code(frames[v][i].body)
        /\ ED!Body(v) = frames[v][n + 1].body /\ Len(frames[v]) = n + 1
    <3>1. Len(frames[v]) \in Nat \ {0} /\ Len(frames[v]) = n + 1
      BY <1>1, OwnFacts
    <3>2. ED!Body(v) = frames[v][n + 1].body BY <1>1, <3>1, TopFacts DEF ED!Body
    <3> QED BY <1>1, <3>1, <3>2, OwnFacts DEF StackAt, CodeAt
  <2>2. /\ x \in Seq(Handed) /\ Len(x) = n + 1 /\ x # <<>> /\ x[n + 1] = current[v]
        /\ DOMAIN x = 1 .. n + 1 /\ \A i \in 1 .. n : x[i] = context[v][i]
    <3>1. context[v] \in Seq(Handed) /\ current[v] \in Handed BY <2>1
    <3> QED BY <3>1
  <2> HIDE DEF n, x
  <2>3. \A i \in 1 .. n + 1 : i \in 1 .. n \/ i = n + 1 BY <2>1
  <2>4. ED!Last(x) = current[v] BY <2>2 DEF ED!Last
  <2> QED BY <1>1, <2>1, <2>2, <2>3, <2>4
<1>4. CASE /\ ED!Ready(j) /\ state' = ED!Claim(j)
           /\ context' = [context EXCEPT ![v] = x]
           /\ current' = [current EXCEPT ![v] = j]
           /\ frames' = [frames EXCEPT ![v] = Append(@, ED!Frame(j))]
           /\ ED!Goto(v, "body")
  <2> DEFINE f == Append(frames[v], ED!Frame(j))
  <2> HIDE DEF x
  <2>1. /\ frames' = [frames EXCEPT ![v] = f] /\ frames'[v] = f /\ pc'[v] = "body"
        /\ context'[v] = x /\ current'[v] = j /\ pc' = [pc EXCEPT ![v] = "body"]
        /\ state' = [state EXCEPT ![j] = "running"]
    BY <1>2, <1>4, Constants DEF ED!Goto, ED!Claim, EDInv, EDTypeOK
  <2>2. Unclaimed(j) /\ j \in Handed /\ ~Running(v, j)
    BY <1>2, <1>4, UnclaimedFresh DEF ED!Ready, Unclaimed, Handed
  <2>3. /\ StackAt(v)' /\ frames'[v] \in Seq(FrameOf)
        /\ \A i \in ED!Jobs : Running(v, i)' => Running(v, i) \/ i = j
    BY <1>0, <1>1, <1>2, <1>3, <2>1, <2>2, PushLocal
  <2> HIDE DEF f
  <2>4. /\ state' \in [ED!Jobs -> {"none", "ready", "running", "finished"}]
        /\ state'[j] = "running" /\ \A i \in ED!Jobs \ {j} : state'[i] = state[i]
    BY <1>2, <2>1 DEF EDInv, EDTypeOK
  <2>5. OwnStep(v)
    <3>1. f \in Seq(FrameOf) BY <2>1, <2>3
    <3>2. EDTypeOK'
      BY <1>0, <1>3, <1>4, <2>1, <2>2, <2>4, <3>1 DEF EDInv, EDTypeOK, InBody
    <3> QED BY <1>0, <1>4, <2>1, <3>2 DEF OwnStep, EDInv, EDTypeOK
  <2>6. HeldAt(j)' /\ EndAt(j)'
    <3>1. \A w \in ED!VPs : Has(w, j)' => Has(w, j) \/ w = v
      BY <2>5 DEF OwnStep, Has, Running, Given
    <3>2. \A d \in ED!Daemons : Offers(d, j)' => Offers(d, j) BY <1>0 DEF Offers
    <3> DEFINE g == NumDaemons
    <3>3. g \notin ED!Daemons BY EventDaemonAssumption DEF ED!Daemons
    <3> HIDE DEF g
    <3> QED BY <1>2, <2>2, <2>4, <3>1, <3>2, <3>3, ClaimedOnce
  <2>7. \A i \in ED!Jobs : OwnerAt(i)' BY <1>0, <2>4, OwnerKept
  <2> QED BY <1>0, <1>2, <2>2, <2>3, <2>4, <2>5, <2>6, <2>7, OwnStepInv
<1>5. CASE ED!Goto(v, "joined") /\ UNCHANGED <<state, context, current, frames>>
  <2> HIDE DEF x
  <2>1. pc'[v] = "joined" /\ ~Helps(v)' /\ pc' = [pc EXCEPT ![v] = "joined"]
    BY <1>5 DEF ED!Goto, Helps, Asking, EDInv, EDTypeOK
  <2>2. StackAt(v)'
    BY <1>0, <1>1, <1>5, <2>1
    DEF StackAt, ShapeAt, CodeAt, JoinsAt, OnceAt, MainAt, FreshAt, AtRun, InBody, ED!Body
  <2>3. OwnStep(v)
    BY <1>0, <1>5, <2>1 DEF OwnStep, EDInv, EDTypeOK, InBody
  <2>4. \A i \in ED!Jobs : OwnerAt(i)' BY <1>0, <1>5, OwnerKept
  <2>5. \A i \in ED!Jobs : Running(v, i)' => Running(v, i) BY <1>5 DEF Running
  <2>6. NULL \in Handed /\ NULL \notin ED!Jobs BY Constants DEF Handed
  <2> QED BY <1>0, <1>5, <2>2, <2>3, <2>4, <2>5, <2>6, OwnStepInv
<1>6. CASE /\ context' = [context EXCEPT ![v] = x] /\ ED!Goto(v, "help")
           /\ UNCHANGED <<state, current, frames>>
  <2> HIDE DEF x
  <2>1. /\ pc'[v] = "help" /\ pc' = [pc EXCEPT ![v] = "help"] /\ context'[v] = x /\ Helps(v)'
    BY <1>1, <1>6 DEF ED!Goto, Helps, EDInv, EDTypeOK
  <2>2. ShapeAt(v)' BY <1>1, <1>3, <1>6, <2>1 DEF ShapeAt, AtRun, InBody
  <2>3. CodeAt(v)'
    BY <1>1, <1>3, <1>6, <2>1 DEF CodeAt, InBody, ED!Body
  <2>4. FreshAt(v)' BY <1>3, <1>6, <2>1 DEF FreshAt
  <2>5. StackAt(v)'
    BY <1>0, <1>1, <1>6, <2>1, <2>2, <2>3, <2>4 DEF StackAt, JoinsAt, OnceAt, MainAt
  <2>6. OwnStep(v)
    BY <1>0, <1>3, <1>6, <2>1 DEF OwnStep, EDInv, EDTypeOK, InBody
  <2>7. \A i \in ED!Jobs : OwnerAt(i)' BY <1>0, <1>6, OwnerKept
  <2>8. \A i \in ED!Jobs : Running(v, i)' => Running(v, i) BY <1>6 DEF Running
  <2>9. NULL \in Handed /\ NULL \notin ED!Jobs BY Constants DEF Handed
  <2> QED BY <1>0, <1>6, <2>5, <2>6, <2>7, <2>8, <2>9, OwnStepInv
<1> QED BY <1>2, <1>4, <1>5, <1>6 DEF ED!JoinTurn, ED!jobVars

LEMMA ReturnStep ==
    ASSUME EDInv, NEW v \in ED!VPs, ED!Return(v)
    PROVE  EDInv'
<1>0. /\ pc[v] = "body" /\ ED!Body(v) # Main /\ state' = [state EXCEPT ![ED!Body(v)] = "finished"]
      /\ pc' = [pc EXCEPT ![v] = "returned"] /\ pc'[v] = "returned"
      /\ UNCHANGED <<handles, dpc, queue, waiting, hand, shouldStop, current, context, frames,
                     resumed>>
  BY DEF ED!Return, ED!Goto, ED!dVars, EDInv, EDTypeOK
<1>1. /\ StackAt(v) /\ frames[v] # <<>> /\ ~Helps(v) /\ ~Helps(v)'
  BY <1>0, OwnFacts DEF StackAt, ShapeAt, InBody, Helps, Asking
<1>2. PICK b \in ED!Jobs : b = ED!Body(v) /\ Has(v, b)
  <2>1. /\ ED!Last(frames[v]) = frames[v][Len(frames[v])] /\ Len(frames[v]) \in DOMAIN frames[v]
        /\ frames[v][Len(frames[v])].body \in Fns
    BY <1>1, OwnFacts, TopFacts DEF FrameOf
  <2> QED BY <1>0, <2>1 DEF ED!Body, Fns, Has, Running
<1>3. StackAt(v)'
  BY <1>0, <1>1
  DEF StackAt, ShapeAt, CodeAt, JoinsAt, OnceAt, MainAt, FreshAt, AtRun, InBody, ED!Body
<1>4. /\ state' \in [ED!Jobs -> {"none", "ready", "running", "finished"}]
      /\ state'[b] = "finished" /\ \A i \in ED!Jobs \ {b} : state'[i] = state[i]
  BY <1>0, <1>2 DEF EDInv, EDTypeOK
<1>5. OwnStep(v)
  BY <1>0, <1>4 DEF OwnStep, EDInv, EDTypeOK, InBody
<1>6. HeldAt(b)' /\ EndAt(b)'
  <2>1. /\ \A w \in ED!VPs : Has(w, b)' => w = v
        /\ \A d \in ED!Daemons : ~Offers(d, b)'
    <3>1. HeldAt(b) BY <1>2 DEF EDInv, JobAt
    <3>2. \A w \in ED!VPs : Has(w, b)' => Has(w, b)
      BY <1>0 DEF Has, Running, Given, EDInv, EDTypeOK
    <3>3. \A d \in ED!Daemons : Offers(d, b)' => Offers(d, b) BY <1>0 DEF Offers
    <3> QED BY <1>2, <3>1, <3>2, <3>3 DEF HeldAt
  <2>2. pc'[v] = "returned" /\ ED!Body(v)' = b BY <1>0, <1>2 DEF ED!Body
  <2> QED BY <1>4, <2>1, <2>2 DEF HeldAt, EndAt, Unclaimed
<1>7. \A i \in ED!Jobs : OwnerAt(i)' BY <1>0, <1>4, OwnerKept
<1>8. \A i \in ED!Jobs : Running(v, i)' => Running(v, i) BY <1>0 DEF Running
<1>9. b \in Handed BY <1>2 DEF Handed
<1> QED BY <1>0, <1>3, <1>4, <1>5, <1>6, <1>7, <1>8, <1>9, OwnStepInv

LEMMA EndOfJobStep ==
    ASSUME EDInv, NEW v \in ED!VPs, ED!EndOfJob(v)
    PROVE  EDInv'
<1> DEFINE f == ED!Front(frames[v])
           n == Len(frames[v])
           e == ED!Event("EndOfJob", v, current[v])
<1>0. /\ pc[v] = "returned" /\ ED!PushToBoss(v, e) /\ frames' = [frames EXCEPT ![v] = f]
      /\ frames'[v] = f /\ UNCHANGED <<state, handles, resumed>>
  BY DEF ED!EndOfJob, ED!jobVars, EDInv, EDTypeOK
<1>1. /\ StackAt(v) /\ frames[v] # <<>> /\ ~Helps(v) /\ Len(context[v]) = n - 1
      /\ ED!Body(v) # Main /\ current[v] = Code(ED!Body(v))
  <2>1. frames[v] # <<>> /\ ~Helps(v)
    BY <1>0, OwnFacts DEF StackAt, ShapeAt, InBody, Helps, Asking
  <2>2. StackAt(v) BY OwnFacts
  <2> QED BY <1>0, <2>1, <2>2 DEF StackAt, ShapeAt, CodeAt, InBody
<1>2. /\ f \in Seq(FrameOf) /\ Len(f) = n - 1 /\ n \in Nat \ {0} /\ DOMAIN f = 1 .. n - 1
      /\ \A i \in 1 .. n - 1 : f[i] = frames[v][i]
      /\ DOMAIN frames[v] = 1 .. n /\ (f = <<>> <=> n = 1)
      /\ \A i \in 1 .. n - 1 : i \in 1 .. n /\ i # n
      /\ n \in 1 .. n /\ ED!Body(v) = frames[v][n].body /\ frames[v][n].body \in Fns
  <2>1. /\ f \in Seq(FrameOf) /\ Len(f) = n - 1 /\ n \in Nat \ {0}
        /\ \A i \in 1 .. n - 1 : f[i] = frames[v][i]
        /\ ED!Body(v) = frames[v][n].body
    BY <1>1, TopFacts DEF ED!Body
  <2>2. DOMAIN frames[v] = 1 .. n /\ \A i \in DOMAIN frames[v] : frames[v][i].body \in Fns
    BY OwnFacts DEF FrameOf
  <2> HIDE DEF f, n
  <2>3. DOMAIN f = 1 .. n - 1 /\ (f = <<>> <=> n = 1) BY <2>1
  <2>4. /\ n \in 1 .. n /\ \A i \in 1 .. n - 1 : i \in 1 .. n /\ i # n BY <2>1
  <2> QED BY <2>1, <2>2, <2>3, <2>4
<1>3. PICK b \in ED!Jobs : b = ED!Body(v) /\ b = current[v]
  BY <1>1, <1>2, Constants DEF Fns
<1>4. e \in Events /\ e.type # "GetJob" /\ e.job \in ED!Jobs
  BY <1>3 DEF ED!Event, Events, Handed
<1> HIDE DEF e
<1>5. /\ ED!Boss(v) \in ED!Daemons /\ ED!Push(ED!Boss(v), e)
      /\ UNCHANGED <<waiting, hand, shouldStop>>
      /\ queue' \in [ED!Daemons -> Seq(Events)] /\ dpc' \in [ED!Daemons -> Places]
      /\ dpc'[ED!Boss(v)] = "start" => dpc[ED!Boss(v)] = "start"
  <2>1. /\ ED!Boss(v) \in ED!Daemons /\ ED!Push(ED!Boss(v), e)
        /\ UNCHANGED <<waiting, hand, shouldStop>>
    BY <1>0, Constants DEF ED!PushToBoss
  <2> QED BY <1>4, <2>1, PushFacts
<1> HIDE DEF f, n
<1>6. JoinsAt(v)'
  <2>1. \A i \in 1 .. n - 1 : frames[v][i].joins \in handles[frames[v][i].body]
    BY <1>1, <1>2 DEF StackAt, JoinsAt, n
  <2>2. \A i \in 1 .. n - 1 : f[i].joins \in handles'[f[i].body] BY <1>0, <1>2, <2>1
  <2> QED BY <1>0, <1>2, <2>2 DEF JoinsAt
<1>7. OnceAt(v)' /\ MainAt(v)'
  <2>1. /\ \A i, k \in 1 .. n : frames[v][i].body = frames[v][k].body => i = k
        /\ \A i \in 1 .. n : frames[v][i].body = Main => v = 0 /\ i = 1
    BY <1>1, <1>2 DEF StackAt, OnceAt, MainAt
  <2>2. OnceAt(v)' BY <1>0, <1>2, <2>1 DEF OnceAt
  <2>3. MainAt(v)' BY <1>0, <1>2, <2>1 DEF MainAt
  <2> QED BY <2>2, <2>3
<1>8. /\ \A j \in ED!Jobs : Running(v, j)' => Running(v, j)
      /\ ~Running(v, b)'
  <2>1. \A i \in 1 .. n - 1 : frames[v][i].body # b
    BY <1>1, <1>2, <1>3 DEF StackAt, OnceAt
  <2> QED BY <1>0, <1>2, <2>1 DEF Running
<1>9. \A i \in ED!Jobs : OwnerAt(i)' BY <1>0, OwnerKept
<1>10. NULL \in Handed /\ NULL \notin ED!Jobs BY Constants DEF Handed
<1>11. v # 0 => dpc'[ED!Boss(v)] # "start"
  BY <1>0, <1>1, <1>5 DEF StackAt
<1>12. ASSUME StackAt(v)', NEW p \in {"endblock", "joined", "join"},
              pc' = [pc EXCEPT ![v] = p],
              current' \in [ED!VPs -> Handed], context' \in [ED!VPs -> Seq(Handed)],
              \A w \in ED!VPs \ {v} : current'[w] = current[w] /\ context'[w] = context[w]
       PROVE  EDInv'
  <2>1. /\ pc' \in [ED!VPs -> AtRun \cup InBody \cup Asking] /\ pc'[v] # "blocked"
        /\ frames' \in [ED!VPs -> Seq(FrameOf)]
        /\ \A w \in ED!VPs \ {v} : pc'[w] = pc[w] /\ frames'[w] = frames[w]
    BY <1>0, <1>2, <1>12 DEF EDInv, EDTypeOK, AtRun, InBody
  <2>2. EDTypeOK' BY <1>0, <1>5, <1>12, <2>1 DEF EDInv, EDTypeOK
  <2>3. OwnStep(v) BY <1>0, <1>4, <1>5, <1>12, <2>1, <2>2 DEF OwnStep
  <2> QED BY <1>0, <1>3, <1>8, <1>9, <1>10, <1>12, <2>3, OwnStepInv
<1>13. CASE n = 1 /\ ED!Goto(v, "endblock") /\ UNCHANGED <<current, context>>
  <2>1. /\ pc' = [pc EXCEPT ![v] = "endblock"] /\ pc'[v] = "endblock" /\ f = <<>>
        /\ ~Helps(v)' /\ Len(context[v]) = 0 /\ DOMAIN context[v] = {}
    BY <1>0, <1>1, <1>2, <1>13, OwnFacts DEF ED!Goto, Helps, EDInv, EDTypeOK
  <2>2. ShapeAt(v)' BY <1>0, <1>13, <2>1 DEF ShapeAt, InBody
  <2>3. CodeAt(v)' BY <1>13, <2>1 DEF CodeAt, InBody
  <2>4. StackAt(v)' BY <1>6, <1>7, <1>11, <2>1, <2>2, <2>3 DEF StackAt, FreshAt
  <2> QED BY <1>12, <1>13, <2>1, <2>4 DEF EDInv, EDTypeOK
<1>14. ASSUME n # 1, NEW p \in {"joined", "join"}, ED!Goto(v, p),
              current' = [current EXCEPT ![v] = ED!Last(context[v])],
              context' = [context EXCEPT ![v] = ED!Popped(v)]
       PROVE  EDInv'
  <2> DEFINE x == ED!Popped(v)
             c == ED!Last(context[v])
  <2>1. context[v] # <<>> BY <1>1, <1>2, <1>14, OwnFacts
  <2>2. /\ x \in Seq(Handed) /\ Len(x) = n - 2 /\ c \in Handed
        /\ c = Code(frames[v][n - 1].body) /\ DOMAIN x = 1 .. n - 2
        /\ \A i \in 1 .. n - 2 : x[i] = Code(frames[v][i].body)
    <3> DEFINE m == Len(context[v])
    <3>1. /\ x \in Seq(Handed) /\ Len(x) = m - 1 /\ c \in Handed /\ c = context[v][m]
          /\ m \in Nat \ {0} /\ DOMAIN context[v] = 1 .. m
          /\ \A i \in 1 .. m - 1 : x[i] = context[v][i]
      BY <2>1, OwnFacts, TopFacts DEF ED!Popped
    <3>2. m = n - 1 /\ \A i \in 1 .. m : context[v][i] = Code(frames[v][i].body)
      BY <1>1, <3>1 DEF StackAt, CodeAt
    <3> HIDE DEF x, c, m
    <3>3. m \in 1 .. m /\ m - 1 = n - 2 /\ \A i \in 1 .. m - 1 : i \in 1 .. m
      BY <1>2, <3>1, <3>2
    <3>4. DOMAIN x = 1 .. m - 1 BY <3>1
    <3> QED BY <3>1, <3>2, <3>3, <3>4
  <2> HIDE DEF x, c
  <2>3. /\ pc' = [pc EXCEPT ![v] = p] /\ pc'[v] = p /\ context'[v] = x /\ current'[v] = c
        /\ ~Helps(v)' /\ f # <<>>
    BY <1>2, <1>14 DEF x, c, ED!Goto, Helps, Asking, EDInv, EDTypeOK
  <2>4. ShapeAt(v)'
    <3>1. Len(f) # 0 /\ Len(x) = Len(f) - 1 BY <1>2, <1>14, <2>2
    <3> QED BY <1>0, <2>3, <3>1 DEF ShapeAt, AtRun, InBody
  <2>5. CodeAt(v)'
    <3>1. n - 1 \in 1 .. n - 1 /\ Len(f) = n - 1 /\ \A i \in 1 .. n - 2 : i \in 1 .. n - 1
      BY <1>2, <1>14
    <3>2. ED!Last(f) = f[n - 1] BY <3>1 DEF ED!Last
    <3>3. current'[v] = Code(ED!Last(f).body) BY <1>2, <2>2, <2>3, <3>1, <3>2
    <3>4. \A i \in 1 .. n - 2 : x[i] = Code(f[i].body) BY <1>2, <2>2, <3>1
    <3> QED BY <1>0, <2>2, <2>3, <3>3, <3>4 DEF CodeAt, ED!Body
  <2>6. StackAt(v)' BY <1>6, <1>7, <1>11, <2>3, <2>4, <2>5 DEF StackAt, FreshAt
  <2>7. /\ current' \in [ED!VPs -> Handed] /\ context' \in [ED!VPs -> Seq(Handed)]
        /\ \A w \in ED!VPs \ {v} : current'[w] = current[w] /\ context'[w] = context[w]
    BY <1>14, <2>2 DEF x, c, EDInv, EDTypeOK
  <2> QED BY <1>12, <2>3, <2>6, <2>7
<1> QED BY <1>13, <1>14 DEF ED!EndOfJob, n

\* The steps of main outside its body.
LEMMA MainSteps ==
    ASSUME EDInv, ED!StartMain \/ ED!Terminate \/ ED!JoinDaemons
    PROVE  EDInv'
<1> DEFINE v == 0
<1>0. /\ v \in ED!VPs /\ UNCHANGED <<state, handles, dpc, queue, waiting, hand, shouldStop, current,
                                    context, resumed>>
  BY Constants DEF ED!StartMain, ED!Terminate, ED!JoinDaemons, ED!jobVars, ED!dVars
<1>1. ASSUME StackAt(v)', NEW p \in {"body", "loop", "ended"}, NEW f \in Seq(FrameOf),
             pc' = [pc EXCEPT ![v] = p], frames' = [frames EXCEPT ![v] = f],
             pc[v] \notin {"blocked", "returned"},
             \A j \in ED!Jobs : Running(v, j)' => Running(v, j)
      PROVE  EDInv'
  <2>1. OwnStep(v)
    BY <1>0, <1>1 DEF OwnStep, EDInv, EDTypeOK, AtRun, InBody
  <2>2. \A i \in ED!Jobs : OwnerAt(i)' BY <1>0, OwnerKept
  <2>3. NULL \in Handed /\ NULL \notin ED!Jobs BY Constants DEF Handed
  <2> HIDE DEF v
  <2> QED BY <1>0, <1>1, <2>1, <2>2, <2>3, OwnStepInv
<1>2. CASE ED!StartMain
  <2> DEFINE f == <<ED!Frame(Main)>>
  <2>1. /\ pc[v] = "unborn" /\ pc' = [pc EXCEPT ![v] = "body"] /\ pc'[v] = "body"
        /\ frames' = [frames EXCEPT ![v] = f] /\ frames'[v] = f
    BY <1>0, <1>2 DEF ED!StartMain, ED!Goto, EDInv, EDTypeOK
  <2>2. /\ f \in Seq(FrameOf) /\ f # <<>> /\ Len(f) = 1 /\ DOMAIN f = {1}
        /\ f[1].body = Main /\ f[1].joins = NULL /\ ED!Last(f) = f[1]
    BY DEF ED!Frame, FrameOf, Fns, Handed, ED!Last
  <2>3. /\ Len(context[v]) = 0 /\ DOMAIN context[v] = {} /\ current[v] = NULL /\ ~Helps(v)'
    BY <1>0, <2>1, OwnFacts DEF StackAt, ShapeAt, CodeAt, AtRun, Helps, Asking
  <2> HIDE DEF f
  <2>4. ShapeAt(v)' BY <1>0, <2>1, <2>2, <2>3 DEF ShapeAt, AtRun
  <2>5. CodeAt(v)' BY <1>0, <2>1, <2>2, <2>3, Constants DEF CodeAt, ED!Body
  <2>6. OnceAt(v)' /\ MainAt(v)' /\ JoinsAt(v)'
    BY <2>1, <2>2 DEF OnceAt, MainAt, JoinsAt
  <2>7. StackAt(v)' BY <2>3, <2>4, <2>5, <2>6 DEF StackAt, FreshAt
  <2>8. \A j \in ED!Jobs : ~Running(v, j)' BY <2>1, <2>2, Constants DEF Running
  <2> QED BY <1>1, <2>1, <2>2, <2>7, <2>8
<1>3. CASE ED!Terminate
  <2>1. /\ pc[v] = "body" /\ ED!Body(v) = Main /\ pc' = [pc EXCEPT ![v] = "loop"]
        /\ pc'[v] = "loop" /\ frames' = [frames EXCEPT ![v] = <<>>] /\ frames'[v] = <<>>
    BY <1>0, <1>3 DEF ED!Terminate, ED!Goto, EDInv, EDTypeOK
  <2>2. Len(context[v]) = 0
    <3>1. frames[v] # <<>> /\ ~Helps(v)
      BY <1>0, <2>1, OwnFacts DEF StackAt, ShapeAt, InBody, Helps, Asking
    <3>2. Len(frames[v]) \in DOMAIN frames[v] /\ ED!Body(v) = frames[v][Len(frames[v])].body
      BY <1>0, <3>1, OwnFacts, TopFacts DEF ED!Body
    <3>3. Len(frames[v]) = 1 BY <1>0, <2>1, <3>2, OwnFacts DEF StackAt, MainAt
    <3> QED BY <1>0, <3>1, <3>3, OwnFacts DEF StackAt, ShapeAt
  <2>3. DOMAIN context[v] = {} /\ ~Helps(v)' BY <1>0, <2>1, <2>2, OwnFacts DEF Helps
  <2>4. ShapeAt(v)' BY <1>0, <2>1, <2>2, <2>3 DEF ShapeAt, InBody
  <2>5. CodeAt(v)'
    <3>1. current[v] = NULL
      BY <1>0, <2>1, OwnFacts, Constants DEF StackAt, CodeAt, InBody
    <3> QED BY <1>0, <2>1, <2>3, <3>1 DEF CodeAt, InBody
  <2>6. OnceAt(v)' /\ MainAt(v)' /\ JoinsAt(v)' /\ \A j \in ED!Jobs : ~Running(v, j)'
    BY <2>1 DEF OnceAt, MainAt, JoinsAt, Running
  <2>7. StackAt(v)' BY <2>3, <2>4, <2>5, <2>6 DEF StackAt, FreshAt
  <2>8. <<>> \in Seq(FrameOf) OBVIOUS
  <2> QED BY <1>1, <2>1, <2>6, <2>7, <2>8
<1>4. CASE ED!JoinDaemons
  <2>1. /\ pc[v] = "gone" /\ pc' = [pc EXCEPT ![v] = "ended"] /\ pc'[v] = "ended"
        /\ frames' = frames
    BY <1>0, <1>4 DEF ED!JoinDaemons, ED!Goto, EDInv, EDTypeOK
  <2>2. ~Helps(v)' /\ StackAt(v) BY <1>0, <2>1, OwnFacts DEF Helps, Asking
  <2>3. StackAt(v)'
    BY <1>0, <2>1, <2>2
    DEF StackAt, ShapeAt, CodeAt, JoinsAt, OnceAt, MainAt, FreshAt, AtRun, InBody, Helps, Asking
  <2>4. \A j \in ED!Jobs : Running(v, j)' => Running(v, j) BY <2>1 DEF Running
  <2>5. frames' = [frames EXCEPT ![v] = frames[v]] /\ frames[v] \in Seq(FrameOf)
    BY <1>0, <2>1 DEF EDInv, EDTypeOK
  <2> QED BY <1>1, <2>1, <2>3, <2>4, <2>5
<1> QED BY <1>2, <1>3, <1>4

-----------------------------------------------------------------------------
(* The steps of a VP that asks for a job and gets its answer *)

LEMMA GetJobStep ==
    ASSUME EDInv, NEW v \in ED!VPs, ED!GetJob(v)
    PROVE  EDInv'
<1> DEFINE r == ED!Event("GetJob", v, IF pc[v] = "loop" THEN NULL ELSE ED!Joined(v))
<1>0. /\ pc[v] \in {"loop", "help"} /\ ED!Push(ED!Boss(v), r)
      /\ pc' = [pc EXCEPT ![v] = "blocked"] /\ pc'[v] = "blocked"
      /\ UNCHANGED <<state, handles, waiting, hand, shouldStop, current, context, frames,
                     resumed>>
  BY Constants DEF ED!GetJob, ED!Goto, ED!PushToBoss, ED!jobVars, EDInv, EDTypeOK
<1>1. /\ pc[v] = "loop" => frames[v] = <<>>
      /\ pc[v] = "help" => frames[v] # <<>> /\ current[v] = Code(ED!Body(v))
  BY OwnFacts DEF StackAt, ShapeAt, CodeAt, AtRun, InBody
<1>2. /\ r \in Events /\ r.type = "GetJob" /\ r.vp = v
      /\ r.job = IF frames[v] = <<>> THEN NULL ELSE ED!Joined(v)
  <2>1. pc[v] = "help" => ED!Joined(v) \in Handed
    BY <1>1, TopFacts DEF ED!Joined, FrameOf
  <2>2. NULL \in Handed BY DEF Handed
  <2> QED BY <1>0, <1>1, <2>1, <2>2 DEF ED!Event, Events
<1> HIDE DEF r
<1>3. PICK d \in ED!Daemons, e \in Events :
          /\ d = ED!Boss(v) /\ ED!Push(d, e) /\ e.type = "GetJob" /\ e.vp = v
          /\ e.job = IF frames[v] = <<>> THEN NULL ELSE ED!Joined(v)
  BY <1>0, <1>2, Constants
<1>11. Home(d, e)' /\ \A w : Asks(e, w) <=> (w = v)
  BY <1>0, <1>3 DEF Home, Asks, ED!Joined
<1>4. /\ queue' \in [ED!Daemons -> Seq(Events)] /\ dpc' \in [ED!Daemons -> Places]
      /\ \A k \in ED!Daemons \ {d} : queue'[k] = queue[k]
      /\ queue'[d] = Append(queue[d], e)
      /\ \A k \in ED!Daemons : dpc'[k] = dpc[k] \/ (dpc[k] = "sleep" /\ dpc'[k] = "turn")
  BY <1>3, PushFacts
<1>5. EDTypeOK' BY <1>0, <1>4 DEF EDInv, EDTypeOK, Asking
<1>6. ASSUME NEW w \in ED!VPs PROVE StackAt(w)'
  <2>1. ED!Boss(w) \in ED!Daemons BY Constants
  <2>2. pc'[w] = pc[w] \/ (pc[w] \in {"loop", "help"} /\ pc'[w] = "blocked")
    BY <1>0 DEF EDInv, EDTypeOK
  <2> QED BY <1>0, <1>4, <2>1, <2>2, StackKept
<1>7. ASSUME NEW k \in ED!Daemons
      PROVE  /\ queue'[k] \in Seq(Events)
             /\ \A w : Asked(queue'[k], w) <=> (Asked(queue[k], w) \/ (k = d /\ w = v))
             /\ \A w : OnceIn(queue[k], w) /\ ~(Asked(queue[k], w) /\ k = d /\ w = v)
                           => OnceIn(queue'[k], w)
             /\ \A i \in DOMAIN queue'[k] :
                   \/ \E m \in DOMAIN queue[k] : queue'[k][i] = queue[k][m]
                   \/ \E x \in Events : queue'[k][i] = x /\ Home(k, x)'
  <2>1. CASE k # d BY <1>4, <2>1, DaemonFacts
  <2>2. CASE k = d
    <3>1. queue[k] \in Seq(Events) /\ queue'[k] = Append(queue[k], e)
      BY <1>4, <2>2, DaemonFacts
    <3>2. /\ queue'[k] \in Seq(Events)
          /\ \A w : Asked(queue'[k], w) <=> Asked(queue[k], w) \/ Asks(e, w)
          /\ \A w : OnceIn(queue[k], w) /\ ~(Asked(queue[k], w) /\ Asks(e, w))
                        => OnceIn(queue'[k], w)
          /\ \A i \in DOMAIN queue'[k] :
                \/ queue'[k][i] = e
                \/ i \in DOMAIN queue[k] /\ queue'[k][i] = queue[k][i]
      BY <3>1, AppendAsks
    <3>3. \A i \in DOMAIN queue'[k] :
             \/ \E m \in DOMAIN queue[k] : queue'[k][i] = queue[k][m]
             \/ \E x \in Events : queue'[k][i] = x /\ Home(k, x)'
      BY <1>11, <2>2, <3>2
    <3> QED BY <1>11, <2>2, <3>2, <3>3
  <2> QED BY <2>1, <2>2
<1>8. ASSUME NEW w \in ED!VPs PROVE OneAt(w)'
  <2>1. OneAt(w) /\ ED!Boss(w) \in ED!Daemons /\ (w = v => ED!Boss(w) = d) BY <1>3, OwnFacts
  <2>2. /\ Queued(w)' <=> Queued(w) \/ w = v
        /\ OnceIn(queue[ED!Boss(w)], w) /\ ~(Queued(w) /\ w = v) => OnceIn(queue'[ED!Boss(w)], w)
    BY <1>7, <2>1 DEF Queued
  <2>3. (Waits(w)' <=> Waits(w)) /\ (InHand(w)' <=> InHand(w))
    BY <1>0, <1>4, <2>1 DEF Waits, InHand
  <2>4. (pc'[w] = "blocked") <=> (pc[w] = "blocked" \/ w = v)
    BY <1>0 DEF EDInv, EDTypeOK
  <2>5. CASE w # v BY <1>0, <2>1, <2>2, <2>3, <2>4, <2>5 DEF OneAt
  <2>6. CASE w = v
    <3>1. ~Queued(w) /\ ~Waits(w) /\ ~InHand(w) /\ ~resumed[w]
      BY <1>0, <2>1, <2>6 DEF OneAt
    <3> QED BY <1>0, <2>1, <2>2, <2>3, <2>4, <2>6, <3>1 DEF OneAt
  <2> QED BY <2>5, <2>6
<1>9. ASSUME NEW k \in ED!Daemons PROVE EventsAt(k)'
  <2>1. /\ dpc'[k] = "handle" => dpc[k] = "handle" /\ hand'[k] = hand[k]
        /\ dpc'[k] = "answer" => hand'[k] \in Handed
        /\ dpc'[k] \in {"blocking", "count", "counted", "answer"} => waiting'[k] # <<>>
        /\ waiting'[k] \in Seq(Events)
    BY <1>0, <1>4, DaemonFacts DEF EventsAt
  <2>2. \A w \in ED!VPs : frames'[w] = frames[w] BY <1>0
  <2> QED BY <1>0, <1>7, <2>1, <2>2, EventsKept
<1>10. \A j \in ED!Jobs : JobAt(j)'
  <2>1. ASSUME NEW j \in ED!Jobs, NEW w \in ED!VPs, Has(w, j)' PROVE Has(w, j)
    <3>1. CASE Running(w, j)' BY <1>0, <3>1 DEF Has, Running
    <3>2. CASE Given(w, j)' /\ w # v
      BY <1>0, <3>2 DEF Has, Given, EDInv, EDTypeOK
    <3>3. CASE Given(w, j)' /\ w = v
      <4>1. current[v] = j BY <1>0, <3>3 DEF Given
      <4>2. pc[v] = "help" BY <1>0, <4>1, OwnFacts, Constants DEF StackAt, CodeAt
      <4>3. ED!Body(v) = j
        <5>1. Code(ED!Body(v)) = j BY <1>1, <4>1, <4>2
        <5> QED BY <5>1, Constants DEF Code
      <4>4. ED!Body(v) = frames[v][Len(frames[v])].body /\ Len(frames[v]) \in DOMAIN frames[v]
        BY <1>1, <4>2, OwnFacts, TopFacts DEF ED!Body
      <4> QED BY <3>3, <4>3, <4>4 DEF Has, Running
    <3> QED BY <2>1, <3>1, <3>2, <3>3 DEF Has
  <2>2. \A j \in ED!Jobs, k \in ED!Daemons : Offers(k, j)' => Offers(k, j)
    BY <1>0, <1>4 DEF Offers
  <2>3. \A w \in ED!VPs : pc[w] = "returned" => pc'[w] = "returned" /\ ED!Body(w)' = ED!Body(w)
    BY <1>0 DEF ED!Body, EDInv, EDTypeOK
  <2>4. \A j \in ED!Jobs : OwnerAt(j)' BY <1>0, OwnerKept
  <2>5. NULL \in Handed /\ NULL \notin ED!Jobs BY Constants DEF Handed
  <2> QED BY <1>0, <2>1, <2>2, <2>3, <2>4, <2>5, JobsKept
<1> QED BY <1>5, <1>6, <1>8, <1>9, <1>10 DEF EDInv

LEMMA UnblockStep ==
    ASSUME EDInv, NEW v \in ED!VPs, ED!Unblock(v)
    PROVE  EDInv'
<1>0. /\ pc[v] = "blocked" /\ resumed[v] /\ ~Queued(v) /\ ~Waits(v) /\ ~InHand(v)
      /\ StackAt(v) /\ OneAt(v)
  BY OwnFacts DEF ED!Unblock, OneAt
<1>1. /\ resumed' = [resumed EXCEPT ![v] = FALSE]
      /\ current' = current
      /\ UNCHANGED <<state, handles, dpc, queue, waiting, hand, shouldStop>>
  BY <1>0 DEF ED!Unblock, ED!jobVars, ED!dVars, EDInv, EDTypeOK
<1>2. ASSUME NEW p \in {"gone", "join", "crash", "body"}, ED!Goto(v, p), StackAt(v)',
             \A w \in ED!VPs \ {v} : frames'[w] = frames[w] /\ context'[w] = context[w],
             frames' \in [ED!VPs -> Seq(FrameOf)], context' \in [ED!VPs -> Seq(Handed)],
             \A j \in ED!Jobs : Running(v, j)' => Running(v, j) \/ j = current[v]
      PROVE  EDInv'
  <2>1. /\ pc' \in [ED!VPs -> AtRun \cup InBody \cup Asking] /\ pc'[v] = p
        /\ \A w \in ED!VPs \ {v} : pc'[w] = pc[w] /\ resumed'[w] = resumed[w]
        /\ resumed' \in [ED!VPs -> BOOLEAN] /\ ~resumed'[v] /\ pc'[v] # "blocked"
    BY <1>1, <1>2 DEF ED!Goto, EDInv, EDTypeOK, AtRun, InBody, Asking
  <2>2. EDTypeOK' BY <1>1, <1>2, <2>1 DEF EDInv, EDTypeOK
  <2>3. ASSUME NEW w \in ED!VPs PROVE StackAt(w)'
    <3>1. CASE w # v BY <1>1, <1>2, <2>1, <3>1, StackKept
    <3> QED BY <1>2, <3>1
  <2>4. ASSUME NEW w \in ED!VPs PROVE OneAt(w)'
    <3>1. ED!Boss(w) \in ED!Daemons BY Constants
    <3>2. CASE w # v BY <1>1, <2>1, <3>1, <3>2, OneKept DEF Quiet
    <3>3. CASE w = v
      <4>1. ~Queued(v)' /\ ~Waits(v)' /\ ~InHand(v)'
        BY <1>0, <1>1 DEF Queued, Waits, InHand
      <4>2. OnceIn(queue[ED!Boss(v)], v)' /\ OnceIn(waiting[ED!Boss(v)], v)'
        BY <1>0, <1>1 DEF OneAt
      <4> QED BY <2>1, <3>3, <4>1, <4>2 DEF OneAt
    <3> QED BY <3>2, <3>3
  <2>5. ASSUME NEW d \in ED!Daemons PROVE EventsAt(d)'
    <3>1. \A w \in ED!VPs : pc[w] = "blocked" /\ ~resumed[w] => frames'[w] = frames[w]
      BY <1>0, <1>2
    <3>2. queue'[d] = queue[d] /\ waiting'[d] = waiting[d] /\ dpc'[d] = dpc[d] /\ hand'[d] = hand[d]
      BY <1>1
    <3>3. EventsAt(d) BY DaemonFacts
    <3> QED BY <3>1, <3>2, <3>3, DaemonFacts, EventsKept DEF EventsAt
  <2>6. \A j \in ED!Jobs : JobAt(j)'
    <3>1. ASSUME NEW j \in ED!Jobs, NEW w \in ED!VPs, Has(w, j)' PROVE Has(w, j)
      <4>1. CASE w # v BY <1>1, <1>2, <2>1, <3>1, <4>1 DEF Has, Running, Given
      <4>2. CASE w = v BY <1>0, <1>2, <2>1, <3>1, <4>2 DEF Has, Given
      <4> QED BY <4>1, <4>2
    <3>2. \A j \in ED!Jobs, k \in ED!Daemons : Offers(k, j)' => Offers(k, j) BY <1>1 DEF Offers
    <3>3. \A w \in ED!VPs : pc[w] = "returned" => pc'[w] = "returned" /\ ED!Body(w)' = ED!Body(w)
      BY <1>0, <1>2, <2>1 DEF ED!Body
    <3>4. \A j \in ED!Jobs : OwnerAt(j)' BY <1>1, OwnerKept
    <3>5. NULL \in Handed /\ NULL \notin ED!Jobs BY Constants DEF Handed
    <3> QED BY <1>1, <3>1, <3>2, <3>3, <3>4, <3>5, JobsKept
  <2> QED BY <2>2, <2>3, <2>4, <2>5, <2>6 DEF EDInv
<1>3. ASSUME NEW p, ED!Goto(v, p) PROVE pc' = [pc EXCEPT ![v] = p] /\ pc'[v] = p
  BY <1>3 DEF ED!Goto, EDInv, EDTypeOK
<1>4. v # 0 => dpc[ED!Boss(v)] # "start" BY <1>0 DEF StackAt
<1>5. \A i \in DOMAIN frames[v] : frames[v][i].joins \in handles[frames[v][i].body]
  BY <1>0 DEF StackAt, JoinsAt
<1>6. frames \in [ED!VPs -> Seq(FrameOf)] /\ context \in [ED!VPs -> Seq(Handed)]
  BY DEF EDInv, EDTypeOK
<1>7. \A j \in ED!Jobs : frames' = frames => (Running(v, j)' => Running(v, j)) BY DEF Running
<1>8. CASE ED!Goto(v, "gone") /\ UNCHANGED <<context, frames>> /\ frames[v] = <<>>
  <2>1. pc'[v] = "gone" /\ ~Helps(v)' BY <1>3, <1>8 DEF Helps
  <2>2. StackAt(v)'
    BY <1>0, <1>1, <1>4, <1>8, <2>1
    DEF StackAt, ShapeAt, CodeAt, OnceAt, MainAt, FreshAt, JoinsAt, AtRun, InBody
  <2> QED BY <1>2, <1>6, <1>7, <1>8, <2>2
<1>9. CASE ED!Goto(v, "crash") /\ UNCHANGED <<context, frames>> /\ frames[v] # <<>>
  <2>1. pc'[v] = "crash" /\ Helps(v)' /\ Helps(v)
    BY <1>0, <1>3, <1>9 DEF Helps, Asking
  <2>2. ShapeAt(v)' BY <1>0, <1>9, <2>1 DEF StackAt, ShapeAt, AtRun, InBody
  <2>3. CodeAt(v)' BY <1>0, <1>9, <2>1 DEF StackAt, CodeAt, InBody
  <2>4. FreshAt(v)' BY <1>0, <1>1, <1>9, <2>1 DEF StackAt, FreshAt, Running
  <2>5. StackAt(v)'
    BY <1>0, <1>1, <1>4, <1>9, <2>1, <2>2, <2>3, <2>4 DEF StackAt, OnceAt, MainAt, JoinsAt
  <2> QED BY <1>2, <1>6, <1>7, <1>9, <2>5
<1>10. CASE /\ ED!Goto(v, "join") /\ context' = [context EXCEPT ![v] = ED!Popped(v)]
            /\ UNCHANGED frames /\ frames[v] # <<>> /\ current[v] = ED!Last(context[v])
  <2> DEFINE n == Len(frames[v])
             x == ED!Popped(v)
  <2>1. /\ pc'[v] = "join" /\ ~Helps(v)' /\ Len(context[v]) = n /\ n \in Nat \ {0}
        /\ \A i \in 1 .. n : context[v][i] = Code(frames[v][i].body)
        /\ context[v] # <<>>
    <3>1. pc'[v] = "join" /\ ~Helps(v)' /\ Helps(v)
      BY <1>0, <1>3, <1>10 DEF Helps, Asking
    <3>2. Len(context[v]) = n BY <1>0, <3>1 DEF StackAt, ShapeAt
    <3> QED BY <1>0, <1>10, <3>1, <3>2, OwnFacts DEF StackAt, CodeAt
  <2>2. /\ x \in Seq(Handed) /\ Len(x) = n - 1 /\ DOMAIN x = 1 .. n - 1
        /\ \A i \in 1 .. n - 1 : x[i] = context[v][i]
        /\ ED!Last(context[v]) = context[v][n] /\ ED!Last(frames[v]) = frames[v][n]
    BY <1>10, <2>1, TopFacts DEF ED!Popped
  <2> HIDE DEF x
  <2>3. context'[v] = x /\ context' \in [ED!VPs -> Seq(Handed)]
        /\ \A w \in ED!VPs \ {v} : context'[w] = context[w]
    BY <1>6, <1>10, <2>2 DEF x
  <2>4. ShapeAt(v)' BY <1>10, <2>1, <2>2, <2>3 DEF ShapeAt, AtRun, InBody
  <2>5. CodeAt(v)'
    <3>1. n \in 1 .. n /\ \A i \in 1 .. n - 1 : i \in 1 .. n BY <2>1
    <3>2. current[v] = Code(ED!Body(v)) BY <1>10, <2>1, <2>2, <3>1 DEF ED!Body
    <3> HIDE DEF n
    <3>3. \A i \in DOMAIN x : x[i] = Code(frames[v][i].body) BY <2>1, <2>2, <3>1
    <3> QED BY <1>1, <1>10, <2>1, <2>3, <3>2, <3>3 DEF CodeAt, ED!Body
  <2>6. StackAt(v)'
    BY <1>0, <1>1, <1>4, <1>10, <2>1, <2>4, <2>5 DEF StackAt, OnceAt, MainAt, JoinsAt, FreshAt
  <2> QED BY <1>2, <1>6, <1>7, <1>10, <2>3, <2>6
<1>11. CASE /\ ED!Goto(v, "body") /\ frames' = [frames EXCEPT ![v] = Append(@, ED!Frame(current[v]))]
            /\ UNCHANGED context /\ current[v] # NULL
            /\ frames[v] # <<>> => current[v] # ED!Last(context[v])
  <2>1. PICK b \in ED!Jobs : b = current[v] BY <1>11, OwnFacts DEF Handed
  <2>2. ~Running(v, b)
    <3>1. CASE frames[v] = <<>> BY <3>1 DEF Running
    <3>2. CASE frames[v] # <<>>
      BY <1>0, <1>11, <2>1, <3>2 DEF StackAt, FreshAt, Helps, Asking
    <3> QED BY <3>1, <3>2
  <2>3. /\ Len(context[v]) = Len(frames[v])
        /\ \A i \in DOMAIN context[v] : context[v][i] = Code(frames[v][i].body)
    <3>1. CASE frames[v] = <<>> BY <1>0, <3>1 DEF StackAt, ShapeAt, CodeAt
    <3>2. CASE frames[v] # <<>>
      BY <1>0, <3>2 DEF StackAt, ShapeAt, CodeAt, Helps, Asking
    <3> QED BY <3>1, <3>2
  <2>4. /\ frames'[v] = Append(frames[v], ED!Frame(b)) /\ pc'[v] = "body" /\ current'[v] = b
        /\ context'[v] = context[v]
    BY <1>1, <1>3, <1>6, <1>11, <2>1
  <2>5. /\ StackAt(v)' /\ frames'[v] \in Seq(FrameOf)
        /\ \A j \in ED!Jobs : Running(v, j)' => Running(v, j) \/ j = b
    BY <1>0, <1>1, <1>5, <2>2, <2>3, <2>4, OwnFacts, PushLocal
  <2>6. frames' = [frames EXCEPT ![v] = frames'[v]] BY <1>6, <1>11, <2>4
  <2>7. /\ frames' \in [ED!VPs -> Seq(FrameOf)]
        /\ \A w \in ED!VPs \ {v} : frames'[w] = frames[w]
    BY <1>6, <2>5, <2>6
  <2> QED BY <1>2, <1>6, <1>11, <2>1, <2>5, <2>7
<1> QED BY <1>0, <1>8, <1>9, <1>10, <1>11 DEF ED!Unblock

-----------------------------------------------------------------------------
(* The steps of a daemon *)

\* A daemon may give the job k, or none, to VPs that are blocked.
LEMMA DaemonStep ==
    ASSUME EDInv, NEW k \in Handed,
           UNCHANGED <<handles, context, frames, pc>>,
           \A w \in ED!VPs : \/ current'[w] = current[w]
                             \/ /\ pc[w] = "blocked" /\ current'[w] \in {k, NULL}
                                /\ ~Running(w, current'[w]),
           \A d \in ED!Daemons : dpc'[d] = "start" => dpc[d] = "start",
           \A j \in ED!Jobs \ {k} : /\ state'[j] = state[j]
                                    /\ \A d \in ED!Daemons : Offers(d, j)' => Offers(d, j),
           k \in ED!Jobs => HeldAt(k)' /\ EndAt(k)' /\ state'[k] # "none"
    PROVE  /\ \A w \in ED!VPs : StackAt(w)'
           /\ \A j \in ED!Jobs : JobAt(j)'
<1>1. ASSUME NEW w \in ED!VPs PROVE StackAt(w)'
  BY Constants, StackKept
<1>2. ASSUME NEW j \in ED!Jobs \ {k}, NEW w \in ED!VPs, Has(w, j)' PROVE Has(w, j)
  BY <1>2, Constants DEF Has, Running, Given
<1>3. ASSUME NEW w \in ED!VPs, pc[w] = "returned"
      PROVE pc'[w] = "returned" /\ ED!Body(w)' = ED!Body(w)
  BY <1>3 DEF ED!Body
<1>4. \A j \in ED!Jobs : OwnerAt(j)'
  <2>1. \A j \in ED!Jobs : state'[j] = "none" => state[j] = "none" OBVIOUS
  <2> QED BY <2>1, OwnerKept
<1>5. \A j \in ED!Jobs : JobAt(j)' BY <1>2, <1>3, <1>4, JobsKept
<1> QED BY <1>1, <1>5

\* One VP is taken from the waiting list and resumed.
LEMMA ResumeOne ==
    ASSUME EDInv, NEW d \in ED!Daemons, NEW i \in DOMAIN waiting[d], NEW s \in Seq(Events),
           waiting' = [waiting EXCEPT ![d] = s],
           \A v : Asked(waiting[d], v) <=> Asked(s, v) \/ Asks(waiting[d][i], v),
           \A v : OnceIn(waiting[d], v) => /\ OnceIn(s, v)
                                           /\ ~(Asked(s, v) /\ Asks(waiting[d][i], v)),
           \A m \in DOMAIN s : \E n \in DOMAIN waiting[d] : s[m] = waiting[d][n],
           resumed' = [v \in ED!VPs |-> resumed[v] \/ v = waiting[d][i].vp],
           UNCHANGED <<pc, frames>>,
           \A k \in ED!Daemons :
               /\ Quiet(k)
               /\ dpc'[k] = "handle" => dpc[k] = "handle" /\ hand'[k] = hand[k]
               /\ dpc[k] = "handle" => dpc'[k] = "handle" \/ hand[k].type # "GetJob"
               /\ dpc'[k] = "answer" => hand'[k] \in Handed
               /\ dpc'[k] \in {"blocking", "count", "counted", "answer"}
                    => waiting[k] # <<>> /\ k # d
    PROVE  /\ \A v \in ED!VPs : OneAt(v)'
           /\ \A k \in ED!Daemons : EventsAt(k)'
<1> DEFINE e == waiting[d][i]
<1>1. /\ e \in Events /\ e.type = "GetJob" /\ e.vp \in ED!VPs /\ ED!Boss(e.vp) = d
      /\ pc[e.vp] = "blocked"
  <2>1. e \in Events /\ e.type = "GetJob" BY DaemonFacts DEF EventsAt
  <2> QED BY <2>1, AskerBlocked
<1>2. waiting'[d] = s /\ \A k \in ED!Daemons \ {d} : waiting'[k] = waiting[k]
  BY DEF EDInv, EDTypeOK
<1>3. \A v : Asks(e, v) <=> (v = e.vp) BY <1>1 DEF Asks
<1> HIDE DEF e
<1>4. ASSUME NEW v \in ED!VPs PROVE OneAt(v)'
  <2>1. OneAt(v) /\ ED!Boss(v) \in ED!Daemons /\ resumed[v] \in BOOLEAN
        /\ resumed'[v] = (resumed[v] \/ v = e.vp)
    BY OwnFacts DEF e
  <2>2. CASE v # e.vp /\ ED!Boss(v) # d BY <1>2, <2>1, <2>2, OneKept
  <2>3. CASE v # e.vp /\ ED!Boss(v) = d
    <3>1. (Queued(v)' <=> Queued(v)) /\ (OnceIn(queue[d], v) => OnceIn(queue'[d], v))
      BY <2>3, QuietQueue DEF Queued
    <3>2. (Waits(v)' <=> Waits(v)) /\ (OnceIn(waiting[d], v) => OnceIn(waiting'[d], v))
      BY <1>2, <1>3, <2>3 DEF Waits, e
    <3>3. InHand(v)' <=> InHand(v) BY <2>3 DEF InHand, Asks
    <3> QED BY <2>1, <2>3, <3>1, <3>2, <3>3 DEF OneAt
  <2>4. CASE v = e.vp
    <3>1. Waits(v) /\ ~Queued(v) /\ ~InHand(v) /\ ED!Boss(v) = d
      <4>1. ED!Boss(v) = d /\ Waits(v) BY <1>1, <1>3, <2>4 DEF Waits, Asked, e
      <4> QED BY <2>1, <4>1 DEF OneAt
    <3>2. ~Queued(v)' /\ (OnceIn(queue[d], v) => OnceIn(queue'[d], v))
      BY <3>1, QuietQueue DEF Queued
    <3>3. ~Waits(v)' /\ (OnceIn(waiting[d], v) => OnceIn(waiting'[d], v))
      <4>1. OnceIn(waiting[d], v) BY <2>1, <3>1 DEF OneAt
      <4> QED BY <1>2, <1>3, <2>4, <3>1, <4>1 DEF Waits, e
    <3>4. ~InHand(v)' BY <3>1 DEF InHand, Asks
    <3> QED BY <1>1, <2>1, <2>4, <3>1, <3>2, <3>3, <3>4 DEF OneAt
  <2> QED BY <2>2, <2>3, <2>4
<1>5. ASSUME NEW k \in ED!Daemons PROVE EventsAt(k)'
  <2>1. waiting'[k] \in Seq(Events) /\ queue'[k] \in Seq(Events)
    BY <1>2, DaemonFacts, QuietQueue
  <2>2. \A m \in DOMAIN waiting'[k] : \E n \in DOMAIN waiting[k] : waiting'[k][m] = waiting[k][n]
    BY <1>2
  <2>3. \A m \in DOMAIN queue'[k] :
           \/ \E n \in DOMAIN queue[k] : queue'[k][m] = queue[k][n]
           \/ \E x \in Events : queue'[k][m] = x /\ Home(k, x)'
    BY QuietQueue
  <2>4. dpc'[k] \in {"blocking", "count", "counted", "answer"} => waiting'[k] # <<>> BY <1>2
  <2> QED BY <2>1, <2>2, <2>3, <2>4, EventsKept
<1> QED BY <1>4, <1>5

LEMMA StartVPsStep ==
    ASSUME EDInv, NEW d \in ED!Daemons, ED!StartVPs(d)
    PROVE  EDInv'
<1>0. /\ dpc[d] = "start" /\ dpc' = [dpc EXCEPT ![d] = "turn"] /\ dpc'[d] = "turn"
      /\ \A k \in ED!Daemons \ {d} : dpc'[k] = dpc[k]
      /\ shouldStop' = [shouldStop EXCEPT ![d] = FALSE]
      /\ pc' = [v \in ED!VPs |-> IF v \in ED!Mine(d) \ {0} THEN "loop" ELSE pc[v]]
      /\ UNCHANGED <<state, handles, queue, waiting, hand, current, context, frames, resumed>>
  BY DEF ED!StartVPs, ED!jobVars, EDInv, EDTypeOK
<1>1. \A v \in ED!VPs :
        pc'[v] = pc[v] \/ (ED!Boss(v) = d /\ v # 0 /\ pc[v] = "unborn" /\ pc'[v] = "loop")
  BY <1>0, OwnFacts DEF ED!Mine, StackAt
<1>2. EDTypeOK'
  <2>1. pc' \in [ED!VPs -> AtRun \cup InBody \cup Asking]
    BY <1>0 DEF AtRun, EDInv, EDTypeOK
  <2> QED BY <1>0, <2>1 DEF EDInv, EDTypeOK, Places
<1>3. ASSUME NEW v \in ED!VPs PROVE StackAt(v)'
  <2>1. ED!Boss(v) \in ED!Daemons /\ StackAt(v) BY OwnFacts
  <2>2. CASE pc'[v] = pc[v] BY <1>0, <2>1, <2>2, StackKept
  <2>3. CASE ED!Boss(v) = d /\ pc[v] = "unborn" /\ pc'[v] = "loop"
    <3>1. ~Helps(v)' /\ frames[v] = <<>>
      BY <2>1, <2>3 DEF Helps, Asking, StackAt, ShapeAt, AtRun
    <3> QED BY <1>0, <2>1, <2>3, <3>1
            DEF StackAt, ShapeAt, CodeAt, OnceAt, MainAt, FreshAt, JoinsAt, InBody
  <2> QED BY <1>1, <2>2, <2>3
<1>4. (\A v \in ED!VPs : OneAt(v)') /\ (\A k \in ED!Daemons : EventsAt(k)')
  <2>1. \A k \in ED!Daemons :
           /\ Quiet(k) /\ waiting'[k] = waiting[k]
           /\ dpc'[k] = "handle" => dpc[k] = "handle" /\ hand'[k] = hand[k]
           /\ dpc[k] = "handle" => dpc'[k] = "handle" \/ hand[k].type # "GetJob"
           /\ dpc'[k] = "answer" => hand'[k] \in Handed
           /\ dpc'[k] \in {"blocking", "count", "counted", "answer"} => waiting[k] # <<>>
    BY <1>0, DaemonFacts DEF Quiet, EventsAt
  <2> QED BY <1>0, <1>1, <2>1, TokensKept
<1>5. \A j \in ED!Jobs : JobAt(j)'
  <2>1. ASSUME NEW j \in ED!Jobs, NEW v \in ED!VPs, Has(v, j)' PROVE Has(v, j)
    BY <1>0, <1>1, <2>1 DEF Has, Running, Given
  <2>2. \A j \in ED!Jobs, k \in ED!Daemons : Offers(k, j)' => Offers(k, j) BY <1>0 DEF Offers
  <2>3. \A v \in ED!VPs : pc[v] = "returned" => pc'[v] = "returned" /\ ED!Body(v)' = ED!Body(v)
    BY <1>0, <1>1 DEF ED!Body
  <2>4. \A j \in ED!Jobs : OwnerAt(j)' BY <1>0, OwnerKept
  <2>5. NULL \in Handed /\ NULL \notin ED!Jobs BY Constants DEF Handed
  <2> QED BY <1>0, <2>1, <2>2, <2>3, <2>4, <2>5, JobsKept
<1> QED BY <1>2, <1>3, <1>4, <1>5 DEF EDInv

\* The steps of a daemon that move no event and resume nobody.
LEMMA AloneStep ==
    ASSUME EDInv, NEW d \in ED!Daemons, NEW k \in Handed, EDTypeOK',
           UNCHANGED <<handles, context, frames, pc, current, queue, waiting, resumed>>,
           \A c \in ED!Daemons \ {d} : dpc'[c] = dpc[c] /\ hand'[c] = hand[c],
           dpc[d] # "handle" /\ dpc'[d] \notin {"start", "handle"},
           dpc'[d] \in {"blocking", "count", "counted", "answer"} => waiting[d] # <<>>,
           dpc'[d] = "answer" => hand'[d] \in {k, NULL},
           \A j \in ED!Jobs \ {k} : state'[j] = state[j],
           k \in ED!Jobs => Unclaimed(k) /\ state'[k] = "running"
    PROVE  EDInv'
<1>1. (\A v \in ED!VPs : OneAt(v)') /\ (\A c \in ED!Daemons : EventsAt(c)')
  <2>1. \A c \in ED!Daemons :
           /\ Quiet(c) /\ waiting'[c] = waiting[c]
           /\ dpc'[c] = "handle" => dpc[c] = "handle" /\ hand'[c] = hand[c]
           /\ dpc[c] = "handle" => dpc'[c] = "handle" \/ hand[c].type # "GetJob"
           /\ dpc'[c] = "answer" => hand'[c] \in Handed
           /\ dpc'[c] \in {"blocking", "count", "counted", "answer"} => waiting[c] # <<>>
    BY DaemonFacts DEF Quiet, EventsAt, Handed
  <2> QED BY <2>1, TokensKept
<1>2. \A j \in ED!Jobs, c \in ED!Daemons : Offers(c, j)' => Offers(c, j) \/ (c = d /\ j = k)
  BY Constants DEF Offers
<1>3. k \in ED!Jobs => HeldAt(k)' /\ EndAt(k)' /\ state'[k] # "none"
  <2> HAVE k \in ED!Jobs
  <2> DEFINE h == NumDaemons * VPsPerDaemon
  <2>1. h \notin ED!VPs BY EventDaemonAssumption DEF ED!VPs
  <2>2. \A w \in ED!VPs : Has(w, k)' => Has(w, k) BY DEF Has, Running, Given
  <2> HIDE DEF h
  <2> QED BY <1>2, <2>1, <2>2, ClaimedOnce
<1>4. (\A v \in ED!VPs : StackAt(v)') /\ (\A j \in ED!Jobs : JobAt(j)')
  BY <1>2, <1>3, DaemonStep
<1> QED BY <1>1, <1>4 DEF EDInv

LEMMA BlockingGetStep ==
    ASSUME EDInv, NEW d \in ED!Daemons,
           ED!BlockingGet(d) \/ ED!Count(d) \/ ED!CheckCount(d) \/ ED!StopVPs(d)
    PROVE  EDInv'
<1>1. NULL \in Handed /\ NULL \notin ED!Jobs /\ \A j \in ED!Jobs : j \in Handed
  BY Constants DEF Handed
<1>2. EventsAt(d) BY DaemonFacts
<1>3. CASE ED!BlockingGet(d)
  <2>1. PICK k \in Handed : /\ k = ED!FoundJob /\ (k \in ED!Jobs => ED!Ready(k))
                            /\ (k # NULL => k \in ED!Jobs)
    BY <1>1, FoundFact
  <2>2. /\ dpc[d] = "blocking" /\ state' = ED!Claim(k)
        /\ hand' = [hand EXCEPT ![d] = IF k = NULL THEN daemonsWaiting ELSE k]
        /\ dpc' = [dpc EXCEPT ![d] = IF k = NULL THEN "count" ELSE "answer"]
        /\ UNCHANGED <<handles, queue, waiting, shouldStop, pc, current, context, frames,
                       resumed>>
    BY <1>3, <2>1 DEF ED!BlockingGet, ED!vpVars
  <2>3. /\ hand'[d] = (IF k = NULL THEN daemonsWaiting ELSE k)
        /\ dpc'[d] = IF k = NULL THEN "count" ELSE "answer"
        /\ \A c \in ED!Daemons \ {d} : dpc'[c] = dpc[c] /\ hand'[c] = hand[c]
        /\ hand' = [c \in ED!Daemons |-> hand'[c]] /\ dpc' \in [ED!Daemons -> Places]
    BY <2>2 DEF EDInv, EDTypeOK, Places
  <2>4. /\ state' \in [ED!Jobs -> {"none", "ready", "running", "finished"}]
        /\ \A j \in ED!Jobs \ {k} : state'[j] = state[j]
        /\ k \in ED!Jobs => Unclaimed(k) /\ state'[k] = "running"
    BY <1>1, <2>1, <2>2 DEF ED!Claim, ED!Ready, Unclaimed, EDInv, EDTypeOK
  <2>5. EDTypeOK' BY <2>2, <2>3, <2>4 DEF EDInv, EDTypeOK
  <2> QED BY <1>2, <2>2, <2>3, <2>4, <2>5, AloneStep DEF EventsAt
<1>4. CASE ED!Count(d) \/ ED!CheckCount(d) \/ ED!StopVPs(d)
  <2>1. /\ dpc[d] \in {"count", "counted", "stop"}
        /\ dpc' = [dpc EXCEPT ![d] = CASE dpc[d] = "count" -> "counted"
                                       [] dpc[d] = "counted" -> "answer"
                                       [] dpc[d] = "stop" -> "done"]
        /\ \/ dpc[d] = "counted" /\ hand' = [hand EXCEPT ![d] = NULL]
           \/ dpc[d] # "counted" /\ hand' = hand
        /\ shouldStop' \in [ED!Daemons -> BOOLEAN]
        /\ UNCHANGED <<state, handles, queue, waiting, pc, current, context, frames, resumed>>
    BY <1>4 DEF ED!Count, ED!CheckCount, ED!StopVPs, ED!vpVars, ED!jobVars, EDInv, EDTypeOK
  <2>2. /\ dpc'[d] = "answer" => hand'[d] = NULL
        /\ dpc'[d] \in {"counted", "answer", "done"}
        /\ dpc'[d] \in {"counted", "answer"} => dpc[d] \in {"count", "counted"}
        /\ \A c \in ED!Daemons \ {d} : dpc'[c] = dpc[c] /\ hand'[c] = hand[c]
        /\ hand' = [c \in ED!Daemons |-> hand'[c]] /\ dpc' \in [ED!Daemons -> Places]
    BY <2>1 DEF EDInv, EDTypeOK, Places
  <2>3. EDTypeOK' BY <2>1, <2>2 DEF EDInv, EDTypeOK
  <2> QED BY <1>1, <1>2, <2>1, <2>2, <2>3, AloneStep DEF EventsAt
<1> QED BY <1>3, <1>4

LEMMA TurnStep ==
    ASSUME EDInv, NEW d \in ED!Daemons, ED!Turn(d)
    PROVE  EDInv'
<1>0. /\ dpc[d] = "turn"
      /\ UNCHANGED <<state, handles, waiting, shouldStop, pc, current, context, frames, resumed>>
  BY DEF ED!Turn, ED!jobVars, ED!vpVars
<1>1. NULL \in Handed /\ NULL \notin ED!Jobs BY Constants DEF Handed
<1>2. CASE queue[d] = <<>>
  <2>1. /\ dpc' = [dpc EXCEPT ![d] = IF Len(waiting[d]) = VPsPerDaemon
                                     THEN "blocking" ELSE "sleep"]
        /\ UNCHANGED <<queue, hand>>
    BY <1>2 DEF ED!Turn
  <2>2. /\ \A c \in ED!Daemons \ {d} : dpc'[c] = dpc[c] /\ hand'[c] = hand[c]
        /\ dpc' \in [ED!Daemons -> Places] /\ dpc'[d] \in {"blocking", "sleep"}
        /\ dpc'[d] = "blocking" => Len(waiting[d]) = VPsPerDaemon
    BY <2>1 DEF EDInv, EDTypeOK, Places
  <2>3. EDTypeOK' BY <1>0, <2>1, <2>2 DEF EDInv, EDTypeOK
  <2>4. Len(waiting[d]) = VPsPerDaemon => waiting[d] # <<>> BY EventDaemonAssumption
  <2> QED BY <1>0, <1>1, <2>1, <2>2, <2>3, <2>4, AloneStep
<1>3. CASE queue[d] # <<>>
  <2> DEFINE e == Head(queue[d])
             s == Tail(queue[d])
  <2>1. /\ e \in Events /\ s \in Seq(Events)
        /\ \A v : Asked(queue[d], v) <=> Asked(s, v) \/ Asks(e, v)
        /\ \A v : OnceIn(queue[d], v) => OnceIn(s, v) /\ ~(Asked(s, v) /\ Asks(e, v))
        /\ \A k \in DOMAIN s : \E m \in DOMAIN queue[d] : s[k] = queue[d][m]
    BY <1>3, DaemonFacts, TailAsks
  <2>2. /\ hand' = [hand EXCEPT ![d] = e] /\ queue' = [queue EXCEPT ![d] = s]
        /\ dpc' = [dpc EXCEPT ![d] = "handle"]
    BY <1>3 DEF ED!Turn
  <2>3. /\ hand'[d] = e /\ queue'[d] = s /\ dpc'[d] = "handle"
        /\ \A c \in ED!Daemons \ {d} : /\ dpc'[c] = dpc[c] /\ hand'[c] = hand[c]
                                       /\ queue'[c] = queue[c]
        /\ hand' = [c \in ED!Daemons |-> hand'[c]] /\ dpc' \in [ED!Daemons -> Places]
        /\ queue' \in [ED!Daemons -> Seq(Events)]
    BY <2>1, <2>2 DEF EDInv, EDTypeOK, Places
  <2>4. EDTypeOK' BY <1>0, <2>3 DEF EDInv, EDTypeOK
  <2>5. ASSUME NEW c \in ED!Daemons PROVE EventsAt(c)'
    <3>1. /\ dpc'[c] = "handle" => \/ dpc[c] = "handle" /\ hand'[c] = hand[c]
                                   \/ queue[c] # <<>> /\ hand'[c] = Head(queue[c])
          /\ dpc'[c] = "answer" => hand'[c] \in Handed
          /\ dpc'[c] \in {"blocking", "count", "counted", "answer"} => waiting'[c] # <<>>
      BY <1>0, <1>3, <2>3, DaemonFacts DEF EventsAt
    <3>2. \A i \in DOMAIN queue'[c] : \E k \in DOMAIN queue[c] : queue'[c][i] = queue[c][k]
      <4> HIDE DEF s
      <4>1. CASE c = d BY <2>1, <2>3, <4>1
      <4>2. CASE c # d BY <2>3, <4>2
      <4> QED BY <4>1, <4>2
    <3>3. /\ queue'[c] \in Seq(Events) /\ waiting'[c] = waiting[c] /\ waiting[c] \in Seq(Events)
          /\ frames' = frames
      BY <1>0, <2>3, DaemonFacts
    <3> QED BY <3>1, <3>2, <3>3, EventsKept
  <2> HIDE DEF e, s
  <2>6. ASSUME NEW v \in ED!VPs PROVE OneAt(v)'
    <3>1. OneAt(v) /\ ED!Boss(v) \in ED!Daemons BY OwnFacts
    <3>2. CASE ED!Boss(v) # d BY <1>0, <2>3, <3>1, <3>2, OneKept DEF Quiet
    <3>3. CASE ED!Boss(v) = d
      <4>1. /\ Queued(v) <=> Queued(v)' \/ InHand(v)'
            /\ OnceIn(queue[d], v) => OnceIn(queue'[d], v) /\ ~(Queued(v)' /\ InHand(v)')
        BY <2>1, <2>3, <3>3 DEF Queued, InHand
      <4>2. (Waits(v)' <=> Waits(v)) /\ ~InHand(v) BY <1>0, <3>3 DEF Waits, InHand
      <4> QED BY <1>0, <3>1, <3>3, <4>1, <4>2 DEF OneAt
    <3> QED BY <3>2, <3>3
  <2>7. (\A v \in ED!VPs : StackAt(v)') /\ (\A j \in ED!Jobs : JobAt(j)')
    BY <1>0, <1>1, <2>3, DaemonStep DEF Offers
  <2> QED BY <2>4, <2>5, <2>6, <2>7 DEF EDInv
<1> QED BY <1>2, <1>3

\* What a daemon that is through with an event leaves behind.
LEMMA HandledFacts ==
    ASSUME EDInv, NEW d \in ED!Daemons, NEW e \in Events, dpc[d] = "handle", hand[d] = e,
           ED!Handled(d) \/ (ED!Forward(d, e) /\ e.type # "GetJob"),
           hand' = [hand EXCEPT ![d] = NULL]
    PROVE  /\ dpc' \in [ED!Daemons -> Places] /\ queue' \in [ED!Daemons -> Seq(Events)]
           /\ hand' = [k \in ED!Daemons |-> hand'[k]]
           /\ ED!Handled(d) => queue' = queue
           /\ \A k \in ED!Daemons :
                 /\ Quiet(k)
                 /\ dpc'[k] = "handle" => dpc[k] = "handle" /\ hand'[k] = hand[k]
                 /\ dpc[k] = "handle" => dpc'[k] = "handle" \/ k = d
                 /\ dpc'[k] = "answer" => hand'[k] \in Handed
                 /\ dpc'[k] \in {"blocking", "count", "counted", "answer"}
                      => waiting[k] # <<>> /\ k # d
                 /\ dpc'[k] = "start" => dpc[k] = "start"
                 /\ k = d => dpc'[k] = "turn"
                 /\ \A j \in ED!Jobs : Offers(k, j)' => Offers(k, j)
<1> DEFINE x == [e EXCEPT !.fwd = TRUE]
<1>1. dpc \in [ED!Daemons -> Places] /\ queue \in [ED!Daemons -> Seq(Events)] /\ Home(d, e)
  BY DaemonFacts DEF EDInv, EDTypeOK, EventsAt
<1>2. /\ x \in Events /\ x.type = e.type /\ x.job = e.job
      /\ e.type # "GetJob" => x.job \in ED!Jobs
  BY <1>1 DEF Events, Home
<1> HIDE DEF x
<1>3. /\ dpc' \in [ED!Daemons -> Places] /\ queue' \in [ED!Daemons -> Seq(Events)]
      /\ dpc'[d] = "turn"
      /\ \A k \in ED!Daemons : Quiet(k)
      /\ \A k \in ED!Daemons \ {d} : dpc'[k] = dpc[k] \/ (dpc[k] = "sleep" /\ dpc'[k] = "turn")
  <2>1. CASE ED!Handled(d) BY <1>1, <2>1 DEF ED!Handled, Quiet, Places
  <2>2. CASE ED!Forward(d, e) /\ e.type # "GetJob"
    <3>1. /\ queue' = [k \in ED!Daemons |-> IF k = d THEN queue[k] ELSE Append(queue[k], x)]
          /\ dpc' = [k \in ED!Daemons |-> IF k = d THEN "turn" ELSE ED!Woken(dpc[k])]
      BY <2>2 DEF ED!Forward, x
    <3>2. "turn" \in Places /\ \A k \in ED!Daemons : queue[k] \in Seq(Events) /\ dpc[k] \in Places
      BY <1>1 DEF Places
    <3>3. \A k \in ED!Daemons : Append(queue[k], x) \in Seq(Events) BY <1>2, <3>2
    <3>4. \A k \in ED!Daemons : Quiet(k) BY <1>2, <2>2, <3>1 DEF Quiet
    <3>5. dpc' \in [ED!Daemons -> Places] BY <3>1, <3>2, WokenFact
    <3>6. queue' \in [ED!Daemons -> Seq(Events)] BY <3>1, <3>2, <3>3
    <3>7. \A k \in ED!Daemons \ {d} : dpc'[k] = dpc[k] \/ (dpc[k] = "sleep" /\ dpc'[k] = "turn")
      BY <3>1, <3>2, WokenFact
    <3> QED BY <3>1, <3>4, <3>5, <3>6, <3>7
  <2> QED BY <2>1, <2>2
<1>4. /\ hand' = [k \in ED!Daemons |-> hand'[k]]
      /\ \A k \in ED!Daemons \ {d} : hand'[k] = hand[k]
  BY DEF EDInv, EDTypeOK
<1>5. ED!Handled(d) => queue' = queue BY DEF ED!Handled
<1>6. ASSUME NEW k \in ED!Daemons
      PROVE  /\ Quiet(k)
             /\ dpc'[k] = "handle" => dpc[k] = "handle" /\ hand'[k] = hand[k]
             /\ dpc[k] = "handle" => dpc'[k] = "handle" \/ k = d
             /\ dpc'[k] = "answer" => hand'[k] \in Handed
             /\ dpc'[k] \in {"blocking", "count", "counted", "answer"}
                  => waiting[k] # <<>> /\ k # d
             /\ dpc'[k] = "start" => dpc[k] = "start"
             /\ k = d => dpc'[k] = "turn"
             /\ \A j \in ED!Jobs : Offers(k, j)' => Offers(k, j)
  <2>1. EventsAt(k) BY DaemonFacts
  <2> QED BY <1>3, <1>4, <2>1 DEF EventsAt, Offers
<1> QED BY <1>3, <1>4, <1>5, <1>6

LEMMA HandleGetStep ==
    ASSUME EDInv, NEW d \in ED!Daemons, NEW e \in Events, dpc[d] = "handle", hand[d] = e,
           ED!HandleGet(d, e), hand' = [hand EXCEPT ![d] = NULL],
           UNCHANGED <<handles, shouldStop>>
    PROVE  EDInv'
<1>1. /\ e.vp \in ED!VPs /\ ED!Boss(e.vp) = d /\ pc[e.vp] = "blocked" /\ e.type = "GetJob"
      /\ \A v : Asks(e, v) <=> (v = e.vp)
  BY AskerBlocked DEF ED!HandleGet, Asks
<1>2. ED!Handled(d) BY DEF ED!HandleGet
<1>3. queue' = queue BY <1>2 DEF ED!Handled
<1>4. /\ dpc' \in [ED!Daemons -> Places] /\ hand' = [k \in ED!Daemons |-> hand'[k]]
      /\ \A k \in ED!Daemons :
                 /\ dpc'[k] = "handle" => dpc[k] = "handle" /\ hand'[k] = hand[k]
                 /\ dpc[k] = "handle" => dpc'[k] = "handle" \/ k = d
                 /\ dpc'[k] = "answer" => hand'[k] \in Handed
                 /\ dpc'[k] \in {"blocking", "count", "counted", "answer"}
                      => waiting[k] # <<>> /\ k # d
                 /\ dpc'[k] = "start" => dpc[k] = "start"
                 /\ k = d => dpc'[k] = "turn"
                 /\ \A j \in ED!Jobs : Offers(k, j)' => Offers(k, j)
  BY <1>2, HandledFacts
<1>5. PICK k \in Handed : /\ k = ED!FoundJob /\ (k \in ED!Jobs => ED!Ready(k))
                          /\ (k # NULL => k \in ED!Jobs)
  BY FoundFact, Constants DEF Handed
<1>6. /\ state' = ED!Claim(k) /\ waiting' = [waiting EXCEPT ![d] = ED!Pending(d, e, k)]
      /\ IF k = NULL THEN UNCHANGED ED!vpVars ELSE ED!Answer({e.vp}, k)
  BY <1>5 DEF ED!HandleGet
<1>7. /\ state' \in [ED!Jobs -> {"none", "ready", "running", "finished"}]
      /\ \A j \in ED!Jobs \ {k} : state'[j] = state[j]
      /\ k \in ED!Jobs => Unclaimed(k) /\ state'[k] = "running"
  BY <1>5, <1>6, Constants DEF ED!Claim, ED!Ready, Unclaimed, EDInv, EDTypeOK
<1>8. ASSUME NEW w \in ED!VPs, ED!Boss(w) # d, waiting'[ED!Boss(w)] = waiting[ED!Boss(w)],
             resumed'[w] = resumed[w], pc' = pc
      PROVE  OneAt(w)'
  <2>1. ED!Boss(w) \in ED!Daemons BY Constants
  <2> QED BY <1>3, <1>4, <1>8, <2>1, OneKept DEF Quiet
<1>9. ASSUME NEW w \in ED!VPs, ED!Boss(w) = d
      PROVE  (Queued(w)' <=> Queued(w)) /\ (InHand(w) <=> w = e.vp) /\ ~InHand(w)'
  BY <1>1, <1>3, <1>4, <1>9 DEF Queued, InHand
<1>10. CASE k = NULL
  <2> DEFINE s == Append(waiting[d], e)
  <2>1. /\ s \in Seq(Events) /\ s # <<>>
        /\ \A v : Asked(s, v) <=> Asked(waiting[d], v) \/ Asks(e, v)
        /\ \A v : OnceIn(waiting[d], v) /\ ~(Asked(waiting[d], v) /\ Asks(e, v)) => OnceIn(s, v)
        /\ \A i \in DOMAIN s : \/ s[i] = e
                               \/ i \in DOMAIN waiting[d] /\ s[i] = waiting[d][i]
    BY DaemonFacts, AppendAsks
  <2>2. waiting' = [waiting EXCEPT ![d] = s] BY <1>6, <1>10 DEF ED!Pending
  <2> HIDE DEF s
  <2>3. /\ waiting' \in [ED!Daemons -> Seq(Events)] /\ waiting'[d] = s
        /\ \A c \in ED!Daemons \ {d} : waiting'[c] = waiting[c]
    BY <2>1, <2>2 DEF EDInv, EDTypeOK
  <2>4. UNCHANGED <<pc, current, context, frames, resumed>> BY <1>6, <1>10 DEF ED!vpVars
  <2>5. EDTypeOK' BY <1>3, <1>4, <1>7, <2>3, <2>4 DEF EDInv, EDTypeOK
  <2>6. ASSUME NEW v \in ED!VPs PROVE OneAt(v)'
    <3>1. OneAt(v) /\ ED!Boss(v) \in ED!Daemons BY OwnFacts
    <3>2. CASE ED!Boss(v) # d BY <1>8, <2>3, <2>4, <3>1, <3>2
    <3>3. CASE ED!Boss(v) = d
      <4>1. /\ Waits(v)' <=> (Waits(v) \/ v = e.vp)
            /\ OnceIn(waiting[d], v) /\ ~(Waits(v) /\ v = e.vp) => OnceIn(waiting'[d], v)
        BY <1>1, <2>1, <2>3, <3>3 DEF Waits
      <4>2. (Queued(v)' <=> Queued(v)) /\ (InHand(v) <=> v = e.vp) /\ ~InHand(v)'
        BY <1>9, <3>3
      <4> QED BY <1>3, <2>4, <3>1, <3>3, <4>1, <4>2 DEF OneAt
    <3> QED BY <3>2, <3>3
  <2>7. ASSUME NEW c \in ED!Daemons PROVE EventsAt(c)'
    <3>1. \A i \in DOMAIN waiting'[c] :
             \/ \E m \in DOMAIN waiting[c] : waiting'[c][i] = waiting[c][m]
             \/ dpc[c] = "handle" /\ waiting'[c][i] = hand[c] /\ hand[c].type = "GetJob"
      <4>1. CASE c = d BY <1>1, <2>1, <2>3, <4>1
      <4>2. CASE c # d BY <2>3, <4>2
      <4> QED BY <4>1, <4>2
    <3>2. /\ queue'[c] = queue[c] /\ queue[c] \in Seq(Events) /\ waiting'[c] \in Seq(Events)
          /\ frames' = frames
      BY <1>3, <2>3, <2>4, DaemonFacts
    <3>3. dpc'[c] \in {"blocking", "count", "counted", "answer"} => waiting'[c] # <<>>
      BY <1>4, <2>3
    <3> QED BY <1>4, <3>1, <3>2, <3>3, EventsKept
  <2>8. (\A v \in ED!VPs : StackAt(v)') /\ (\A j \in ED!Jobs : JobAt(j)')
    BY <1>4, <1>7, <1>10, <2>4, Constants, DaemonStep
  <2> QED BY <2>5, <2>6, <2>7, <2>8 DEF EDInv
<1>11. CASE k # NULL
  <2>1. /\ waiting' = waiting /\ ED!Answer({e.vp}, k) /\ k \in ED!Jobs
    BY <1>5, <1>6, <1>11 DEF ED!Pending, EDInv, EDTypeOK
  <2>2. /\ current' = [v \in ED!VPs |-> IF v = e.vp THEN k ELSE current[v]]
        /\ resumed' = [v \in ED!VPs |-> resumed[v] \/ v = e.vp]
        /\ UNCHANGED <<pc, context, frames>>
    BY <2>1 DEF ED!Answer
  <2>3. EDTypeOK' BY <1>3, <1>4, <1>7, <2>1, <2>2 DEF EDInv, EDTypeOK
  <2>4. ASSUME NEW v \in ED!VPs PROVE OneAt(v)'
    <3>1. OneAt(v) /\ ED!Boss(v) \in ED!Daemons /\ resumed[v] \in BOOLEAN BY OwnFacts
    <3>2. CASE ED!Boss(v) # d
      <4>1. resumed'[v] = resumed[v] BY <1>1, <2>2, <3>1, <3>2
      <4> QED BY <1>8, <2>1, <2>2, <3>1, <3>2, <4>1
    <3>3. CASE ED!Boss(v) = d
      <4>1. Waits(v)' <=> Waits(v) BY <2>1 DEF Waits
      <4>2. (Queued(v)' <=> Queued(v)) /\ (InHand(v) <=> v = e.vp) /\ ~InHand(v)'
        BY <1>9, <3>3
      <4>3. resumed'[v] = (resumed[v] \/ v = e.vp) BY <2>2
      <4> QED BY <1>1, <1>3, <2>1, <2>2, <3>1, <3>3, <4>1, <4>2, <4>3 DEF OneAt
    <3> QED BY <3>2, <3>3
  <2>5. ASSUME NEW c \in ED!Daemons PROVE EventsAt(c)'
    <3>1. /\ queue'[c] = queue[c] /\ queue[c] \in Seq(Events) /\ waiting'[c] = waiting[c]
          /\ waiting[c] \in Seq(Events) /\ frames' = frames
      BY <1>3, <2>1, <2>2, DaemonFacts
    <3> QED BY <1>4, <3>1, EventsKept
  <2>6. HeldAt(k)' /\ EndAt(k)'
    <3> DEFINE g == NumDaemons
    <3>1. g \notin ED!Daemons BY EventDaemonAssumption DEF ED!Daemons
    <3>2. \A w \in ED!VPs : Has(w, k)' => Has(w, k) \/ w = e.vp
      BY <2>2 DEF Has, Running, Given
    <3>3. \A c \in ED!Daemons : Offers(c, k)' => Offers(c, k) \/ c = g BY <1>4, <2>1
    <3> HIDE DEF g
    <3> QED BY <1>7, <2>1, <3>1, <3>2, <3>3, ClaimedOnce
  <2>7. ~Running(e.vp, k) BY <1>1, <1>7, <2>1, UnclaimedFresh
  <2>8. (\A v \in ED!VPs : StackAt(v)') /\ (\A j \in ED!Jobs : JobAt(j)')
    <3>1. \A w \in ED!VPs : \/ current'[w] = current[w]
                            \/ /\ pc[w] = "blocked" /\ current'[w] \in {k, NULL}
                               /\ ~Running(w, current'[w])
      BY <1>1, <2>2, <2>7
    <3> QED BY <1>4, <1>7, <2>2, <2>6, <3>1, DaemonStep
  <2> QED BY <2>3, <2>4, <2>5, <2>8 DEF EDInv
<1> QED BY <1>10, <1>11

\* An event that is not a request wakes no VP.
LEMMA HandledStep ==
    ASSUME EDInv, NEW d \in ED!Daemons, NEW e \in Events, dpc[d] = "handle", hand[d] = e,
           ED!Handled(d) \/ ED!Forward(d, e), e.type # "GetJob", hand' = [hand EXCEPT ![d] = NULL],
           UNCHANGED <<state, handles, waiting, shouldStop, pc, current, context, frames,
                       resumed>>
    PROVE  EDInv'
<1>1. /\ dpc' \in [ED!Daemons -> Places] /\ queue' \in [ED!Daemons -> Seq(Events)]
      /\ hand' = [k \in ED!Daemons |-> hand'[k]]
      /\ \A k \in ED!Daemons :
                 /\ Quiet(k)
                 /\ dpc'[k] = "handle" => dpc[k] = "handle" /\ hand'[k] = hand[k]
                 /\ dpc[k] = "handle" => dpc'[k] = "handle" \/ k = d
                 /\ dpc'[k] = "answer" => hand'[k] \in Handed
                 /\ dpc'[k] \in {"blocking", "count", "counted", "answer"}
                      => waiting[k] # <<>> /\ k # d
                 /\ dpc'[k] = "start" => dpc[k] = "start"
                 /\ \A j \in ED!Jobs : Offers(k, j)' => Offers(k, j)
  BY HandledFacts
<1>2. EDTypeOK' BY <1>1 DEF EDInv, EDTypeOK
<1>3. (\A v \in ED!VPs : OneAt(v)') /\ (\A c \in ED!Daemons : EventsAt(c)')
  BY <1>1, TokensKept
<1>4. NULL \in Handed /\ NULL \notin ED!Jobs BY Constants DEF Handed
<1>5. (\A v \in ED!VPs : StackAt(v)') /\ (\A j \in ED!Jobs : JobAt(j)')
  BY <1>1, <1>4, DaemonStep
<1> QED BY <1>2, <1>3, <1>5 DEF EDInv

LEMMA HandleNewStep ==
    ASSUME EDInv, NEW d \in ED!Daemons, NEW e \in Events, dpc[d] = "handle", hand[d] = e,
           ED!HandleNew(d, e), hand' = [hand EXCEPT ![d] = NULL],
           UNCHANGED <<handles, shouldStop>>
    PROVE  EDInv'
<1>1. e.type # "GetJob" /\ e.job \in ED!Jobs
  BY DaemonFacts DEF ED!HandleNew, EventsAt, Home
<1>2. CASE waiting[d] # <<>> /\ ED!Ready(e.job)
  <2>0. PICK i \in DOMAIN waiting[d] : i = 1 BY <1>2, DaemonFacts, TailAsks
  <2> DEFINE s == Tail(waiting[d])
             h == waiting[d][i]
             k == e.job
  <2>1. /\ ED!Handled(d) /\ state' = ED!Claim(k) /\ ED!Answer({Head(waiting[d]).vp}, k)
        /\ waiting' = [waiting EXCEPT ![d] = s] /\ k \in Handed
    BY <1>1, <1>2 DEF ED!HandleNew, Handed
  <2>2. /\ s \in Seq(Events) /\ Head(waiting[d]) = h
        /\ \A v : Asked(waiting[d], v) <=> Asked(s, v) \/ Asks(h, v)
        /\ \A v : OnceIn(waiting[d], v) => OnceIn(s, v) /\ ~(Asked(s, v) /\ Asks(h, v))
        /\ \A m \in DOMAIN s : \E n \in DOMAIN waiting[d] : s[m] = waiting[d][n]
    BY <1>2, <2>0, DaemonFacts, TailAsks
  <2>3. h \in Events /\ h.type = "GetJob" /\ h.vp \in ED!VPs /\ pc[h.vp] = "blocked"
    <3>1. h \in Events /\ h.type = "GetJob" BY <2>2, DaemonFacts DEF EventsAt
    <3> QED BY <2>2, <3>1, AskerBlocked
  <2>4. /\ current' = [v \in ED!VPs |-> IF v = h.vp THEN k ELSE current[v]]
        /\ resumed' = [v \in ED!VPs |-> resumed[v] \/ v = h.vp]
        /\ UNCHANGED <<pc, context, frames>>
    BY <2>1, <2>2 DEF ED!Answer
  <2>5. /\ state' \in [ED!Jobs -> {"none", "ready", "running", "finished"}]
        /\ \A j \in ED!Jobs \ {k} : state'[j] = state[j]
        /\ Unclaimed(k) /\ state'[k] = "running"
    BY <1>1, <1>2, <2>1, Constants DEF ED!Claim, ED!Ready, Unclaimed, EDInv, EDTypeOK
  <2>6. /\ dpc' \in [ED!Daemons -> Places] /\ queue' \in [ED!Daemons -> Seq(Events)]
        /\ hand' = [c \in ED!Daemons |-> hand'[c]]
        /\ \A c \in ED!Daemons :
                 /\ Quiet(c)
                 /\ dpc'[c] = "handle" => dpc[c] = "handle" /\ hand'[c] = hand[c]
                 /\ dpc[c] = "handle" => dpc'[c] = "handle" \/ c = d
                 /\ dpc'[c] = "answer" => hand'[c] \in Handed
                 /\ dpc'[c] \in {"blocking", "count", "counted", "answer"}
                      => waiting[c] # <<>> /\ c # d
                 /\ dpc'[c] = "start" => dpc[c] = "start"
                 /\ \A j \in ED!Jobs : Offers(c, j)' => Offers(c, j)
    BY <2>1, HandledFacts
  <2> HIDE DEF s, h, k
  <2>7. EDTypeOK'
    <3>1. waiting' \in [ED!Daemons -> Seq(Events)] BY <2>1, <2>2 DEF EDInv, EDTypeOK
    <3>2. current' \in [ED!VPs -> Handed] /\ resumed' \in [ED!VPs -> BOOLEAN]
      BY <2>1, <2>4 DEF EDInv, EDTypeOK
    <3> QED BY <2>4, <2>5, <2>6, <3>1, <3>2 DEF EDInv, EDTypeOK
  <2>8. (\A v \in ED!VPs : OneAt(v)') /\ (\A c \in ED!Daemons : EventsAt(c)')
    <3>1. \A c \in ED!Daemons :
               /\ Quiet(c)
               /\ dpc'[c] = "handle" => dpc[c] = "handle" /\ hand'[c] = hand[c]
               /\ dpc[c] = "handle" => dpc'[c] = "handle" \/ hand[c].type # "GetJob"
               /\ dpc'[c] = "answer" => hand'[c] \in Handed
               /\ dpc'[c] \in {"blocking", "count", "counted", "answer"}
                    => waiting[c] # <<>> /\ c # d
      BY <1>1, <2>6
    <3>2. UNCHANGED <<pc, frames>> BY <2>4
    <3> QED BY <2>1, <2>2, <2>4, <3>1, <3>2, ResumeOne DEF h
  <2>9. k \in ED!Jobs /\ HeldAt(k)' /\ EndAt(k)'
    <3> DEFINE g == NumDaemons
    <3>1. k \in ED!Jobs BY <1>1 DEF k
    <3>2. g \notin ED!Daemons BY EventDaemonAssumption DEF ED!Daemons
    <3>3. \A w \in ED!VPs : Has(w, k)' => Has(w, k) \/ w = h.vp
      BY <2>4 DEF Has, Running, Given
    <3>4. \A c \in ED!Daemons : Offers(c, k)' => Offers(c, k) \/ c = g BY <2>6, <3>1
    <3> HIDE DEF g
    <3> QED BY <2>5, <3>1, <3>2, <3>3, <3>4, ClaimedOnce
  <2>10. ~Running(h.vp, k) BY <2>1, <2>3, <2>5, UnclaimedFresh
  <2>11. (\A v \in ED!VPs : StackAt(v)') /\ (\A j \in ED!Jobs : JobAt(j)')
    <3>1. \A w \in ED!VPs : \/ current'[w] = current[w]
                            \/ /\ pc[w] = "blocked" /\ current'[w] \in {k, NULL}
                               /\ ~Running(w, current'[w])
      BY <2>3, <2>4, <2>10
    <3>2. /\ \A c \in ED!Daemons : dpc'[c] = "start" => dpc[c] = "start"
          /\ \A j \in ED!Jobs \ {k} : /\ state'[j] = state[j]
                                      /\ \A c \in ED!Daemons : Offers(c, j)' => Offers(c, j)
          /\ state'[k] # "none"
      BY <2>5, <2>6
    <3>3. UNCHANGED <<handles, context, frames, pc>> BY <2>4
    <3> QED BY <2>1, <2>9, <3>1, <3>2, <3>3, DaemonStep
  <2> QED BY <2>7, <2>8, <2>11 DEF EDInv
<1>3. CASE ~(waiting[d] # <<>> /\ ED!Ready(e.job))
  BY <1>1, <1>3, HandledStep DEF ED!HandleNew, ED!vpVars
<1> QED BY <1>2, <1>3

LEMMA HandleEndStep ==
    ASSUME EDInv, NEW d \in ED!Daemons, NEW e \in Events, dpc[d] = "handle", hand[d] = e,
           ED!HandleEnd(d, e), hand' = [hand EXCEPT ![d] = NULL],
           UNCHANGED <<handles, shouldStop>>
    PROVE  EDInv'
<1>1. /\ e.type # "GetJob" /\ (ED!Handled(d) \/ ED!Forward(d, e))
      /\ UNCHANGED <<state, pc, current, context, frames>>
  BY DEF ED!HandleEnd
<1>2. CASE UNCHANGED <<waiting, resumed>> BY <1>1, <1>2, HandledStep
<1>3. ASSUME NEW i \in DOMAIN waiting[d],
             waiting' = [waiting EXCEPT ![d] = ED!RemoveAt(@, i)],
             resumed' = [resumed EXCEPT ![waiting[d][i].vp] = TRUE]
      PROVE  EDInv'
  <2> DEFINE s == ED!RemoveAt(waiting[d], i)
  <2>1. /\ s \in Seq(Events)
        /\ \A v : Asked(waiting[d], v) <=> Asked(s, v) \/ Asks(waiting[d][i], v)
        /\ \A v : OnceIn(waiting[d], v)
             => OnceIn(s, v) /\ ~(Asked(s, v) /\ Asks(waiting[d][i], v))
        /\ \A m \in DOMAIN s : \E n \in DOMAIN waiting[d] : s[m] = waiting[d][n]
    BY DaemonFacts, RemoveAtAsks
  <2>2. waiting' = [waiting EXCEPT ![d] = s] BY <1>3
  <2> HIDE DEF s
  <2>3. resumed' = [v \in ED!VPs |-> resumed[v] \/ v = waiting[d][i].vp]
    BY <1>3 DEF EDInv, EDTypeOK
  <2>4. /\ dpc' \in [ED!Daemons -> Places] /\ queue' \in [ED!Daemons -> Seq(Events)]
        /\ hand' = [c \in ED!Daemons |-> hand'[c]]
        /\ \A c \in ED!Daemons :
                 /\ Quiet(c)
                 /\ dpc'[c] = "handle" => dpc[c] = "handle" /\ hand'[c] = hand[c]
                 /\ dpc[c] = "handle" => dpc'[c] = "handle" \/ c = d
                 /\ dpc'[c] = "answer" => hand'[c] \in Handed
                 /\ dpc'[c] \in {"blocking", "count", "counted", "answer"}
                      => waiting[c] # <<>> /\ c # d
                 /\ dpc'[c] = "start" => dpc[c] = "start"
                 /\ \A j \in ED!Jobs : Offers(c, j)' => Offers(c, j)
    BY <1>1, HandledFacts
  <2>5. EDTypeOK'
    <3>1. waiting' \in [ED!Daemons -> Seq(Events)] BY <2>1, <2>2 DEF EDInv, EDTypeOK
    <3>2. resumed' \in [ED!VPs -> BOOLEAN] BY <1>3 DEF EDInv, EDTypeOK
    <3> QED BY <1>1, <2>4, <3>1, <3>2 DEF EDInv, EDTypeOK
  <2>6. (\A v \in ED!VPs : OneAt(v)') /\ (\A c \in ED!Daemons : EventsAt(c)')
    <3>1. \A c \in ED!Daemons :
               /\ Quiet(c)
               /\ dpc'[c] = "handle" => dpc[c] = "handle" /\ hand'[c] = hand[c]
               /\ dpc[c] = "handle" => dpc'[c] = "handle" \/ hand[c].type # "GetJob"
               /\ dpc'[c] = "answer" => hand'[c] \in Handed
               /\ dpc'[c] \in {"blocking", "count", "counted", "answer"}
                    => waiting[c] # <<>> /\ c # d
      BY <1>1, <2>4
    <3>2. UNCHANGED <<pc, frames>> BY <1>1
    <3> QED BY <2>1, <2>2, <2>3, <3>1, <3>2, ResumeOne
  <2>7. NULL \in Handed /\ NULL \notin ED!Jobs BY Constants DEF Handed
  <2>8. (\A v \in ED!VPs : StackAt(v)') /\ (\A j \in ED!Jobs : JobAt(j)')
    BY <1>1, <2>4, <2>7, DaemonStep
  <2> QED BY <2>5, <2>6, <2>8 DEF EDInv
<1> QED BY <1>2, <1>3 DEF ED!HandleEnd

LEMMA HandleEventStep ==
    ASSUME EDInv, NEW d \in ED!Daemons, ED!HandleEvent(d)
    PROVE  EDInv'
<1>1. PICK e \in Events : e = hand[d] /\ dpc[d] = "handle"
  BY DaemonFacts DEF ED!HandleEvent, EventsAt
<1>2. hand' = [hand EXCEPT ![d] = NULL] /\ UNCHANGED <<handles, shouldStop>>
  BY DEF ED!HandleEvent
<1>3. CASE ED!HandleGet(d, e) BY <1>1, <1>2, <1>3, HandleGetStep
<1>4. CASE ED!HandleNew(d, e) BY <1>1, <1>2, <1>4, HandleNewStep
<1>5. CASE ED!HandleEnd(d, e) BY <1>1, <1>2, <1>5, HandleEndStep
<1>6. CASE ED!HandleDestroy(d, e)
  BY <1>1, <1>2, <1>6, HandledStep DEF ED!HandleDestroy, ED!vpVars
<1> QED BY <1>1, <1>3, <1>4, <1>5, <1>6 DEF ED!HandleEvent

LEMMA AnsweredStep ==
    ASSUME EDInv, NEW d \in ED!Daemons, ED!Answered(d)
    PROVE  EDInv'
<1>0. /\ dpc[d] = "answer" /\ hand' = [hand EXCEPT ![d] = NULL]
      /\ UNCHANGED <<state, handles, queue, shouldStop>>
  BY DEF ED!Answered, ED!jobVars
<1>1. NULL \in Handed /\ NULL \notin ED!Jobs BY Constants DEF Handed
<1>2. waiting[d] # <<>> /\ hand[d] \in Handed BY <1>0, DaemonFacts DEF EventsAt
<1>3. /\ \A c \in ED!Daemons \ {d} : hand'[c] = hand[c]
      /\ hand' = [c \in ED!Daemons |-> hand'[c]] /\ hand'[d] = NULL
  BY <1>0 DEF EDInv, EDTypeOK
<1>4. ASSUME NEW p \in {"turn", "stop"}, dpc' = [dpc EXCEPT ![d] = p]
      PROVE  /\ dpc' \in [ED!Daemons -> Places] /\ dpc'[d] = p
             /\ \A c \in ED!Daemons \ {d} : dpc'[c] = dpc[c]
             /\ \A c \in ED!Daemons :
                   /\ Quiet(c)
                   /\ dpc'[c] = "handle" => dpc[c] = "handle" /\ hand'[c] = hand[c]
                   /\ dpc[c] = "handle" => dpc'[c] = "handle" \/ hand[c].type # "GetJob"
                   /\ dpc'[c] = "answer" => hand'[c] \in Handed
                   /\ dpc'[c] \in {"blocking", "count", "counted", "answer"}
                        => waiting[c] # <<>> /\ c # d
                   /\ dpc'[c] = "start" => dpc[c] = "start"
                   /\ \A j \in ED!Jobs : Offers(c, j)' => Offers(c, j) /\ c # d
  <2>1. /\ dpc' \in [ED!Daemons -> Places] /\ dpc'[d] = p
        /\ \A c \in ED!Daemons \ {d} : dpc'[c] = dpc[c]
    BY <1>4 DEF EDInv, EDTypeOK, Places
  <2>2. \A c \in ED!Daemons : EventsAt(c) BY DaemonFacts
  <2> QED BY <1>0, <1>3, <2>1, <2>2 DEF Quiet, Offers, EventsAt
<1>5. CASE ~shouldStop[d] /\ hand[d] = NULL
  <2>1. /\ dpc' = [dpc EXCEPT ![d] = "turn"]
        /\ UNCHANGED <<waiting, pc, current, context, frames, resumed>>
    BY <1>5 DEF ED!Answered, ED!vpVars
  <2>2. EDTypeOK' BY <1>0, <1>3, <1>4, <2>1 DEF EDInv, EDTypeOK
  <2> QED BY <1>0, <1>1, <1>3, <1>4, <2>1, <2>2, AloneStep
<1>6. CASE ~shouldStop[d] /\ hand[d] # NULL
  <2>0. PICK i \in DOMAIN waiting[d] : i = 1 BY <1>2, DaemonFacts, TailAsks
  <2> DEFINE s == Tail(waiting[d])
             h == waiting[d][i]
             k == hand[d]
  <2>1. /\ dpc' = [dpc EXCEPT ![d] = "turn"] /\ ED!Answer({Head(waiting[d]).vp}, k)
        /\ waiting' = [waiting EXCEPT ![d] = s] /\ k \in ED!Jobs /\ k \in Handed
    BY <1>2, <1>6 DEF ED!Answered, Handed
  <2>2. /\ s \in Seq(Events) /\ Head(waiting[d]) = h
        /\ \A v : Asked(waiting[d], v) <=> Asked(s, v) \/ Asks(h, v)
        /\ \A v : OnceIn(waiting[d], v) => OnceIn(s, v) /\ ~(Asked(s, v) /\ Asks(h, v))
        /\ \A m \in DOMAIN s : \E n \in DOMAIN waiting[d] : s[m] = waiting[d][n]
    BY <1>2, <2>0, DaemonFacts, TailAsks
  <2>3. h \in Events /\ h.type = "GetJob" /\ h.vp \in ED!VPs /\ pc[h.vp] = "blocked"
    <3>1. h \in Events /\ h.type = "GetJob" BY <2>2, DaemonFacts DEF EventsAt
    <3> QED BY <2>2, <3>1, AskerBlocked
  <2>4. /\ current' = [v \in ED!VPs |-> IF v = h.vp THEN k ELSE current[v]]
        /\ resumed' = [v \in ED!VPs |-> resumed[v] \/ v = h.vp]
        /\ UNCHANGED <<pc, context, frames>>
    BY <2>1, <2>2 DEF ED!Answer
  <2>5. Offers(d, k) BY <1>0 DEF Offers
  <2> HIDE DEF s, h
  <2>6. EDTypeOK'
    <3>1. waiting' \in [ED!Daemons -> Seq(Events)] BY <2>1, <2>2 DEF EDInv, EDTypeOK
    <3>2. current' \in [ED!VPs -> Handed] /\ resumed' \in [ED!VPs -> BOOLEAN]
      BY <2>1, <2>4 DEF EDInv, EDTypeOK
    <3> QED BY <1>0, <1>3, <1>4, <2>1, <2>4, <3>1, <3>2 DEF EDInv, EDTypeOK
  <2>7. (\A v \in ED!VPs : OneAt(v)') /\ (\A c \in ED!Daemons : EventsAt(c)')
    <3>1. \A c \in ED!Daemons :
               /\ Quiet(c)
               /\ dpc'[c] = "handle" => dpc[c] = "handle" /\ hand'[c] = hand[c]
               /\ dpc[c] = "handle" => dpc'[c] = "handle" \/ hand[c].type # "GetJob"
               /\ dpc'[c] = "answer" => hand'[c] \in Handed
               /\ dpc'[c] \in {"blocking", "count", "counted", "answer"}
                    => waiting[c] # <<>> /\ c # d
      BY <1>4, <2>1
    <3>2. UNCHANGED <<pc, frames>> BY <2>4
    <3> QED BY <2>1, <2>2, <2>4, <3>1, <3>2, ResumeOne DEF h
  <2>8. PICK j \in ED!Jobs : j = k BY <2>1
  <2>9. /\ HeldAt(j) /\ EndAt(j) /\ Offers(d, j) /\ ~Unclaimed(j) /\ state[j] # "finished"
        /\ \A w \in ED!VPs : ~Has(w, j)
    BY <2>5, <2>8 DEF EDInv, JobAt, HeldAt, EndAt
  <2> HIDE DEF k
  <2>10. HeldAt(j)' /\ EndAt(j)' /\ state'[j] # "none"
    <3>1. \A w \in ED!VPs : Has(w, j)' => w = h.vp
      BY <2>4, <2>9 DEF Has, Running, Given
    <3>2. \A c \in ED!Daemons : ~Offers(c, j)' BY <1>4, <2>1, <2>9 DEF HeldAt
    <3>3. ~Unclaimed(j)' /\ state'[j] # "finished" /\ state'[j] # "none"
      BY <1>0, <2>9 DEF Unclaimed
    <3> QED BY <3>1, <3>2, <3>3 DEF HeldAt, EndAt
  <2>11. (\A v \in ED!VPs : StackAt(v)') /\ (\A c \in ED!Jobs : JobAt(c)')
    <3>1. \A w \in ED!VPs : \/ current'[w] = current[w]
                            \/ /\ pc[w] = "blocked" /\ current'[w] \in {j, NULL}
                               /\ ~Running(w, current'[w])
      BY <2>3, <2>4, <2>8, <2>9 DEF Has
    <3>2. j \in Handed BY <2>1, <2>8
    <3>3. /\ \A c \in ED!Daemons : dpc'[c] = "start" => dpc[c] = "start"
          /\ \A c \in ED!Jobs \ {j} : /\ state'[c] = state[c]
                                      /\ \A x \in ED!Daemons : Offers(x, c)' => Offers(x, c)
      BY <1>0, <1>4, <2>1
    <3>4. UNCHANGED <<handles, context, frames, pc>> BY <1>0, <2>4
    <3> QED BY <2>10, <3>1, <3>2, <3>3, <3>4, DaemonStep
  <2> QED BY <2>6, <2>7, <2>11 DEF EDInv
<1>7. CASE shouldStop[d]
  <2> DEFINE vs == {waiting[d][i].vp : i \in DOMAIN waiting[d]}
  <2>1. /\ dpc' = [dpc EXCEPT ![d] = "stop"]
        /\ waiting' = [waiting EXCEPT ![d] = <<>>]
        /\ current' = [v \in ED!VPs |-> IF v \in vs THEN NULL ELSE current[v]]
        /\ resumed' = [v \in ED!VPs |-> resumed[v] \/ v \in vs]
        /\ UNCHANGED <<pc, context, frames>>
    BY <1>7 DEF ED!Answered, ED!Answer
  <2>2. \A i \in DOMAIN waiting[d] :
           /\ waiting[d][i] \in Events /\ waiting[d][i].type = "GetJob"
           /\ ED!Boss(waiting[d][i].vp) = d /\ pc[waiting[d][i].vp] = "blocked"
    <3>1. \A i \in DOMAIN waiting[d] : waiting[d][i] \in Events /\ waiting[d][i].type = "GetJob"
      BY DaemonFacts DEF EventsAt
    <3> QED BY <3>1, AskerBlocked
  <2>3. \A v \in ED!VPs : v \in vs <=> (ED!Boss(v) = d /\ Waits(v))
    BY <2>2 DEF Waits, Asked, Asks
  <2>4. \A v \in ED!VPs : v \in vs => pc[v] = "blocked" BY <2>2
  <2> HIDE DEF vs
  <2>5. /\ waiting'[d] = <<>> /\ waiting' \in [ED!Daemons -> Seq(Events)]
        /\ \A c \in ED!Daemons \ {d} : waiting'[c] = waiting[c]
    BY <2>1 DEF EDInv, EDTypeOK
  <2>6. EDTypeOK'
    <3>1. current' \in [ED!VPs -> Handed] /\ resumed' \in [ED!VPs -> BOOLEAN]
      BY <1>1, <2>1 DEF EDInv, EDTypeOK
    <3> QED BY <1>0, <1>3, <1>4, <2>1, <2>5, <3>1 DEF EDInv, EDTypeOK
  <2>7. ASSUME NEW v \in ED!VPs PROVE OneAt(v)'
    <3>1. OneAt(v) /\ ED!Boss(v) \in ED!Daemons /\ resumed[v] \in BOOLEAN BY OwnFacts
    <3>2. CASE ED!Boss(v) # d
      <4>1. resumed'[v] = resumed[v] BY <2>1, <2>3, <3>1, <3>2
      <4> QED BY <1>4, <2>1, <2>5, <3>1, <3>2, <4>1, OneKept
    <3>3. CASE ED!Boss(v) = d
      <4>1. ~Waits(v)' /\ OnceIn(waiting[ED!Boss(v)], v)'
        BY <2>5, <3>3 DEF Waits, Asked, OnceIn
      <4>2. (Queued(v)' <=> Queued(v)) /\ ~InHand(v) /\ ~InHand(v)'
        BY <1>0, <1>4, <2>1, <3>3 DEF Queued, InHand
      <4>3. resumed'[v] = (resumed[v] \/ Waits(v)) BY <2>1, <2>3, <3>3
      <4> QED BY <1>0, <2>1, <3>1, <3>3, <4>1, <4>2, <4>3 DEF OneAt
    <3> QED BY <3>2, <3>3
  <2>8. ASSUME NEW c \in ED!Daemons PROVE EventsAt(c)'
    <3>1. \A i \in DOMAIN waiting'[c] : \E m \in DOMAIN waiting[c] : waiting'[c][i] = waiting[c][m]
      BY <2>5
    <3>2. /\ queue'[c] = queue[c] /\ queue[c] \in Seq(Events) /\ waiting'[c] \in Seq(Events)
          /\ frames' = frames
      BY <1>0, <2>1, <2>5, DaemonFacts
    <3>3. dpc'[c] \in {"blocking", "count", "counted", "answer"} => waiting'[c] # <<>>
      BY <1>4, <2>1, <2>5
    <3>4. /\ dpc'[c] = "handle" => dpc[c] = "handle" /\ hand'[c] = hand[c]
          /\ dpc'[c] = "answer" => hand'[c] \in Handed
      BY <1>4, <2>1
    <3> QED BY <3>1, <3>2, <3>3, <3>4, EventsKept
  <2>9. (\A v \in ED!VPs : StackAt(v)') /\ (\A j \in ED!Jobs : JobAt(j)')
    <3>1. \A w \in ED!VPs : \/ current'[w] = current[w]
                            \/ /\ pc[w] = "blocked" /\ current'[w] \in {NULL}
                               /\ ~Running(w, current'[w])
      BY <1>1, <2>1, <2>4, UnclaimedFresh
    <3>2. /\ \A c \in ED!Daemons : dpc'[c] = "start" => dpc[c] = "start"
          /\ \A j \in ED!Jobs : /\ state'[j] = state[j]
                                /\ \A c \in ED!Daemons : Offers(c, j)' => Offers(c, j)
      BY <1>0, <1>4, <2>1
    <3>3. UNCHANGED <<handles, context, frames, pc>> BY <1>0, <2>1
    <3> QED BY <1>1, <3>1, <3>2, <3>3, DaemonStep
  <2> QED BY <2>6, <2>7, <2>8, <2>9 DEF EDInv
<1> QED BY <1>5, <1>6, <1>7 DEF ED!Answered

-----------------------------------------------------------------------------
(* The theorems *)

LEMMA InitInv == ASSUME ED!Init PROVE EDInv
<1>1. /\ NULL \in Handed /\ "none" \in {"none", "ready", "running", "finished"}
      /\ "start" \in Places /\ "unborn" \in AtRun \cup InBody \cup Asking
      /\ <<>> \in Seq(Events) /\ <<>> \in Seq(Handed) /\ <<>> \in Seq(FrameOf)
      /\ {} \in SUBSET ED!Jobs
  BY DEF Handed, Places, AtRun
<1>2. EDTypeOK BY <1>1 DEF ED!Init, EDTypeOK, Fns
<1>3. ASSUME NEW v \in ED!VPs PROVE StackAt(v) /\ OneAt(v)
  <2>1. /\ frames[v] = <<>> /\ context[v] = <<>> /\ pc[v] = "unborn" /\ current[v] = NULL
        /\ ~resumed[v] /\ ED!Boss(v) \in ED!Daemons
    BY Constants DEF ED!Init
  <2>2. queue[ED!Boss(v)] = <<>> /\ waiting[ED!Boss(v)] = <<>> /\ dpc[ED!Boss(v)] = "start"
    BY <2>1 DEF ED!Init
  <2>3. StackAt(v)
    BY <2>1 DEF StackAt, ShapeAt, CodeAt, OnceAt, MainAt, FreshAt, JoinsAt, Helps, Asking, InBody
  <2>4. OneAt(v) BY <2>1, <2>2 DEF OneAt, OnceIn, Queued, Waits, InHand, Asked
  <2> QED BY <2>3, <2>4
<1>4. ASSUME NEW j \in ED!Jobs PROVE JobAt(j)
  <2>1. \A v \in ED!VPs : ~Has(v, j) BY DEF ED!Init, Has, Running, Given
  <2>2. \A d \in ED!Daemons : ~Offers(d, j) BY DEF ED!Init, Offers
  <2>3. \A b \in Fns : j \notin handles[b] BY DEF ED!Init, Fns
  <2>4. state[j] = "none" BY DEF ED!Init
  <2> QED BY <2>1, <2>2, <2>3, <2>4 DEF JobAt, HeldAt, EndAt, OwnerAt
<1>5. \A d \in ED!Daemons : EventsAt(d) BY DEF ED!Init, EventsAt
<1> QED BY <1>2, <1>3, <1>4, <1>5 DEF EDInv

LEMMA NextInv == ASSUME EDInv, [ED!Next]_ED!vars PROVE EDInv'
<1>1. ASSUME NEW d \in ED!Daemons, ED!Daemon(d) PROVE EDInv'
  BY <1>1, StartVPsStep, TurnStep, HandleEventStep, BlockingGetStep, AnsweredStep DEF ED!Daemon
<1>2. ASSUME NEW v \in ED!VPs, ED!VP(v) PROVE EDInv'
  <2>1. ASSUME NEW j \in ED!Jobs, ED!Create(v, j) \/ ED!JoinBegin(v, j) PROVE EDInv'
    BY <2>1, CreateStep, JoinBeginStep
  <2> QED
    BY <1>2, <2>1, GetJobStep, UnblockStep, JoinTurnStep, JoinStep, ReturnStep, EndOfJobStep,
       MainSteps DEF ED!VP
<1>3. CASE UNCHANGED ED!vars
  <2>1. UNCHANGED <<state, handles, dpc, queue, waiting, hand, shouldStop, pc, current, context,
                    frames, resumed>>
    BY <1>3 DEF ED!vars, ED!jobVars, ED!dVars, ED!vpVars
  <2>2. EDTypeOK' BY <2>1 DEF EDInv, EDTypeOK
  <2>3. ASSUME NEW v \in ED!VPs PROVE StackAt(v)' /\ OneAt(v)'
    <3>1. StackAt(v) /\ OneAt(v) BY DEF EDInv
    <3>2. StackAt(v)'
      BY <2>1, <3>1
      DEF StackAt, ShapeAt, CodeAt, OnceAt, MainAt, FreshAt, JoinsAt, Helps, Running, ED!Body
    <3>3. OneAt(v)' BY <2>1, <3>1 DEF OneAt, Queued, Waits, InHand
    <3> QED BY <3>2, <3>3
  <2>4. ASSUME NEW j \in ED!Jobs PROVE JobAt(j)'
    BY <2>1 DEF EDInv, JobAt, HeldAt, EndAt, OwnerAt, Has, Running, Given, Offers, Unclaimed,
         ED!Body
  <2>5. ASSUME NEW d \in ED!Daemons PROVE EventsAt(d)'
    BY <2>1 DEF EDInv, EventsAt, Home, ED!Joined
  <2> QED BY <2>2, <2>3, <2>4, <2>5 DEF EDInv
<1> QED BY <1>1, <1>2, <1>3 DEF ED!Next

\* The stacks of the VPs, the events and the owners of the jobs fit together in
\* every state that daemons and VPs reach: the inductive invariant.
THEOREM EventDaemonInvariant == ED!Spec => []EDInv
<1>1. ED!Init => EDInv BY InitInv
<1>2. EDInv /\ [ED!Next]_ED!vars => EDInv' BY NextInv
<1> QED BY <1>1, <1>2, PTL DEF ED!Spec

LEMMA OnceFromInv == ASSUME EDInv PROVE ED!RunOnce
<1>1. SUFFICES ASSUME NEW v \in ED!VPs, NEW i \in DOMAIN frames[v], frames[v][i].body # Main
               PROVE  /\ \A w \in ED!VPs : \A k \in DOMAIN frames[w] :
                            frames[v][i].body = frames[w][k].body => v = w /\ i = k
                      /\ state[frames[v][i].body] = "finished"
                            => i = Len(frames[v]) /\ pc[v] = "returned"
  BY DEF ED!RunOnce
<1>2. PICK j \in ED!Jobs : j = frames[v][i].body
  BY <1>1, OwnFacts DEF FrameOf, Fns
<1>3. HeldAt(j) /\ EndAt(j) /\ Has(v, j) BY <1>2 DEF EDInv, JobAt, Has, Running
<1>4. OnceAt(v) BY OwnFacts DEF StackAt
<1>5. ASSUME NEW w \in ED!VPs, NEW k \in DOMAIN frames[w], frames[w][k].body = j
      PROVE  v = w /\ i = k
  <2>1. Has(w, j) BY <1>5 DEF Has, Running
  <2>2. v = w BY <1>3, <2>1 DEF HeldAt
  <2> QED BY <1>2, <1>4, <1>5, <2>2 DEF OnceAt
<1>6. ASSUME state[j] = "finished" PROVE i = Len(frames[v]) /\ pc[v] = "returned"
  <2>1. pc[v] = "returned" /\ ED!Body(v) = j BY <1>3, <1>6 DEF EndAt
  <2>2. frames[v] # <<>> BY OwnFacts
  <2>3. Len(frames[v]) \in DOMAIN frames[v] /\ ED!Body(v) = frames[v][Len(frames[v])].body
    BY <2>2, OwnFacts, TopFacts DEF ED!Body
  <2> QED BY <1>2, <1>4, <2>1, <2>3 DEF OnceAt
<1> QED BY <1>2, <1>5, <1>6

LEMMA JobsRunOnceAlone == ED!Spec => []ED!RunOnce
BY EventDaemonInvariant, OnceFromInv, PTL

LEMMA SameCardinality == \A S : ED!Cardinality(S) = Cardinality(S)
<1>1. \A S : ED!IsFiniteSet(S) <=> IsFiniteSet(S) BY DEF ED!IsFiniteSet, IsFiniteSet
<1> QED BY <1>1 DEF ED!Cardinality, Cardinality

LEMMA AnswersFromInv == ASSUME EDInv PROVE ED!OneAnswerPerRequest
<1> SUFFICES ASSUME NEW v \in ED!VPs
             PROVE  Cardinality(ED!Tokens(v)) = IF pc[v] = "blocked" THEN 1 ELSE 0
  BY SameCardinality DEF ED!OneAnswerPerRequest
<1> DEFINE d == ED!Boss(v)
           q == {<<"queue", i>> : i \in {i \in DOMAIN queue[d] : Asks(queue[d][i], v)}}
           w == {<<"waiting", i>> : i \in {i \in DOMAIN waiting[d] : Asks(waiting[d][i], v)}}
           h == {<<"hand", x>> : x \in {x \in {hand[d]} : dpc[d] = "handle" /\ Asks(x, v)}}
           m == {<<"mutex", r>> : r \in {resumed[v]} \cap {TRUE}}
<1>1. ED!Tokens(v) = q \cup w \cup h \cup m
  BY DEF ED!Tokens, Asks
<1>2. OneAt(v) /\ resumed[v] \in BOOLEAN BY OwnFacts
<1>3. /\ ~Queued(v) => q = {}
      /\ Queued(v) /\ OnceIn(queue[d], v) => \E t : q = {t}
  <2>1. ~Queued(v) => q = {} BY DEF Queued, Asked
  <2>2. ASSUME Queued(v), OnceIn(queue[d], v) PROVE \E t : q = {t}
    <3>1. PICK i \in DOMAIN queue[d] : Asks(queue[d][i], v) BY <2>2 DEF Queued, Asked
    <3>2. q = {<<"queue", i>>} BY <2>2, <3>1 DEF OnceIn
    <3> QED BY <3>2
  <2> QED BY <2>1, <2>2
<1>4. /\ ~Waits(v) => w = {}
      /\ Waits(v) /\ OnceIn(waiting[d], v) => \E t : w = {t}
  <2>1. ~Waits(v) => w = {} BY DEF Waits, Asked
  <2>2. ASSUME Waits(v), OnceIn(waiting[d], v) PROVE \E t : w = {t}
    <3>1. PICK i \in DOMAIN waiting[d] : Asks(waiting[d][i], v) BY <2>2 DEF Waits, Asked
    <3>2. w = {<<"waiting", i>>} BY <2>2, <3>1 DEF OnceIn
    <3> QED BY <3>2
  <2> QED BY <2>1, <2>2
<1>5. /\ ~InHand(v) => h = {}
      /\ InHand(v) => h = {<<"hand", hand[d]>>}
  BY DEF InHand
<1>6. /\ ~resumed[v] => m = {}
      /\ resumed[v] => m = {<<"mutex", TRUE>>}
  BY <1>2
<1> HIDE DEF q, w, h, m, d
<1>7. CASE pc[v] = "blocked"
  <2>1. \E t : ED!Tokens(v) = {t}
    BY <1>1, <1>2, <1>3, <1>4, <1>5, <1>6, <1>7 DEF OneAt, d
  <2> QED BY <1>7, <2>1, FS_Singleton
<1>8. CASE pc[v] # "blocked"
  <2>1. ED!Tokens(v) = {}
    BY <1>1, <1>2, <1>3, <1>4, <1>5, <1>6, <1>8 DEF OneAt
  <2> QED BY <1>8, <2>1, FS_EmptySet
<1> QED BY <1>7, <1>8

LEMMA RequestsHaveOneAnswerAlone == ED!Spec => []ED!OneAnswerPerRequest
BY EventDaemonInvariant, AnswersFromInv, PTL

\* At most one waiting VP is in the join of a job: HandleEnd has no choice.
OneJoinerWaits ==
    \A d \in ED!Daemons : \A i, k \in DOMAIN waiting[d] :
        waiting[d][i].job # NULL /\ waiting[d][i].job = waiting[d][k].job => i = k

LEMMA JoinersFromInv == ASSUME EDInv PROVE OneJoinerWaits
<1>1. SUFFICES ASSUME NEW d \in ED!Daemons, NEW i \in DOMAIN waiting[d], NEW k \in DOMAIN waiting[d],
                      waiting[d][i].job # NULL, waiting[d][i].job = waiting[d][k].job
               PROVE  i = k
  BY DEF OneJoinerWaits
<1> DEFINE j == waiting[d][i].job
<1>2. ASSUME NEW x \in DOMAIN waiting[d], waiting[d][x].job = j
      PROVE  \E v \in ED!VPs, b \in Fns :
                /\ Asks(waiting[d][x], v) /\ ED!Boss(v) = d
                /\ j \in handles[b] /\ Running(v, b)
  <2> DEFINE e == waiting[d][x]
             v == e.vp
  <2>1. e \in Events /\ Home(d, e) /\ e.type = "GetJob" BY DaemonFacts DEF EventsAt
  <2>2. v \in ED!VPs /\ ED!Boss(v) = d /\ pc[v] = "blocked" BY <2>1, AskerBlocked
  <2>3. frames[v] # <<>> /\ j = ED!Joined(v)
    BY <1>1, <1>2, <2>1 DEF Home
  <2> HIDE DEF e, v
  <2>4. PICK n \in DOMAIN frames[v] : ED!Last(frames[v]) = frames[v][n]
    BY <2>2, <2>3, OwnFacts, TopFacts
  <2>5. frames[v][n].joins \in handles[frames[v][n].body] /\ frames[v][n].body \in Fns
    BY <2>2, <2>4, OwnFacts DEF StackAt, JoinsAt, FrameOf
  <2>6. j \in handles[frames[v][n].body] /\ Running(v, frames[v][n].body)
    BY <2>3, <2>4, <2>5 DEF ED!Joined, Running
  <2>7. Asks(waiting[d][x], v) BY <2>1 DEF Asks, e, v
  <2> QED BY <2>2, <2>5, <2>6, <2>7
<1>3. PICK v \in ED!VPs, b \in Fns : /\ Asks(waiting[d][i], v) /\ ED!Boss(v) = d
                                     /\ j \in handles[b] /\ Running(v, b)
  BY <1>2
<1>4. PICK w \in ED!VPs, c \in Fns : /\ Asks(waiting[d][k], w) /\ ED!Boss(w) = d
                                     /\ j \in handles[c] /\ Running(w, c)
  BY <1>1, <1>2
<1>5. b = c
  <2>1. j \in ED!Jobs BY <1>3 DEF EDInv, EDTypeOK
  <2> QED BY <1>3, <1>4, <2>1 DEF EDInv, JobAt, OwnerAt
<1>6. v = w
  <2>1. CASE b \in ED!Jobs BY <1>3, <1>4, <1>5, <2>1 DEF EDInv, JobAt, HeldAt, Has
  <2>2. CASE b = Main
    <3>1. MainAt(v) /\ MainAt(w) BY OwnFacts DEF StackAt
    <3> QED BY <1>3, <1>4, <1>5, <2>2, <3>1 DEF MainAt, Running
  <2> QED BY <2>1, <2>2 DEF Fns
<1>7. OnceIn(waiting[d], v) BY <1>3, OwnFacts DEF OneAt
<1> QED BY <1>3, <1>4, <1>6, <1>7 DEF OnceIn

\* An EndOfJob event finds at most one VP to resume.
THEOREM JoinersUnique == ED!Spec => []OneJoinerWaits
BY EventDaemonInvariant, JoinersFromInv, PTL

-----------------------------------------------------------------------------
(* The prototype in Prototypes *)

LEMMA OtherMachines ==
    /\ Init /\ machine = "event" => ED!Init
    /\ [Next]_vars => machine' = machine
    /\ [Next]_vars /\ machine = "event" => [ED!Next]_ED!vars
<1>1. Init /\ machine = "event" => ED!Init BY DEF Init
<1>2. [Next]_vars => machine' = machine BY DEF Next, Event, Monitor, ProActive, vars
<1>3. ASSUME UNCHANGED vars PROVE UNCHANGED ED!vars
  BY <1>3 DEF vars, daemonVars, eventVars, monitorVars, proActiveVars,
              ED!vars, ED!jobVars, ED!vmVars, ED!dVars, ED!vpVars
<1>4. [Next]_vars /\ machine = "event" => [ED!Next]_ED!vars
  BY <1>3 DEF Next, Event, Monitor, ProActive
<1> QED BY <1>1, <1>2, <1>4

LEMMA OneMachine ==
    Spec => [](machine # "event") \/ ([](machine = "event") /\ ED!Spec)
<1>1. Init /\ machine = "event" => ED!Init BY OtherMachines
<1>2. machine # "event" /\ [Next]_vars => (machine # "event")' BY OtherMachines
<1>3. machine = "event" /\ [Next]_vars => (machine = "event")' BY OtherMachines
<1>4. machine = "event" /\ [Next]_vars => [ED!Next]_ED!vars BY OtherMachines
<1>5. machine = "event" \/ machine # "event" OBVIOUS
<1> QED BY <1>1, <1>2, <1>3, <1>4, <1>5, PTL DEF Spec, ED!Spec

\* However a job reached its VP, found in the graph, announced, forwarded or
\* joined, one VP is in its body, and nobody is after its end.
THEOREM JobsRunOnce == Spec => []RunOnce
<1>1. ED!RunOnce \/ machine # "event" => RunOnce BY DEF RunOnce
<1> QED BY <1>1, OneMachine, JobsRunOnceAlone, PTL

\* A VP that blocks on a request has one answer to come, in one place, and no
\* other VP has one, so its mutex works as a semaphore.
THEOREM RequestsHaveOneAnswer == Spec => []OneAnswerPerRequest
<1>1. ED!OneAnswerPerRequest \/ machine # "event" => OneAnswerPerRequest
  BY DEF OneAnswerPerRequest
<1> QED BY <1>1, OneMachine, RequestsHaveOneAnswerAlone, PTL
=============================================================================
