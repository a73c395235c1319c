------------------------- MODULE ManagerWorkerProofs -------------------------
(***************************************************************************)
(* Proofs about ManagerWorker for every number of managers, of workers and *)
(* of pieces of work.  Work and requests for work are tokens that travel   *)
(* through sequences owned by different threads: each is shown to be at    *)
(* one location, and the count of blocked managers to be exact.            *)
(***************************************************************************)
EXTENDS ManagerWorker, FiniteSetTheorems, SequenceTheorems, TLAPS

MStates == {"start", "lock", "relock", "top", "handle", "blocking", "cwait",
            "cwoken", "got", "tosleep", "sleep", "stop", "done"}
WStates == {"unborn", "request", "blocked", "run", "post", "gone"}
Events  == {"PostWork"} \X Nat \cup {"GetWork"} \X Workers

InSeq(e, s) == \E i \in 1 .. Len(s) : s[i] = e
Injective(s) == \A i, k \in 1 .. Len(s) : s[i] = s[k] => i = k

MWTypeOK ==
    /\ mpc \in [Managers -> MStates]
    /\ queue \in [Managers -> Seq(Events)] /\ waiting \in [Managers -> Seq(Workers)]
    /\ hand \in [Managers -> {NULL} \cup Events \cup {"Work"} \X Nat]
    /\ wpc \in [Workers -> WStates] /\ current \in [Workers -> Nat \cup {NULL}]
    /\ resumed \in [Workers -> BOOLEAN]
    /\ pool \in Seq(Nat) /\ created \in Nat /\ managersWaiting \in Int

\* A manager has an event in its hand while it handles one, and work or no work
\* when it has an answer; a worker runs with work, and is resumed when blocked.
HandsFit ==
    /\ \A m \in Managers :
          /\ mpc[m] = "handle" => hand[m] \in Events
          /\ mpc[m] = "got" => hand[m] \in {NULL} \cup {"Work"} \X Nat
          /\ mpc[m] \notin {"handle", "got"} => hand[m] = NULL
    /\ \A w \in Workers : wpc[w] = "run" => current[w] \in Nat
    /\ \A w \in Workers : resumed[w] => wpc[w] = "blocked"

\* Nobody works before main or its manager starts it.
Unborn ==
    /\ main[1] \in {"start", "signal"} => wpc[0] = "unborn"
    /\ \A m \in Managers : mpc[m] = "start" => \A w \in Mine(m) \ {0} : wpc[w] = "unborn"

Asking(w) == wpc[w] = "blocked" /\ ~resumed[w]

\* A request is at one of three places with the worker's own manager, and the
\* worker is blocked until it is served.
Requests ==
    /\ \A m \in Managers, w \in Workers :
          /\ InSeq(<<"GetWork", w>>, queue[m]) =>
                /\ Asking(w) /\ Boss(w) = m
                /\ hand[m] # <<"GetWork", w>> /\ ~InSeq(w, waiting[m])
          /\ hand[m] = <<"GetWork", w>> =>
                Asking(w) /\ Boss(w) = m /\ ~InSeq(w, waiting[m])
          /\ InSeq(w, waiting[m]) => Asking(w) /\ Boss(w) = m
    /\ \A m \in Managers : Injective(queue[m]) /\ Injective(waiting[m])

\* Where work can be, and whether x is there.
Locations ==
    {"pool", "done"} \X {0} \cup {"queue", "hand"} \X Managers \cup {"worker"} \X Workers

Holds(l, x) ==
    \/ l[1] = "pool" /\ InSeq(x, pool)
    \/ l[1] = "queue" /\ InSeq(<<"PostWork", x>>, queue[l[2]])
    \/ l[1] = "hand" /\ hand[l[2]] \in {"PostWork", "Work"} \X {x}
    \/ l[1] = "worker" /\ current[l[2]] = x /\ (resumed[l[2]] \/ wpc[l[2]] = "run")
    \/ l[1] = "done" /\ x \in done

OneLocation(x) == \E l \in Locations : \A k \in Locations : Holds(k, x) <=> k = l

\* Work that was created is at one location, and no other work is at any.
Works ==
    /\ \A x \in 1 .. created : OneLocation(x)
    /\ \A x \in Nat \ (1 .. created) : \A k \in Locations : ~Holds(k, x)
    /\ done \subseteq Nat /\ Injective(pool)

\* A worker that posts work then asks for some: its request comes after.
FollowedBy(m, i, w) ==
    /\ Boss(w) = m
    /\ \/ wpc[w] = "request"
       \/ \E k \in 1 .. Len(queue[m]) : k > i /\ queue[m][k] = <<"GetWork", w>>

RequestFollows ==
    \A m \in Managers : \A i \in 1 .. Len(queue[m]) :
        queue[m][i][1] = "PostWork" => \E w \in Workers : FollowedBy(m, i, w)

\* All the workers of a manager at the controller wait, and while there is work
\* in the pool not all the workers of all managers do.
AllWait ==
    /\ \A m \in Managers : mpc[m] \in {"blocking", "cwait", "cwoken", "got"} =>
          Len(waiting[m]) = WorkersPerManager
    /\ pool # <<>> => \E m \in Managers : Len(waiting[m]) # WorkersPerManager

\* The managers that blocking_get_work counts.
ToldToStop(m) == mpc[m] \in {"stop", "done"} \/ (mpc[m] = "got" /\ hand[m] = NULL)
CountedManagers == {m \in Managers : mpc[m] \in {"cwait", "cwoken"} \/ ToldToStop(m)}

\* When all are counted there is nothing left to do, and only then is anybody
\* told to stop.
Quiet ==
    /\ pool = <<>>
    /\ \A m \in Managers : /\ m \in CountedManagers
                           /\ hand[m] = NULL /\ queue[m] = <<>>
    /\ \A w \in Workers : /\ wpc[w] \in {"blocked", "gone"}
                          /\ resumed[w] => current[w] = NULL

StopWhenQuiet ==
    /\ managersWaiting = Cardinality(CountedManagers)
    /\ managersWaiting = NumManagers => Quiet
    /\ \A m \in Managers : ToldToStop(m) => managersWaiting = NumManagers
    /\ \A w \in Workers : wpc[w] = "gone" \/ (resumed[w] /\ current[w] = NULL) =>
          managersWaiting = NumManagers

IInv ==
    /\ MWTypeOK /\ HandsFit /\ Unborn /\ Requests /\ Works
    /\ RequestFollows /\ AllWait /\ StopWhenQuiet
-----------------------------------------------------------------------------
(* Sequences *)

LEMMA EmptyFact ==
  ASSUME NEW e
  PROVE  ~InSeq(e, <<>>) /\ Injective(<<>>) /\ Len(<<>>) = 0
  BY EmptySeq DEF InSeq, Injective

\* A member of a sequence has its type.
LEMMA MemberFact ==
  ASSUME NEW S, NEW s \in Seq(S), NEW e, InSeq(e, s)
  PROVE  e \in S /\ s # <<>>
  BY ElementOfSeq, EmptySeq DEF InSeq

\* An element added to a sequence that did not have it.
LEMMA AppendFact ==
  ASSUME NEW S, NEW s \in Seq(S), NEW e \in S
  PROVE  /\ Append(s, e) \in Seq(S) /\ Len(Append(s, e)) = Len(s) + 1
         /\ Len(s) \in Nat /\ Append(s, e) # <<>>
         /\ \A i \in 1 .. Len(s) : Append(s, e)[i] = s[i]
         /\ Append(s, e)[Len(s) + 1] = e
         /\ \A x : InSeq(x, Append(s, e)) <=> InSeq(x, s) \/ x = e
         /\ Injective(s) /\ ~InSeq(e, s) => Injective(Append(s, e))
<1>. DEFINE t == Append(s, e)
            n == Len(s)
<1>1. /\ t \in Seq(S) /\ Len(t) = n + 1 /\ n \in Nat /\ t # <<>>
      /\ \A i \in 1 .. n : t[i] = s[i]
      /\ t[n + 1] = e
  BY AppendProperties, LenProperties
<1>. HIDE DEF t
<1>2. ASSUME NEW x PROVE InSeq(x, t) <=> InSeq(x, s) \/ x = e
  BY <1>1 DEF InSeq
<1>3. ASSUME Injective(s), ~InSeq(e, s) PROVE Injective(t)
  BY <1>1, <1>3 DEF InSeq, Injective
<1>. QED BY <1>1, <1>2, <1>3 DEF t

\* The first element taken from a sequence that has no element twice.
LEMMA TailFact ==
  ASSUME NEW S, NEW s \in Seq(S), s # <<>>
  PROVE  /\ Head(s) \in S /\ InSeq(Head(s), s) /\ Head(s) = s[1]
         /\ Tail(s) \in Seq(S) /\ Len(Tail(s)) = Len(s) - 1 /\ Len(s) \in Nat \ {0}
         /\ \A i \in 1 .. Len(s) - 1 : Tail(s)[i] = s[i + 1]
         /\ Injective(s) =>
               /\ Injective(Tail(s))
               /\ \A x : InSeq(x, Tail(s)) <=> InSeq(x, s) /\ x # Head(s)
<1>. DEFINE t == Tail(s)
            n == Len(s)
<1>1. /\ Head(s) \in S /\ t \in Seq(S) /\ Len(t) = n - 1 /\ n \in Nat \ {0}
      /\ \A i \in 1 .. n - 1 : t[i] = s[i + 1]
  BY HeadTailProperties, EmptySeq
<1>2. Head(s) = s[1] /\ InSeq(Head(s), s)
  BY <1>1 DEF InSeq
<1>. HIDE DEF t
<1>3. ASSUME Injective(s)
      PROVE  Injective(t) /\ \A x : InSeq(x, t) <=> InSeq(x, s) /\ x # Head(s)
  <2>1. Injective(t)
    BY <1>1, <1>3 DEF Injective
  <2>2. ASSUME NEW x, InSeq(x, t) PROVE InSeq(x, s) /\ x # Head(s)
    <3>1. PICK i \in 1 .. n - 1 : t[i] = x
      BY <1>1, <2>2 DEF InSeq
    <3>2. i + 1 \in 1 .. n /\ i + 1 # 1 /\ s[i + 1] = x
      BY <1>1, <3>1
    <3>. QED BY <1>1, <1>2, <1>3, <3>2 DEF InSeq, Injective
  <2>3. ASSUME NEW x, InSeq(x, s), x # Head(s) PROVE InSeq(x, t)
    <3>1. PICK i \in 1 .. n : s[i] = x
      BY <2>3 DEF InSeq
    <3>2. i # 1
      BY <1>2, <2>3, <3>1
    <3>3. i - 1 \in 1 .. n - 1 /\ (i - 1) + 1 = i
      BY <1>1, <3>1, <3>2
    <3>4. t[i - 1] = x
      BY <1>1, <3>1, <3>3
    <3>. QED BY <1>1, <3>3, <3>4 DEF InSeq
  <2>. QED BY <2>1, <2>2, <2>3
<1>. QED BY <1>1, <1>2, <1>3 DEF t

\* A sequence without repetition of members of a set is no longer than the set
\* is large, and when it is as long it has them all.
LEMMA InjectiveFact ==
  ASSUME NEW S, NEW s \in Seq(S), NEW T, IsFiniteSet(T), Injective(s),
         \A x : InSeq(x, s) => x \in T
  PROVE  /\ Len(s) \in Nat /\ Len(s) <= Cardinality(T)
         /\ Len(s) = Cardinality(T) => \A x \in T : InSeq(x, s)
<1>. DEFINE n == Len(s)
            f == [i \in 1 .. n |-> s[i]]
<1>1. n \in Nat
  BY LenProperties
<1>2. f \in Injection(1 .. n, T)
  BY DEF Injection, IsInjective, Injective, InSeq
<1>3. IsFiniteSet(1 .. n) /\ Cardinality(1 .. n) = n
  BY <1>1, FS_Interval
<1>4. /\ n <= Cardinality(T)
      /\ n = Cardinality(T) => f \in Surjection(1 .. n, T)
  BY <1>2, <1>3, FS_Injection
<1>5. ASSUME n = Cardinality(T), NEW x \in T PROVE InSeq(x, s)
  BY <1>4, <1>5 DEF Surjection, InSeq
<1>. QED BY <1>1, <1>4, <1>5

-----------------------------------------------------------------------------
(* Managers and their workers *)

\* Every worker has a manager.
LEMMA BossFact ==
  ASSUME NEW w \in Workers
  PROVE  /\ Boss(w) \in Managers
         /\ Boss(w) * WorkersPerManager <= w
         /\ w < Boss(w) * WorkersPerManager + WorkersPerManager
<1>. DEFINE W == WorkersPerManager
            b == w \div W
<1>1. W \in Nat \ {0} /\ NumManagers \in Nat \ {0} /\ w \in Nat
  BY ManagerWorkerAssumption DEF Workers
<1>2. b \in Nat /\ b * W <= w /\ w < b * W + W
  BY <1>1
<1>3. b < NumManagers
  BY <1>1, <1>2 DEF Workers
<1>. QED BY <1>1, <1>2, <1>3 DEF Boss, Managers
\* A manager has WorkersPerManager workers.
LEMMA MineFact ==
  ASSUME NEW m \in Managers
  PROVE  IsFiniteSet(Mine(m)) /\ Cardinality(Mine(m)) <= WorkersPerManager
<1>. DEFINE W == WorkersPerManager
            I == m * W .. m * W + W - 1
<1>1. W \in Nat \ {0} /\ m \in Nat
  BY ManagerWorkerAssumption DEF Managers
<1>2. m * W \in Nat
  BY <1>1
<1>3. Mine(m) \subseteq I
  BY <1>1, <1>2, BossFact DEF Mine, Boss, Workers
<1>4. IsFiniteSet(I) /\ Cardinality(I) = W
  BY <1>1, <1>2, FS_Interval
<1>. QED BY <1>3, <1>4, FS_Subset

\* No more workers wait than a manager has; when that many do, it is all of them.
LEMMA WaitersFact ==
  ASSUME MWTypeOK, Requests, NEW m \in Managers
  PROVE  /\ Len(waiting[m]) \in Nat /\ Len(waiting[m]) <= WorkersPerManager
         /\ Len(waiting[m]) = WorkersPerManager =>
               \A w \in Workers : Boss(w) = m => InSeq(w, waiting[m])
<1>1. waiting[m] \in Seq(Workers) /\ Injective(waiting[m])
  BY DEF MWTypeOK, Requests
<1>2. \A x : InSeq(x, waiting[m]) => x \in Mine(m)
  BY <1>1, MemberFact DEF Requests, Mine, Boss
<1>3. /\ Len(waiting[m]) \in Nat /\ Len(waiting[m]) <= Cardinality(Mine(m))
      /\ Len(waiting[m]) = Cardinality(Mine(m)) =>
            \A w \in Mine(m) : InSeq(w, waiting[m])
  BY <1>1, <1>2, MineFact, InjectiveFact
<1>4. Cardinality(Mine(m)) \in Nat /\ Cardinality(Mine(m)) <= WorkersPerManager
  BY MineFact, FS_CardinalityType
<1>5. WorkersPerManager \in Nat
  BY ManagerWorkerAssumption
<1>6. ASSUME Len(waiting[m]) = WorkersPerManager, NEW w \in Workers, Boss(w) = m
      PROVE  InSeq(w, waiting[m])
  <2>1. Len(waiting[m]) = Cardinality(Mine(m))
    BY <1>3, <1>4, <1>5, <1>6
  <2>2. w \in Mine(m)
    BY <1>6 DEF Mine, Boss
  <2>. QED BY <1>3, <2>1, <2>2
<1>7. Len(waiting[m]) <= WorkersPerManager
  BY <1>3, <1>4, <1>5
<1>. QED BY <1>3, <1>6, <1>7

\* There are NumManagers managers, and the blocking ones among them are counted.
LEMMA CountFact ==
  /\ IsFiniteSet(Managers) /\ Cardinality(Managers) = NumManagers
  /\ IsFiniteSet(CountedManagers) /\ Cardinality(CountedManagers) \in Nat
  /\ Cardinality(CountedManagers) <= NumManagers
  /\ Cardinality(CountedManagers) = NumManagers => CountedManagers = Managers
<1>1. IsFiniteSet(Managers) /\ Cardinality(Managers) = NumManagers
  BY FS_Interval, ManagerWorkerAssumption DEF Managers
<1>2. CountedManagers \subseteq Managers
  BY DEF CountedManagers
<1>. QED BY <1>1, <1>2, FS_Subset, FS_CardinalityType

\* NULL is no work, no event and no answer.
LEMMA NullFact ==
  /\ NULL \notin Nat /\ NULL \notin Events /\ NULL \notin {"Work"} \X Nat
  /\ Workers \subseteq Nat
  /\ \A x \in Nat, s \in {"GetWork", "PostWork", "Work"} : NULL # <<s, x>>
<1>1. Workers \subseteq Nat
  BY DEF Workers
<1>2. ASSUME NEW x \in Nat, NEW s \in {"GetWork", "PostWork", "Work"} PROVE NULL # <<s, x>>
  <2>1. <<s, x>> \in {"GetWork", "PostWork", "Work"} \X Nat
    OBVIOUS
  <2>. QED BY <2>1, ManagerWorkerAssumption
<1>3. NULL \notin Nat /\ NULL \notin Events /\ NULL \notin {"Work"} \X Nat
  BY <1>1, ManagerWorkerAssumption DEF Events
<1>. QED BY <1>1, <1>2, <1>3

-----------------------------------------------------------------------------
(* Frames: what keeps each part of the invariant *)

\* No work moves.
LEMMA WorksStay ==
  ASSUME Works, created' = created, done' \subseteq Nat, Injective(pool'),
         \A x \in Nat, l \in Locations : Holds(l, x)' <=> Holds(l, x)
  PROVE  Works'
<1>1. ASSUME NEW x \in 1 .. created PROVE OneLocation(x)'
  <2>1. PICK l \in Locations : \A k \in Locations : Holds(k, x) <=> k = l
    BY DEF Works, OneLocation
  <2>. QED BY <2>1 DEF OneLocation, Locations, Managers, Workers
<1>. QED BY <1>1 DEF Works, Locations, Managers, Workers

\* Work y goes from one location to another.
LEMMA WorkMoves ==
  ASSUME Works, created' = created, created \in Nat, done' \subseteq Nat, Injective(pool'),
         NEW y \in Nat, NEW from \in Locations, NEW to \in Locations, Holds(from, y),
         from # to,
         \A x \in Nat, l \in Locations \ {from, to} : Holds(l, x)' <=> Holds(l, x),
         \A x \in Nat : Holds(from, x)' <=> Holds(from, x) /\ x # y,
         \A x \in Nat : Holds(to, x)' <=> Holds(to, x) \/ x = y
  PROVE  Works'
<1>1. y \in 1 .. created
  BY DEF Works
<1>2. \A k \in Locations : Holds(k, y) <=> k = from
  BY <1>1 DEF Works, OneLocation
<1>3. \A x \in Nat, l \in Locations :
         Holds(l, x)' <=> (IF x = y THEN l = to ELSE Holds(l, x))
  BY <1>2
<1>4. ASSUME NEW x \in 1 .. created PROVE OneLocation(x)'
  <2>1. CASE x = y
    BY <1>3, <2>1 DEF OneLocation, Locations, Managers, Workers
  <2>2. CASE x # y
    <3>1. PICK l \in Locations : \A k \in Locations : Holds(k, x) <=> k = l
      BY DEF Works, OneLocation
    <3>. QED BY <1>3, <2>2, <3>1 DEF OneLocation, Locations, Managers, Workers
  <2>. QED BY <2>1, <2>2
<1>. QED BY <1>1, <1>3, <1>4 DEF Works, Locations, Managers, Workers

\* New work appears at one location.
LEMMA WorkAppears ==
  ASSUME Works, created \in Nat, created' = created + 1, done' \subseteq Nat,
         Injective(pool'), NEW to \in Locations,
         \A x \in Nat, l \in Locations \ {to} : Holds(l, x)' <=> Holds(l, x),
         \A x \in Nat : Holds(to, x)' <=> Holds(to, x) \/ x = created + 1
  PROVE  Works'
<1>1. \A k \in Locations : ~Holds(k, created + 1)
  BY DEF Works
<1>2. \A x \in Nat, l \in Locations :
         Holds(l, x)' <=> (IF x = created + 1 THEN l = to ELSE Holds(l, x))
  BY <1>1
<1>3. ASSUME NEW x \in 1 .. created + 1 PROVE OneLocation(x)'
  <2>1. CASE x = created + 1
    BY <1>2, <2>1 DEF OneLocation, Locations, Managers, Workers
  <2>2. CASE x # created + 1
    <3>1. PICK l \in Locations : \A k \in Locations : Holds(k, x) <=> k = l
      BY <2>2 DEF Works, OneLocation
    <3>. QED BY <1>2, <2>2, <3>1 DEF OneLocation, Locations, Managers, Workers
  <2>. QED BY <2>1, <2>2
<1>. QED BY <1>2, <1>3 DEF Works, Locations, Managers, Workers

\* While not all managers are counted nobody is told to stop.
LEMMA RunningFact ==
  ASSUME StopWhenQuiet, managersWaiting # NumManagers
  PROVE  /\ managersWaiting = Cardinality(CountedManagers)
         /\ \A m \in Managers : ~ToldToStop(m)
         /\ \A w \in Workers : wpc[w] # "gone" /\ ~(resumed[w] /\ current[w] = NULL)
  BY DEF StopWhenQuiet

LEMMA StillRunning ==
  ASSUME managersWaiting' # NumManagers, managersWaiting' = Cardinality(CountedManagers'),
         \A m \in Managers : ~ToldToStop(m)',
         \A w \in Workers : wpc'[w] # "gone" /\ ~(resumed'[w] /\ current'[w] = NULL)
  PROVE  StopWhenQuiet'
  BY DEF StopWhenQuiet, Managers, Workers

\* A step of the running program in which no manager blocks or unblocks.
LEMMA CountStays ==
  ASSUME StopWhenQuiet, managersWaiting # NumManagers, managersWaiting' = managersWaiting,
         \A m \in Managers : /\ m \in CountedManagers' <=> m \in CountedManagers
                             /\ ~ToldToStop(m)',
         \A w \in Workers : wpc'[w] # "gone" /\ ~(resumed'[w] /\ current'[w] = NULL)
  PROVE  StopWhenQuiet'
<1>1. CountedManagers' = CountedManagers
  BY DEF CountedManagers, Managers
<1>. QED BY <1>1, RunningFact, StillRunning
-----------------------------------------------------------------------------
(* Steps that touch neither work nor requests *)

\* A manager goes on within the loop of run, or among the ones that stop.
Idling(from, to) ==
    \/ from = to
    \/ from \in {"lock", "relock", "top"} /\ to = "blocking"
    \/ {from, to} \subseteq {"lock", "relock", "top", "tosleep", "sleep"}
    \/ {from, to} \subseteq {"stop", "done"}

LEMMA QuietStep ==
  ASSUME IInv,
         UNCHANGED <<queue, waiting, hand, wkrVars, pool, managersWaiting, created, done>>,
         mpc' \in [Managers -> MStates],
         \A m \in Managers : Idling(mpc[m], mpc'[m]),
         \A m \in Managers : mpc'[m] = "blocking" => Len(waiting[m]) = WorkersPerManager,
         main'[1] \in {"start", "signal"} => main[1] \in {"start", "signal"}
  PROVE  IInv'
<1>. USE DEF IInv, wkrVars
<1>1. MWTypeOK'
  BY DEF MWTypeOK, Managers, Workers, Events
<1>2. HandsFit'
  BY DEF HandsFit, Idling, Managers, Workers, Events
<1>3. Unborn'
  BY DEF Unborn, Idling, Managers, Workers, Mine
<1>4. Requests'
  BY DEF Requests, Asking, Managers, Workers
<1>5. Works'
  <2>1. \A x \in Nat, l \in Locations : Holds(l, x)' <=> Holds(l, x)
    BY DEF Holds
  <2>. QED BY <2>1, WorksStay DEF Works
<1>6. RequestFollows'
  BY DEF RequestFollows, FollowedBy, Managers, Workers
<1>7. AllWait'
  BY DEF AllWait, Idling, Managers
<1>8. StopWhenQuiet'
  <2>1. \A m \in Managers : /\ m \in CountedManagers' <=> m \in CountedManagers
                            /\ ToldToStop(m)' <=> ToldToStop(m)
    BY DEF CountedManagers, ToldToStop, Idling
  <2>2. CountedManagers' = CountedManagers
    BY <2>1 DEF CountedManagers, Managers
  <2>3. Quiet => Quiet'
    BY <2>2 DEF Quiet, Managers, Workers
  <2>. QED BY <2>1, <2>2, <2>3 DEF StopWhenQuiet, Managers, Workers
<1>. QED BY <1>1, <1>2, <1>3, <1>4, <1>5, <1>6, <1>7, <1>8

\* What the main thread does, but for starting its own worker.
LEMMA MainInv ==
  ASSUME IInv, MainStarted \/ SignalStop \/ MainWorkerHome \/ JoinManager
  PROVE  IInv'
<1>1. UNCHANGED <<queue, waiting, hand, wkrVars, pool, managersWaiting, created, done>>
  BY DEF MainStarted, SignalStop, MainWorkerHome, JoinManager, poolVars, mgrVars, wkrVars
<1>2. /\ mpc' \in [Managers -> MStates]
      /\ \A m \in Managers : Idling(mpc[m], mpc'[m]) /\ (mpc'[m] = "blocking" => mpc[m] = "blocking")
  BY DEF MainStarted, SignalStop, MainWorkerHome, JoinManager, mgrVars, Idling, MStates,
         IInv, MWTypeOK
<1>3. main'[1] \in {"start", "signal"} => main[1] \in {"start", "signal"}
  BY DEF MainStarted, SignalStop, MainWorkerHome, JoinManager
<1>. QED BY <1>1, <1>2, <1>3, QuietStep DEF IInv, AllWait

LEMMA SleepStopInv ==
  ASSUME IInv, NEW m \in Managers, Sleep(m) \/ StopWorkers(m)
  PROVE  IInv'
<1>1. UNCHANGED <<queue, waiting, hand, wkrVars, pool, managersWaiting, created, done, main>>
  BY DEF Sleep, StopWorkers, poolVars, wkrVars
<1>2. /\ mpc' \in [Managers -> MStates]
      /\ \A k \in Managers : Idling(mpc[k], mpc'[k]) /\ (mpc'[k] = "blocking" => mpc[k] = "blocking")
  BY DEF Sleep, StopWorkers, Goto, Idling, MStates, IInv, MWTypeOK
<1>. QED BY <1>1, <1>2, QuietStep DEF IInv, AllWait

\* Workers start that nobody has heard of.
LEMMA StartStep ==
  ASSUME IInv, UNCHANGED <<queue, waiting, hand, current, resumed, pool, managersWaiting,
                           created, done>>,
         wpc' \in [Workers -> WStates],
         \A w \in Workers : wpc'[w] = wpc[w] \/ (wpc[w] = "unborn" /\ wpc'[w] = "request"),
         mpc' \in [Managers -> MStates],
         \A m \in Managers : mpc'[m] = mpc[m] \/ (mpc[m] = "start" /\ mpc'[m] = "lock"),
         Unborn', managersWaiting # NumManagers
  PROVE  IInv'
<1>. USE DEF IInv
<1>1. MWTypeOK'
  BY DEF MWTypeOK, Managers, Workers, Events
<1>2. HandsFit'
  BY DEF HandsFit, Managers, Workers, Events
<1>4. Requests'
  BY DEF Requests, Asking, Managers, Workers
<1>5. Works'
  <2>1. \A x \in Nat, l \in Locations : Holds(l, x)' <=> Holds(l, x)
    BY DEF Holds, Locations, HandsFit
  <2>. QED BY <2>1, WorksStay DEF Works
<1>6. RequestFollows'
  <2>1. \A m, i : \A w \in Workers : FollowedBy(m, i, w) => FollowedBy(m, i, w)'
    BY DEF FollowedBy, Boss
  <2>. QED BY <2>1 DEF RequestFollows, Managers, Workers
<1>7. AllWait'
  BY DEF AllWait, Managers
<1>8. StopWhenQuiet'
  <2>1. \A m \in Managers : /\ m \in CountedManagers' <=> m \in CountedManagers
                            /\ ~ToldToStop(m)'
    BY RunningFact DEF CountedManagers, ToldToStop
  <2>2. \A w \in Workers : wpc'[w] # "gone" /\ ~(resumed'[w] /\ current'[w] = NULL)
    BY RunningFact
  <2>. QED BY <2>1, <2>2, CountStays
<1>. QED BY <1>1, <1>2, <1>4, <1>5, <1>6, <1>7, <1>8

LEMMA StartWorkersInv ==
  ASSUME IInv, NEW m \in Managers, StartWorkers(m)
  PROVE  IInv'
<1>1. /\ mpc[m] = "start" /\ mpc' = [mpc EXCEPT ![m] = "lock"]
      /\ wpc' = [w \in Workers |-> IF w \in Mine(m) \ {0} THEN "request" ELSE wpc[w]]
      /\ UNCHANGED <<queue, waiting, hand, current, resumed, pool, managersWaiting,
                     created, done, main>>
  BY DEF StartWorkers, Goto
<1>2. \A w \in Mine(m) \ {0} : wpc[w] = "unborn"
  BY <1>1 DEF IInv, Unborn
<1>3. /\ wpc' \in [Workers -> WStates]
      /\ \A w \in Workers : wpc'[w] = wpc[w] \/ (wpc[w] = "unborn" /\ wpc'[w] = "request")
      /\ mpc' \in [Managers -> MStates]
      /\ \A k \in Managers : mpc'[k] = mpc[k] \/ (mpc[k] = "start" /\ mpc'[k] = "lock")
  BY <1>1, <1>2 DEF IInv, MWTypeOK, WStates, MStates
<1>4. 0 \in Workers
  <2>1. NumManagers * WorkersPerManager - 1 >= 0
    BY ManagerWorkerAssumption
  <2>. QED BY <2>1, ManagerWorkerAssumption DEF Workers
<1>5. Unborn'
  <2>1. wpc'[0] = wpc[0]
    BY <1>1, <1>4
  <2>2. ASSUME NEW k \in Managers, mpc'[k] = "start", NEW w \in Mine(k) \ {0}
        PROVE  wpc'[w] = "unborn"
    <3>1. k # m /\ mpc[k] = "start"
      BY <1>1, <2>2 DEF IInv, MWTypeOK
    <3>2. wpc[w] = "unborn" /\ w \notin Mine(m) /\ w \in Workers
      BY <2>2, <3>1 DEF IInv, Unborn, Mine
    <3>. QED BY <1>1, <3>2
  <2>. QED BY <1>1, <2>1, <2>2 DEF IInv, Unborn, Managers, Mine, Workers
<1>6. managersWaiting # NumManagers
  BY <1>1 DEF IInv, StopWhenQuiet, Quiet, CountedManagers, ToldToStop
<1>. QED BY <1>1, <1>3, <1>5, <1>6, StartStep

LEMMA RunMainWorkerInv ==
  ASSUME IInv, RunMainWorker
  PROVE  IInv'
<1>1. /\ main[1] = "signal" /\ main'[1] = "run" /\ wpc' = [wpc EXCEPT ![0] = "request"]
      /\ UNCHANGED <<mpc, queue, waiting, hand, current, resumed, pool, managersWaiting,
                     created, done>>
  BY DEF RunMainWorker, poolVars, mgrVars
<1>2. wpc[0] = "unborn"
  BY <1>1 DEF IInv, Unborn
<1>3. 0 \in Workers
  <2>1. NumManagers * WorkersPerManager - 1 >= 0
    BY ManagerWorkerAssumption
  <2>. QED BY <2>1, ManagerWorkerAssumption DEF Workers
<1>4. /\ wpc' \in [Workers -> WStates]
      /\ \A w \in Workers : wpc'[w] = wpc[w] \/ (wpc[w] = "unborn" /\ wpc'[w] = "request")
  BY <1>1, <1>2, <1>3 DEF IInv, MWTypeOK, WStates
<1>5. Unborn'
  BY <1>1 DEF IInv, MWTypeOK, Unborn, Managers, Mine, Workers
<1>6. managersWaiting # NumManagers
  BY <1>2, <1>3 DEF IInv, StopWhenQuiet, Quiet
<1>. QED BY <1>1, <1>4, <1>5, <1>6, StartStep DEF IInv, MWTypeOK
-----------------------------------------------------------------------------
(* The workers *)

\* What push_event does to the queues and the managers.
LEMMA PushFact ==
  ASSUME MWTypeOK, NEW m \in Managers, NEW e \in Events, PushEvent(m, e)
  PROVE  /\ queue' \in [Managers -> Seq(Events)]
         /\ queue'[m] = Append(queue[m], e)
         /\ \A k \in Managers \ {m} : queue'[k] = queue[k]
         /\ UNCHANGED <<waiting, hand>>
         /\ mpc' \in [Managers -> MStates]
         /\ \A k \in Managers : mpc'[k] = mpc[k] \/ (mpc[k] = "sleep" /\ mpc'[k] = "lock")
<1>1. Append(queue[m], e) \in Seq(Events)
  BY AppendFact DEF MWTypeOK
<1>. QED BY <1>1 DEF PushEvent, MWTypeOK, MStates

\* An event pushed after the others, by a worker that asks for work next.
LEMMA FollowsPush ==
  ASSUME MWTypeOK, RequestFollows, NEW m \in Managers, NEW e \in Events,
         queue'[m] = Append(queue[m], e), \A k \in Managers \ {m} : queue'[k] = queue[k],
         \A w \in Workers : wpc[w] = "request" =>
            wpc'[w] = "request" \/ (e = <<"GetWork", w>> /\ Boss(w) = m),
         e[1] = "PostWork" => \E w \in Workers : Boss(w) = m /\ wpc'[w] = "request"
  PROVE  RequestFollows'
<1>. SUFFICES ASSUME NEW k \in Managers, NEW i \in 1 .. Len(queue'[k]),
                     queue'[k][i][1] = "PostWork"
              PROVE  \E w \in Workers : FollowedBy(k, i, w)'
  BY DEF RequestFollows, Managers, Workers
<1>1. queue[k] \in Seq(Events)
  BY DEF MWTypeOK
<1>2. CASE k # m
  <2>1. queue'[k] = queue[k]
    BY <1>2
  <2>2. PICK w \in Workers : FollowedBy(k, i, w)
    BY <2>1 DEF RequestFollows
  <2>3. wpc[w] = "request" => wpc'[w] = "request"
    BY <1>2, <2>2 DEF FollowedBy
  <2>. QED BY <2>1, <2>2, <2>3 DEF FollowedBy, Boss
<1>3. CASE k = m
  <2>. DEFINE n == Len(queue[m])
  <2>1. /\ Len(queue'[m]) = n + 1 /\ n \in Nat
        /\ \A h \in 1 .. n : queue'[m][h] = queue[m][h]
        /\ queue'[m][n + 1] = e
    BY <1>1, <1>3, AppendFact
  <2>2. CASE i = n + 1
    BY <1>3, <2>1, <2>2 DEF FollowedBy, Boss
  <2>3. CASE i \in 1 .. n
    <3>1. PICK w \in Workers : FollowedBy(m, i, w)
      BY <1>3, <2>1, <2>3 DEF RequestFollows
    <3>2. CASE \E h \in 1 .. n : h > i /\ queue[m][h] = <<"GetWork", w>>
      BY SMTT(30), <1>3, <2>1, <3>1, <3>2 DEF FollowedBy, Boss
    <3>3. CASE wpc[w] = "request" /\ wpc'[w] # "request"
      <4>1. queue'[m][n + 1] = <<"GetWork", w>> /\ n + 1 > i /\ n + 1 \in 1 .. Len(queue'[m])
        BY <2>1, <2>3, <3>3
      <4>. QED BY <1>3, <3>1, <4>1 DEF FollowedBy, Boss
    <3>4. CASE wpc'[w] = "request"
      BY <1>3, <3>1, <3>4 DEF FollowedBy, Boss
    <3>. QED BY <3>1, <3>2, <3>3, <3>4 DEF FollowedBy
  <2>. QED BY <1>3, <2>1, <2>2, <2>3
<1>. QED BY <1>2, <1>3

LEMMA RequestWorkInv ==
  ASSUME IInv, NEW w \in Workers, RequestWork(w)
  PROVE  IInv'
<1>. DEFINE m == Boss(w)
            e == <<"GetWork", w>>
<1>. USE DEF IInv
<1>1. m \in Managers /\ e \in Events
  BY BossFact DEF Events
<1>. HIDE DEF m
<1>2. /\ wpc[w] = "request" /\ wpc' = [wpc EXCEPT ![w] = "blocked"] /\ PushEvent(m, e)
      /\ UNCHANGED <<main, pool, managersWaiting, current, resumed, created, done>>
  BY DEF RequestWork, poolVars, m
<1>3. /\ queue' \in [Managers -> Seq(Events)] /\ queue'[m] = Append(queue[m], e)
      /\ \A k \in Managers \ {m} : queue'[k] = queue[k]
      /\ UNCHANGED <<waiting, hand>> /\ mpc' \in [Managers -> MStates]
      /\ \A k \in Managers : mpc'[k] = mpc[k] \/ (mpc[k] = "sleep" /\ mpc'[k] = "lock")
  BY <1>1, <1>2, PushFact
<1>4. wpc' \in [Workers -> WStates]
      /\ \A v \in Workers : wpc'[v] = IF v = w THEN "blocked" ELSE wpc[v]
  BY <1>2 DEF MWTypeOK, WStates
<1>5. \A k \in Managers : queue[k] \in Seq(Events)
  BY DEF MWTypeOK
<1>6. \A k \in Managers : \A x :
         InSeq(x, queue'[k]) <=> InSeq(x, queue[k]) \/ (k = m /\ x = e)
  <2>1. \A x : InSeq(x, queue'[m]) <=> InSeq(x, queue[m]) \/ x = e
    BY <1>1, <1>3, <1>5, AppendFact
  <2>. QED BY <1>3, <2>1
<1>7. ~resumed[w]
  BY <1>2 DEF HandsFit
<1>11. MWTypeOK'
  BY <1>2, <1>3, <1>4 DEF MWTypeOK, Managers, Workers, Events
<1>12. HandsFit' /\ Unborn'
  BY <1>2, <1>3, <1>4 DEF HandsFit, Unborn, Managers, Workers, Events, Mine
<1>13. Requests'
  <2>1. ASSUME NEW k \in Managers, NEW v \in Workers
        PROVE  /\ InSeq(<<"GetWork", v>>, queue'[k]) =>
                     /\ Asking(v)' /\ Boss(v) = k
                     /\ hand'[k] # <<"GetWork", v>> /\ ~InSeq(v, waiting'[k])
               /\ hand'[k] = <<"GetWork", v>> =>
                     Asking(v)' /\ Boss(v) = k /\ ~InSeq(v, waiting'[k])
               /\ InSeq(v, waiting'[k]) => Asking(v)' /\ Boss(v) = k
    BY <1>2, <1>3, <1>4, <1>6, <1>7 DEF Requests, Asking, m
  <2>2. ASSUME NEW k \in Managers PROVE Injective(queue'[k]) /\ Injective(waiting'[k])
    <3>1. ~InSeq(e, queue[m])
      BY <1>1, <1>2 DEF Requests, Asking
    <3>2. Injective(queue'[m])
      BY <1>1, <1>3, <1>5, <3>1, AppendFact DEF Requests
    <3>. QED BY <1>3, <3>2 DEF Requests
  <2>. QED BY <2>1, <2>2 DEF Requests, Managers, Workers, Boss
<1>14. Works'
  <2>1. \A x \in Nat, l \in Locations : Holds(l, x)' <=> Holds(l, x)
    BY <1>2, <1>3, <1>4, <1>6, <1>7 DEF Holds, Locations
  <2>. QED BY <1>2, <2>1, WorksStay DEF Works
<1>15. RequestFollows'
  BY <1>1, <1>3, <1>4, FollowsPush DEF m
<1>16. AllWait'
  BY <1>2, <1>3 DEF AllWait, Managers
<1>17. StopWhenQuiet'
  <2>1. managersWaiting # NumManagers
    BY <1>2 DEF StopWhenQuiet, Quiet
  <2>2. \A k \in Managers : /\ k \in CountedManagers' <=> k \in CountedManagers
                            /\ ~ToldToStop(k)'
    BY <1>3, <2>1, RunningFact DEF CountedManagers, ToldToStop
  <2>3. \A v \in Workers : wpc'[v] # "gone" /\ ~(resumed'[v] /\ current'[v] = NULL)
    BY <1>2, <1>4, <2>1, RunningFact
  <2>. QED BY <1>2, <2>1, <2>2, <2>3, CountStays
<1>. QED BY <1>11, <1>12, <1>13, <1>14, <1>15, <1>16, <1>17
LEMMA ResumeInv ==
  ASSUME IInv, NEW w \in Workers, Resume(w)
  PROVE  IInv'
<1>. USE DEF IInv
<1>. DEFINE next == IF current[w] = NULL THEN "gone" ELSE "run"
<1>1. /\ wpc[w] = "blocked" /\ resumed[w]
      /\ resumed' = [resumed EXCEPT ![w] = FALSE] /\ wpc' = [wpc EXCEPT ![w] = next]
      /\ UNCHANGED <<main, pool, managersWaiting, mpc, queue, waiting, hand, current,
                     created, done>>
  BY DEF Resume, poolVars, mgrVars
<1>2. /\ wpc' \in [Workers -> WStates] /\ resumed' \in [Workers -> BOOLEAN]
      /\ \A v \in Workers : /\ wpc'[v] = IF v = w THEN next ELSE wpc[v]
                            /\ resumed'[v] = IF v = w THEN FALSE ELSE resumed[v]
  BY <1>1 DEF MWTypeOK, WStates
<1>3. current[w] \in Nat \cup {NULL}
  BY DEF MWTypeOK
<1>11. MWTypeOK'
  BY <1>1, <1>2 DEF MWTypeOK, Managers, Workers, Events
<1>12. HandsFit' /\ Unborn'
  BY <1>1, <1>2, <1>3 DEF HandsFit, Unborn, Managers, Workers, Events, Mine
<1>13. Requests'
  <2>1. \A v \in Workers : Asking(v) => Asking(v)'
    BY <1>1, <1>2 DEF Asking
  <2>. QED BY <1>1, <2>1 DEF Requests, Managers, Workers, Boss
<1>14. Works'
  <2>1. \A x \in Nat, l \in Locations : Holds(l, x)' <=> Holds(l, x)
    BY <1>1, <1>2, <1>3, NullFact DEF Holds, Locations
  <2>. QED BY <1>1, <2>1, WorksStay DEF Works
<1>15. RequestFollows'
  <2>1. \A m, i : \A v \in Workers : FollowedBy(m, i, v) => FollowedBy(m, i, v)'
    BY <1>1, <1>2 DEF FollowedBy, Boss
  <2>. QED BY <1>1, <2>1 DEF RequestFollows, Managers, Workers
<1>16. AllWait'
  BY <1>1 DEF AllWait, Managers
<1>17. StopWhenQuiet'
  <2>1. CountedManagers' = CountedManagers /\ \A m : ToldToStop(m)' <=> ToldToStop(m)
    BY <1>1 DEF CountedManagers, ToldToStop, Managers
  <2>2. CASE managersWaiting = NumManagers
    <3>1. Quiet
      BY <2>2 DEF StopWhenQuiet
    <3>2. next = "gone"
      BY <1>1, <3>1 DEF Quiet
    <3>3. Quiet'
      BY <1>1, <1>2, <2>1, <3>1, <3>2 DEF Quiet, Managers, Workers
    <3>. QED BY <1>1, <2>1, <2>2, <3>3 DEF StopWhenQuiet, Managers, Workers
  <2>3. CASE managersWaiting # NumManagers
    <3>1. next = "run"
      BY <1>1, <2>3, RunningFact
    <3>2. \A v \in Workers : wpc'[v] # "gone" /\ ~(resumed'[v] /\ current'[v] = NULL)
      BY <1>1, <1>2, <2>3, <3>1, RunningFact
    <3>. QED BY <1>1, <2>1, <2>3, <3>2, RunningFact, CountStays
  <2>. QED BY <2>2, <2>3
<1>. QED BY <1>11, <1>12, <1>13, <1>14, <1>15, <1>16, <1>17

LEMMA RunWorkInv ==
  ASSUME IInv, NEW w \in Workers, RunWork(w)
  PROVE  IInv'
<1>. USE DEF IInv
<1>1. PICK next \in {"post", "request"} :
         /\ wpc[w] = "run" /\ wpc' = [wpc EXCEPT ![w] = next]
         /\ done' = done \cup {current[w]}
         /\ UNCHANGED <<main, pool, managersWaiting, mpc, queue, waiting, hand, current,
                        resumed, created>>
  BY DEF RunWork, poolVars, mgrVars
<1>2. /\ wpc' \in [Workers -> WStates]
      /\ \A v \in Workers : wpc'[v] = IF v = w THEN next ELSE wpc[v]
  BY <1>1 DEF MWTypeOK, WStates
<1>3. current[w] \in Nat /\ ~resumed[w]
  BY <1>1 DEF HandsFit
<1>11. MWTypeOK'
  BY <1>1, <1>2 DEF MWTypeOK, Managers, Workers, Events
<1>12. HandsFit' /\ Unborn'
  BY <1>1, <1>2 DEF HandsFit, Unborn, Managers, Workers, Events, Mine
<1>13. Requests'
  <2>1. \A v \in Workers : Asking(v) => Asking(v)'
    BY <1>1, <1>2 DEF Asking
  <2>. QED BY <1>1, <2>1 DEF Requests, Managers, Workers, Boss
<1>14. Works'
  <2>. DEFINE y == current[w]
              from == <<"worker", w>>
              to == <<"done", 0>>
  <2>1. from \in Locations /\ to \in Locations /\ Holds(from, y)
    BY <1>1 DEF Locations, Holds
  <2>2. from # to
    OBVIOUS
  <2>3. ASSUME NEW x \in Nat, NEW k \in Locations \ {from, to}
        PROVE  Holds(k, x)' <=> Holds(k, x)
    BY <1>1, <1>2, <2>3 DEF Holds, Locations
  <2>4. ASSUME NEW x \in Nat PROVE Holds(from, x)' <=> Holds(from, x) /\ x # y
    BY <1>1, <1>2, <1>3 DEF Holds
  <2>5. ASSUME NEW x \in Nat PROVE Holds(to, x)' <=> Holds(to, x) \/ x = y
    BY <1>1 DEF Holds
  <2>6. y \in Nat /\ done' \subseteq Nat /\ created' = created /\ created \in Nat
        /\ Works /\ Injective(pool')
    BY <1>1, <1>3 DEF Works, MWTypeOK
  <2>. HIDE DEF y, from, to
  <2>. QED BY <2>1, <2>2, <2>3, <2>4, <2>5, <2>6, WorkMoves
<1>15. RequestFollows'
  <2>1. \A m, i : \A v \in Workers : FollowedBy(m, i, v) => FollowedBy(m, i, v)'
    BY <1>1, <1>2 DEF FollowedBy, Boss
  <2>. QED BY <1>1, <2>1 DEF RequestFollows, Managers, Workers
<1>16. AllWait'
  BY <1>1 DEF AllWait, Managers
<1>17. StopWhenQuiet'
  <2>1. CountedManagers' = CountedManagers /\ \A m : ToldToStop(m)' <=> ToldToStop(m)
    BY <1>1 DEF CountedManagers, ToldToStop, Managers
  <2>2. managersWaiting # NumManagers
    BY <1>1 DEF StopWhenQuiet, Quiet
  <2>3. \A v \in Workers : wpc'[v] # "gone" /\ ~(resumed'[v] /\ current'[v] = NULL)
    BY <1>1, <1>2, <2>2, RunningFact
  <2>. QED BY <1>1, <2>1, <2>2, <2>3, RunningFact, CountStays
<1>. QED BY <1>11, <1>12, <1>13, <1>14, <1>15, <1>16, <1>17
LEMMA PostWorkInv ==
  ASSUME IInv, NEW w \in Workers, PostWork(w)
  PROVE  IInv'
<1>. DEFINE m == Boss(w)
            x == created + 1
            e == <<"PostWork", x>>
<1>. USE DEF IInv
<1>1. m \in Managers /\ created \in Nat /\ x \in Nat /\ e \in Events
  BY BossFact DEF Events, MWTypeOK
<1>. HIDE DEF m
<1>2. /\ wpc[w] = "post" /\ wpc' = [wpc EXCEPT ![w] = "request"]
      /\ UNCHANGED <<main, pool, managersWaiting, current, resumed, done>>
      /\ \/ PushEvent(m, e) /\ created' = x
         \/ UNCHANGED <<mpc, queue, waiting, hand, created>>
  BY DEF PostWork, poolVars, mgrVars, m
<1>3. /\ wpc' \in [Workers -> WStates]
      /\ \A v \in Workers : wpc'[v] = IF v = w THEN "request" ELSE wpc[v]
  BY <1>2 DEF MWTypeOK, WStates
<1>4. managersWaiting # NumManagers /\ ~resumed[w]
  BY <1>2 DEF StopWhenQuiet, Quiet, HandsFit
<1>5. \A v \in Workers : Asking(v) <=> Asking(v)'
  BY <1>2, <1>3 DEF Asking
<1>6. \A v \in Workers : wpc'[v] # "gone" /\ ~(resumed'[v] /\ current'[v] = NULL)
  BY <1>2, <1>3, <1>4, RunningFact
<1>7. CASE PushEvent(m, e) /\ created' = x
  <2>1. /\ queue' \in [Managers -> Seq(Events)] /\ queue'[m] = Append(queue[m], e)
        /\ \A k \in Managers \ {m} : queue'[k] = queue[k]
        /\ UNCHANGED <<waiting, hand>> /\ mpc' \in [Managers -> MStates]
        /\ \A k \in Managers : mpc'[k] = mpc[k] \/ (mpc[k] = "sleep" /\ mpc'[k] = "lock")
    BY <1>1, <1>7, PushFact
  <2>2. \A k \in Managers : queue[k] \in Seq(Events)
    BY DEF MWTypeOK
  <2>3. \A k \in Managers : \A y :
           InSeq(y, queue'[k]) <=> InSeq(y, queue[k]) \/ (k = m /\ y = e)
    <3>1. \A y : InSeq(y, queue'[m]) <=> InSeq(y, queue[m]) \/ y = e
      BY <1>1, <2>1, <2>2, AppendFact
    <3>. QED BY <2>1, <3>1
  <2>11. MWTypeOK'
    BY <1>1, <1>2, <1>3, <1>7, <2>1 DEF MWTypeOK, Managers, Workers, Events
  <2>12. HandsFit' /\ Unborn'
    BY <1>2, <1>3, <2>1 DEF HandsFit, Unborn, Managers, Workers, Events, Mine
  <2>13. Requests'
    <3>1. ASSUME NEW k \in Managers PROVE Injective(queue'[k])
      <4>1. <<"queue", m>> \in Locations /\ ~Holds(<<"queue", m>>, x)
        BY <1>1 DEF Works, Locations
      <4>2. ~InSeq(e, queue[m])
        BY <4>1 DEF Holds
      <4>3. Injective(queue'[m])
        BY <1>1, <2>1, <2>2, <4>2, AppendFact DEF Requests
      <4>. QED BY <2>1, <4>3 DEF Requests
    <3>2. \A k \in Managers, v \in Workers :
             InSeq(<<"GetWork", v>>, queue'[k]) <=> InSeq(<<"GetWork", v>>, queue[k])
      BY <2>3
    <3>. QED BY <1>5, <2>1, <3>1, <3>2 DEF Requests, Managers, Workers, Boss
  <2>14. Works'
    <3>. DEFINE to == <<"queue", m>>
    <3>1. to \in Locations
      BY <1>1 DEF Locations
    <3>2. ASSUME NEW y \in Nat, NEW k \in Locations \ {to}
          PROVE  Holds(k, y)' <=> Holds(k, y)
      BY <1>2, <1>3, <1>4, <2>1, <3>2 DEF Holds, Locations
    <3>3. ASSUME NEW y \in Nat PROVE Holds(to, y)' <=> Holds(to, y) \/ y = created + 1
      BY <1>1, <2>3 DEF Holds
    <3>. HIDE DEF to
    <3>. QED BY <1>1, <1>2, <1>7, <3>1, <3>2, <3>3, WorkAppears DEF Works
  <2>15. RequestFollows'
    BY SMTT(30), <1>1, <1>3, <2>1, FollowsPush DEF m
  <2>16. AllWait'
    BY <1>2, <2>1 DEF AllWait, Managers
  <2>17. StopWhenQuiet'
    <3>1. \A k \in Managers : /\ k \in CountedManagers' <=> k \in CountedManagers
                              /\ ~ToldToStop(k)'
      BY <1>4, <2>1, RunningFact DEF CountedManagers, ToldToStop
    <3>. QED BY <1>2, <1>4, <1>6, <3>1, CountStays
  <2>. QED BY <2>11, <2>12, <2>13, <2>14, <2>15, <2>16, <2>17
<1>8. CASE UNCHANGED <<mpc, queue, waiting, hand, created>>
  <2>11. MWTypeOK'
    BY <1>2, <1>3, <1>8 DEF MWTypeOK, Managers, Workers, Events
  <2>12. HandsFit' /\ Unborn'
    BY <1>2, <1>3, <1>8 DEF HandsFit, Unborn, Managers, Workers, Events, Mine
  <2>13. Requests'
    BY <1>5, <1>8 DEF Requests, Managers, Workers, Boss
  <2>14. Works'
    <3>1. \A y \in Nat, l \in Locations : Holds(l, y)' <=> Holds(l, y)
      BY <1>2, <1>3, <1>4, <1>8 DEF Holds, Locations
    <3>. QED BY <1>2, <1>8, <3>1, WorksStay DEF Works
  <2>15. RequestFollows'
    <3>1. \A k, i : \A v \in Workers : FollowedBy(k, i, v) => FollowedBy(k, i, v)'
      BY <1>3, <1>8 DEF FollowedBy, Boss
    <3>. QED BY <1>8, <3>1 DEF RequestFollows, Managers, Workers
  <2>16. AllWait'
    BY <1>2, <1>8 DEF AllWait, Managers
  <2>17. StopWhenQuiet'
    <3>1. CountedManagers' = CountedManagers /\ \A k : ToldToStop(k)' <=> ToldToStop(k)
      BY <1>8 DEF CountedManagers, ToldToStop, Managers
    <3>. QED BY <1>2, <1>4, <1>6, <3>1, RunningFact, CountStays
  <2>. QED BY <2>11, <2>12, <2>13, <2>14, <2>15, <2>16, <2>17
<1>. QED BY <1>2, <1>7, <1>8

-----------------------------------------------------------------------------
(* The managers *)

\* The oldest event is taken from a queue.
LEMMA FollowsTake ==
  ASSUME MWTypeOK, RequestFollows, NEW m \in Managers, queue[m] # <<>>,
         queue'[m] = Tail(queue[m]), \A k \in Managers \ {m} : queue'[k] = queue[k],
         wpc' = wpc
  PROVE  RequestFollows'
<1>. SUFFICES ASSUME NEW k \in Managers, NEW i \in 1 .. Len(queue'[k]),
                     queue'[k][i][1] = "PostWork"
              PROVE  \E w \in Workers : FollowedBy(k, i, w)'
  BY DEF RequestFollows, Managers, Workers
<1>1. CASE k # m
  <2>1. queue'[k] = queue[k]
    BY <1>1
  <2>2. PICK w \in Workers : FollowedBy(k, i, w)
    BY <2>1 DEF RequestFollows
  <2>. QED BY <2>1, <2>2 DEF FollowedBy, Boss
<1>2. CASE k = m
  <2>. DEFINE n == Len(queue[m])
  <2>1. /\ Len(queue'[m]) = n - 1 /\ n \in Nat \ {0}
        /\ \A h \in 1 .. n - 1 : queue'[m][h] = queue[m][h + 1]
    BY TailFact DEF MWTypeOK
  <2>2. i \in 1 .. n - 1 /\ i + 1 \in 1 .. n /\ queue[m][i + 1][1] = "PostWork"
    <3>1. i \in 1 .. n - 1 /\ queue'[m][i][1] = "PostWork"
      BY <1>2, <2>1
    <3>. QED BY <2>1, <3>1
  <2>3. PICK w \in Workers : FollowedBy(m, i + 1, w)
    BY <2>2 DEF RequestFollows
  <2>4. CASE wpc[w] = "request"
    BY <1>2, <2>3, <2>4 DEF FollowedBy, Boss
  <2>5. CASE wpc[w] # "request"
    <3>1. PICK h \in 1 .. n : h > i + 1 /\ queue[m][h] = <<"GetWork", w>>
      BY <2>3, <2>5 DEF FollowedBy
    <3>2. /\ h - 1 \in 1 .. n - 1 /\ h - 1 > i /\ (h - 1) + 1 = h
          /\ queue'[m][h - 1] = <<"GetWork", w>>
      BY <2>1, <2>2, <3>1
    <3>. QED BY <1>2, <2>1, <2>3, <3>2 DEF FollowedBy, Boss
  <2>. QED BY <2>4, <2>5
<1>. QED BY <1>1, <1>2
\* A manager takes an event.
LEMMA ServeInv ==
  ASSUME IInv, NEW m \in Managers, mpc[m] \in {"lock", "relock", "top"}, queue[m] # <<>>,
         hand' = [hand EXCEPT ![m] = Head(queue[m])],
         queue' = [queue EXCEPT ![m] = Tail(@)],
         mpc' = [mpc EXCEPT ![m] = "handle"],
         UNCHANGED <<main, pool, managersWaiting, waiting, wkrVars, created, done>>
  PROVE  IInv'
<1>. DEFINE e == Head(queue[m])
<1>. USE DEF IInv, wkrVars
<1>1. queue[m] \in Seq(Events) /\ Injective(queue[m]) /\ hand[m] = NULL
  BY DEF MWTypeOK, Requests, HandsFit
<1>2. /\ e \in Events /\ InSeq(e, queue[m]) /\ Tail(queue[m]) \in Seq(Events)
      /\ Injective(Tail(queue[m]))
      /\ \A x : InSeq(x, Tail(queue[m])) <=> InSeq(x, queue[m]) /\ x # e
  BY <1>1, TailFact
<1>3. /\ queue' \in [Managers -> Seq(Events)] /\ queue'[m] = Tail(queue[m])
      /\ hand' \in [Managers -> {NULL} \cup Events \cup {"Work"} \X Nat] /\ hand'[m] = e
      /\ mpc' \in [Managers -> MStates] /\ mpc'[m] = "handle"
      /\ \A k \in Managers \ {m} :
            queue'[k] = queue[k] /\ hand'[k] = hand[k] /\ mpc'[k] = mpc[k]
  BY <1>2 DEF MWTypeOK, MStates
<1>. HIDE DEF e
<1>4. managersWaiting # NumManagers
  BY DEF StopWhenQuiet, Quiet, CountedManagers, ToldToStop
<1>11. MWTypeOK'
  BY <1>3 DEF MWTypeOK, Managers, Workers, Events
<1>12. HandsFit' /\ Unborn'
  BY <1>2, <1>3 DEF HandsFit, Unborn, Managers, Workers, Events, Mine
<1>13. Requests'
  <2>1. ASSUME NEW k \in Managers, NEW v \in Workers
        PROVE  /\ InSeq(<<"GetWork", v>>, queue'[k]) =>
                     /\ Asking(v)' /\ Boss(v) = k
                     /\ hand'[k] # <<"GetWork", v>> /\ ~InSeq(v, waiting'[k])
               /\ hand'[k] = <<"GetWork", v>> =>
                     Asking(v)' /\ Boss(v) = k /\ ~InSeq(v, waiting'[k])
               /\ InSeq(v, waiting'[k]) => Asking(v)' /\ Boss(v) = k
    <3>1. CASE k = m
      <4>1. /\ InSeq(<<"GetWork", v>>, queue'[m]) <=>
                  InSeq(<<"GetWork", v>>, queue[m]) /\ e # <<"GetWork", v>>
            /\ e = <<"GetWork", v>> => InSeq(<<"GetWork", v>>, queue[m])
        BY <1>2, <1>3
      <4>2. /\ InSeq(<<"GetWork", v>>, queue[m]) =>
                  Asking(v) /\ Boss(v) = m /\ ~InSeq(v, waiting[m])
            /\ InSeq(v, waiting[m]) => Asking(v) /\ Boss(v) = m
        BY DEF Requests
      <4>3. Asking(v)' <=> Asking(v)
        BY DEF Asking
      <4>. QED BY <1>3, <3>1, <4>1, <4>2, <4>3
    <3>2. CASE k # m
      BY <1>3, <3>2 DEF Requests, Asking
    <3>. QED BY <3>1, <3>2
  <2>2. \A k \in Managers : Injective(queue'[k]) /\ Injective(waiting'[k])
    BY <1>2, <1>3 DEF Requests
  <2>. QED BY <2>1, <2>2 DEF Requests, Managers, Workers, Boss
<1>14. Works'
  <2>. DEFINE from == <<"queue", m>>
              to == <<"hand", m>>
  <2>1. from \in Locations /\ to \in Locations /\ from # to
    BY DEF Locations
  <2>2. ASSUME NEW x \in Nat, NEW k \in Locations \ {from, to}
        PROVE  Holds(k, x)' <=> Holds(k, x)
    BY <1>3, <2>2 DEF Holds, Locations
  <2>3. ASSUME NEW x \in Nat PROVE Holds(from, x)' <=> Holds(from, x) /\ e # <<"PostWork", x>>
    BY <1>2, <1>3 DEF Holds
  <2>4. ASSUME NEW x \in Nat PROVE Holds(to, x)' <=> Holds(to, x) \/ e = <<"PostWork", x>>
    <3>1. ~Holds(to, x)
      BY <1>1, ManagerWorkerAssumption DEF Holds
    <3>2. Holds(to, x)' <=> e = <<"PostWork", x>>
      BY <1>2, <1>3 DEF Holds, Events
    <3>. QED BY <3>1, <3>2
  <2>5. CASE e[1] = "PostWork"
    <3>1. PICK y \in Nat : e = <<"PostWork", y>>
      BY <1>2, <2>5 DEF Events
    <3>2. Holds(from, y)
      BY <1>2, <3>1 DEF Holds
    <3>3. created \in Nat /\ done' \subseteq Nat /\ created' = created /\ Injective(pool')
      BY DEF MWTypeOK, Works
    <3>4. \A x \in Nat : e = <<"PostWork", x>> <=> x = y
      BY <3>1
    <3>. HIDE DEF from, to
    <3>. QED BY <2>1, <2>2, <2>3, <2>4, <3>2, <3>3, <3>4, WorkMoves
  <2>6. CASE e[1] # "PostWork"
    <3>1. \A x \in Nat : e # <<"PostWork", x>>
      BY <2>6
    <3>2. \A x \in Nat, l \in Locations : Holds(l, x)' <=> Holds(l, x)
      BY <2>2, <2>3, <2>4, <3>1
    <3>. QED BY <3>2, WorksStay DEF Works
  <2>. QED BY <2>5, <2>6
<1>15. RequestFollows'
  BY <1>3, FollowsTake
<1>16. AllWait'
  BY <1>3 DEF AllWait, Managers
<1>17. StopWhenQuiet'
  <2>1. \A k \in Managers : /\ k \in CountedManagers' <=> k \in CountedManagers
                            /\ ~ToldToStop(k)'
    BY <1>3, <1>4, RunningFact DEF CountedManagers, ToldToStop
  <2>. QED BY <1>4, <2>1, RunningFact, CountStays
<1>. QED BY <1>11, <1>12, <1>13, <1>14, <1>15, <1>16, <1>17

LEMMA TurnInv ==
  ASSUME IInv, NEW m \in Managers, Turn(m)
  PROVE  IInv'
<1>1. /\ mpc[m] \in {"lock", "relock", "top"}
      /\ UNCHANGED <<main, pool, managersWaiting, waiting, wkrVars, created, done>>
  BY DEF Turn, poolVars, wkrVars
<1>2. CASE /\ queue[m] # <<>> /\ hand' = [hand EXCEPT ![m] = Head(queue[m])]
           /\ queue' = [queue EXCEPT ![m] = Tail(@)] /\ Goto(m, "handle")
  BY <1>1, <1>2, ServeInv DEF Goto
<1>3. CASE /\ Len(waiting[m]) = WorkersPerManager /\ Goto(m, "blocking")
           /\ UNCHANGED <<queue, hand>>
  <2>1. /\ mpc' \in [Managers -> MStates]
        /\ \A k \in Managers : Idling(mpc[k], mpc'[k])
        /\ \A k \in Managers : mpc'[k] = "blocking" => Len(waiting[k]) = WorkersPerManager
    BY <1>1, <1>3 DEF Goto, Idling, MStates, IInv, MWTypeOK, AllWait
  <2>. QED BY <1>1, <1>3, <2>1, QuietStep
<1>4. CASE /\ Goto(m, IF mpc[m] = "top" THEN "tosleep" ELSE "sleep")
           /\ UNCHANGED <<queue, hand>>
  <2>1. /\ mpc' \in [Managers -> MStates]
        /\ \A k \in Managers : Idling(mpc[k], mpc'[k])
        /\ \A k \in Managers : mpc'[k] = "blocking" => Len(waiting[k]) = WorkersPerManager
    BY <1>1, <1>4 DEF Goto, Idling, MStates, IInv, MWTypeOK, AllWait
  <2>. QED BY <1>1, <1>4, <2>1, QuietStep
<1>. QED BY <1>2, <1>3, <1>4 DEF Turn
\* The oldest waiting worker of m gets the work in the manager's hand.
LEMMA AssignHandInv ==
  ASSUME IInv, NEW m \in Managers, NEW y \in Nat, hand[m] \in {"PostWork", "Work"} \X {y},
         mpc[m] \in {"handle", "got"}, waiting[m] # <<>>,
         Assign({Head(waiting[m])}, y), waiting' = [waiting EXCEPT ![m] = Tail(@)],
         hand' = [hand EXCEPT ![m] = NULL],
         NEW l \in {"relock", "top"}, mpc' = [mpc EXCEPT ![m] = l],
         UNCHANGED <<main, pool, managersWaiting, queue, created, done>>
  PROVE  IInv'
<1>. USE DEF IInv
<1>1. waiting[m] \in Seq(Workers) /\ Injective(waiting[m])
  BY DEF MWTypeOK, Requests
<1>2. PICK v \in Workers :
      /\ v = Head(waiting[m]) /\ InSeq(v, waiting[m]) /\ Tail(waiting[m]) \in Seq(Workers)
      /\ Injective(Tail(waiting[m])) /\ Len(Tail(waiting[m])) = Len(waiting[m]) - 1
      /\ \A x : InSeq(x, Tail(waiting[m])) <=> InSeq(x, waiting[m]) /\ x # v
  BY <1>1, TailFact
<1>3. /\ waiting' \in [Managers -> Seq(Workers)] /\ waiting'[m] = Tail(waiting[m])
      /\ hand' \in [Managers -> {NULL} \cup Events \cup {"Work"} \X Nat] /\ hand'[m] = NULL
      /\ mpc' \in [Managers -> MStates] /\ mpc'[m] = l
      /\ \A k \in Managers \ {m} :
            waiting'[k] = waiting[k] /\ hand'[k] = hand[k] /\ mpc'[k] = mpc[k]
  BY <1>2 DEF MWTypeOK, MStates
<1>4. /\ current' \in [Workers -> Nat \cup {NULL}] /\ current'[v] = y
      /\ resumed' \in [Workers -> BOOLEAN] /\ resumed'[v] /\ wpc' = wpc
      /\ \A w \in Workers \ {v} : current'[w] = current[w] /\ resumed'[w] = resumed[w]
  <2>1. /\ current' = [w \in Workers |-> IF w \in {v} THEN y ELSE current[w]]
        /\ resumed' = [w \in Workers |-> resumed[w] \/ w \in {v}] /\ wpc' = wpc
    BY <1>2 DEF Assign
  <2>. QED BY <1>2, <2>1 DEF MWTypeOK
<1>5. hand[m] # NULL
  BY ManagerWorkerAssumption
<1>6. managersWaiting # NumManagers
  BY <1>5 DEF StopWhenQuiet, Quiet
<1>7. Asking(v) /\ Boss(v) = m
  BY <1>2 DEF Requests
<1>11. MWTypeOK'
  BY <1>3, <1>4 DEF MWTypeOK, Managers, Workers, Events
<1>12. HandsFit' /\ Unborn'
  <2>1. \A w \in Workers : /\ wpc'[w] = "run" => current'[w] \in Nat
                           /\ resumed'[w] => wpc'[w] = "blocked"
    BY <1>4, <1>7 DEF HandsFit, Asking
  <2>2. \A k \in Managers :
           /\ mpc'[k] = "handle" => hand'[k] \in Events
           /\ mpc'[k] = "got" => hand'[k] \in {NULL} \cup {"Work"} \X Nat
           /\ mpc'[k] \notin {"handle", "got"} => hand'[k] = NULL
    BY <1>3 DEF HandsFit
  <2>3. Unborn'
    BY <1>3, <1>4 DEF Unborn, Managers, Workers, Mine
  <2>. QED BY <2>1, <2>2, <2>3 DEF HandsFit, Managers, Workers, Events
<1>13. Requests'
  <2>1. ASSUME NEW k \in Managers, NEW w \in Workers
        PROVE  /\ InSeq(<<"GetWork", w>>, queue'[k]) =>
                     /\ Asking(w)' /\ Boss(w) = k
                     /\ hand'[k] # <<"GetWork", w>> /\ ~InSeq(w, waiting'[k])
               /\ hand'[k] = <<"GetWork", w>> =>
                     Asking(w)' /\ Boss(w) = k /\ ~InSeq(w, waiting'[k])
               /\ InSeq(w, waiting'[k]) => Asking(w)' /\ Boss(w) = k
    <3>1. w # v => (Asking(w)' <=> Asking(w))
      BY <1>4 DEF Asking
    <3>2. /\ w = v => ~InSeq(<<"GetWork", w>>, queue[k]) /\ hand[k] # <<"GetWork", w>>
          /\ w = v => ~InSeq(w, waiting'[k])
      BY <1>2, <1>3, <1>7 DEF Requests
    <3>3. InSeq(w, waiting'[k]) => InSeq(w, waiting[k])
      BY <1>2, <1>3
    <3>4. hand'[k] = <<"GetWork", w>> => hand[k] = <<"GetWork", w>>
      BY <1>3, NullFact
    <3>. QED BY <3>1, <3>2, <3>3, <3>4 DEF Requests
  <2>2. \A k \in Managers : Injective(queue'[k]) /\ Injective(waiting'[k])
    BY <1>2, <1>3 DEF Requests
  <2>. QED BY <2>1, <2>2 DEF Requests, Managers, Workers, Boss
<1>14. Works'
  <2>. DEFINE from == <<"hand", m>>
              to == <<"worker", v>>
  <2>1. from \in Locations /\ to \in Locations /\ from # to
    BY <1>2 DEF Locations
  <2>2. ASSUME NEW x \in Nat, NEW k \in Locations \ {from, to}
        PROVE  Holds(k, x)' <=> Holds(k, x)
    BY <1>3, <1>4, <2>2 DEF Holds, Locations
  <2>3. ASSUME NEW x \in Nat PROVE Holds(from, x)' <=> Holds(from, x) /\ x # y
    <3>1. ~Holds(from, x)'
      BY <1>3, ManagerWorkerAssumption DEF Holds
    <3>2. Holds(from, x) => x = y
      BY DEF Holds
    <3>. QED BY <3>1, <3>2
  <2>4. ASSUME NEW x \in Nat PROVE Holds(to, x)' <=> Holds(to, x) \/ x = y
    <3>1. ~Holds(to, x)
      BY <1>7 DEF Holds, Asking
    <3>2. Holds(to, x)' <=> x = y
      BY <1>4 DEF Holds
    <3>. QED BY <3>1, <3>2
  <2>5. Holds(from, y) /\ Works
    BY DEF Holds
  <2>6. created \in Nat /\ done' \subseteq Nat /\ created' = created /\ Injective(pool')
    BY DEF MWTypeOK, Works
  <2>. HIDE DEF from, to
  <2>. QED BY <2>1, <2>2, <2>3, <2>4, <2>5, <2>6, WorkMoves
<1>15. RequestFollows'
  <2>1. \A k, i : \A w \in Workers : FollowedBy(k, i, w) => FollowedBy(k, i, w)'
    BY <1>4 DEF FollowedBy, Boss
  <2>. QED BY <2>1 DEF RequestFollows, Managers, Workers
<1>16. AllWait'
  <2>1. Len(waiting'[m]) # WorkersPerManager
    <3>1. Len(waiting[m]) \in Nat /\ Len(waiting[m]) <= WorkersPerManager
      BY WaitersFact
    <3>2. Len(waiting'[m]) = Len(waiting[m]) - 1 /\ WorkersPerManager \in Nat
      BY <1>2, <1>3, ManagerWorkerAssumption
    <3>. QED BY <3>1, <3>2
  <2>. QED BY <1>3, <2>1 DEF AllWait, Managers
<1>17. StopWhenQuiet'
  <2>1. \A k \in Managers : /\ k \in CountedManagers' <=> k \in CountedManagers
                            /\ ~ToldToStop(k)'
    BY <1>3, <1>5, <1>6, RunningFact DEF CountedManagers, ToldToStop
  <2>2. \A w \in Workers : wpc'[w] # "gone" /\ ~(resumed'[w] /\ current'[w] = NULL)
    BY <1>4, <1>6, RunningFact, NullFact
  <2>. QED BY <1>6, <2>1, <2>2, CountStays
<1>. QED BY <1>11, <1>12, <1>13, <1>14, <1>15, <1>16, <1>17

\* Posted work for which nobody waits goes to the pool.
LEMMA ToPoolInv ==
  ASSUME IInv, NEW m \in Managers, NEW y \in Nat, hand[m] = <<"PostWork", y>>,
         mpc[m] = "handle", waiting[m] = <<>>, pool' = Append(pool, y),
         hand' = [hand EXCEPT ![m] = NULL], NEW b \in Managers, mpc[b] = "cwait" \/ b = m,
         mpc' = [mpc EXCEPT ![b] = "cwoken", ![m] = "relock"],
         UNCHANGED <<main, managersWaiting, queue, waiting, wkrVars, created, done>>
  PROVE  IInv'
<1>. USE DEF IInv, wkrVars
<1>1. /\ hand' \in [Managers -> {NULL} \cup Events \cup {"Work"} \X Nat] /\ hand'[m] = NULL
      /\ mpc' \in [Managers -> MStates] /\ mpc'[m] = "relock"
      /\ \A k \in Managers \ {m} :
            /\ hand'[k] = hand[k]
            /\ mpc'[k] = mpc[k] \/ (mpc[k] = "cwait" /\ mpc'[k] = "cwoken")
  BY DEF MWTypeOK, MStates
<1>2. hand[m] # NULL
  BY ManagerWorkerAssumption
<1>3. managersWaiting # NumManagers
  BY <1>2 DEF StopWhenQuiet, Quiet
<1>4. <<"hand", m>> \in Locations /\ <<"pool", 0>> \in Locations /\ Holds(<<"hand", m>>, y)
  BY DEF Locations, Holds
<1>5. ~InSeq(y, pool)
  <2>1. OneLocation(y)
    BY <1>4 DEF Works
  <2>2. ~Holds(<<"pool", 0>>, y)
    BY <1>4, <2>1 DEF OneLocation
  <2>. QED BY <2>2 DEF Holds
<1>6. /\ pool' \in Seq(Nat) /\ Injective(pool') /\ pool' # <<>>
      /\ \A x : InSeq(x, pool') <=> InSeq(x, pool) \/ x = y
  <2>1. pool \in Seq(Nat) /\ Injective(pool)
    BY DEF MWTypeOK, Works
  <2>. QED BY <1>5, <2>1, AppendFact
<1>11. MWTypeOK'
  BY <1>1, <1>6 DEF MWTypeOK, Managers, Workers, Events
<1>12. HandsFit' /\ Unborn'
  BY <1>1 DEF HandsFit, Unborn, Managers, Workers, Events, Mine
<1>13. Requests'
  <2>1. ASSUME NEW k \in Managers, NEW w \in Workers
        PROVE  hand'[k] = <<"GetWork", w>> <=> hand[k] = <<"GetWork", w>>
    <3>1. NULL # <<"GetWork", w>>
      BY NullFact
    <3>2. <<"PostWork", y>> # <<"GetWork", w>>
      OBVIOUS
    <3>3. k = m => hand[k] = <<"PostWork", y>> /\ hand'[k] = NULL
      BY <1>1
    <3>4. k # m => hand'[k] = hand[k]
      BY <1>1
    <3>. QED BY <3>1, <3>2, <3>3, <3>4
  <2>2. \A w : Asking(w)' <=> Asking(w)
    BY DEF Asking
  <2>. QED BY <2>1, <2>2 DEF Requests, Managers, Workers, Boss
<1>14. Works'
  <2>. DEFINE from == <<"hand", m>>
              to == <<"pool", 0>>
  <2>2. ASSUME NEW x \in Nat, NEW k \in Locations \ {from, to}
        PROVE  Holds(k, x)' <=> Holds(k, x)
    BY <1>1, <2>2 DEF Holds, Locations
  <2>3. ASSUME NEW x \in Nat PROVE Holds(from, x)' <=> Holds(from, x) /\ x # y
    <3>1. ~Holds(from, x)'
      BY <1>1, ManagerWorkerAssumption DEF Holds
    <3>2. Holds(from, x) => x = y
      BY DEF Holds
    <3>. QED BY <3>1, <3>2
  <2>4. ASSUME NEW x \in Nat PROVE Holds(to, x)' <=> Holds(to, x) \/ x = y
    BY <1>6 DEF Holds
  <2>5. /\ created \in Nat /\ done' \subseteq Nat /\ created' = created /\ from # to
        /\ Works
    BY DEF MWTypeOK, Works
  <2>6. from \in Locations /\ to \in Locations /\ Holds(from, y)
    BY <1>4
  <2>. HIDE DEF from, to
  <2>. QED BY <1>6, <2>2, <2>3, <2>4, <2>5, <2>6, WorkMoves
<1>15. RequestFollows'
  BY DEF RequestFollows, FollowedBy, Managers, Workers, Boss
<1>16. AllWait'
  <2>1. Len(waiting'[m]) # WorkersPerManager
    BY EmptyFact, ManagerWorkerAssumption
  <2>. QED BY <1>1, <2>1 DEF AllWait, Managers
<1>17. StopWhenQuiet'
  <2>1. \A k \in Managers : /\ k \in CountedManagers' <=> k \in CountedManagers
                            /\ ~ToldToStop(k)'
    BY <1>1, <1>3, RunningFact DEF CountedManagers, ToldToStop
  <2>. QED BY <1>3, <2>1, RunningFact, CountStays
<1>. QED BY <1>11, <1>12, <1>13, <1>14, <1>15, <1>16, <1>17

LEMMA HandlePostInv ==
  ASSUME IInv, NEW m \in Managers, HandlePost(m)
  PROVE  IInv'
<1>1. /\ mpc[m] = "handle" /\ hand[m][1] = "PostWork" /\ hand' = [hand EXCEPT ![m] = NULL]
      /\ UNCHANGED <<main, managersWaiting, queue, created, done>>
  BY DEF HandlePost
<1>2. PICK y \in Nat : hand[m] = <<"PostWork", y>>
  BY <1>1 DEF IInv, HandsFit, Events
<1>3. CASE waiting[m] = <<>>
  <2>1. PICK b \in Managers : /\ mpc[b] = "cwait" \/ b = m
                              /\ mpc' = [mpc EXCEPT ![b] = "cwoken", ![m] = "relock"]
    BY <1>3 DEF HandlePost
  <2>2. pool' = Append(pool, y) /\ UNCHANGED <<waiting, wkrVars>>
    BY <1>2, <1>3 DEF HandlePost, PostToPool
  <2>. QED BY <1>1, <1>2, <1>3, <2>1, <2>2, ToPoolInv
<1>4. CASE waiting[m] # <<>>
  <2>1. /\ Assign({Head(waiting[m])}, y) /\ waiting' = [waiting EXCEPT ![m] = Tail(@)]
        /\ mpc' = [mpc EXCEPT ![m] = "relock"] /\ pool' = pool
    BY <1>2, <1>4 DEF HandlePost, PostToPool, Goto
  <2>2. hand[m] \in {"PostWork", "Work"} \X {y}
    BY <1>2
  <2>. QED BY <1>1, <1>4, <2>1, <2>2, AssignHandInv
<1>. QED BY <1>3, <1>4
\* A request that finds the pool empty: the worker waits.
LEMMA ToWaitingInv ==
  ASSUME IInv, NEW m \in Managers, NEW v \in Workers, hand[m] = <<"GetWork", v>>,
         mpc[m] = "handle", pool = <<>>, waiting' = [waiting EXCEPT ![m] = Append(@, v)],
         hand' = [hand EXCEPT ![m] = NULL], mpc' = [mpc EXCEPT ![m] = "relock"],
         UNCHANGED <<main, pool, managersWaiting, queue, wkrVars, created, done>>
  PROVE  IInv'
<1>. USE DEF IInv, wkrVars
<1>1. waiting[m] \in Seq(Workers) /\ Injective(waiting[m]) /\ ~InSeq(v, waiting[m])
  BY DEF MWTypeOK, Requests
<1>2. /\ Append(waiting[m], v) \in Seq(Workers) /\ Injective(Append(waiting[m], v))
      /\ \A x : InSeq(x, Append(waiting[m], v)) <=> InSeq(x, waiting[m]) \/ x = v
  BY <1>1, AppendFact
<1>3. /\ waiting' \in [Managers -> Seq(Workers)] /\ waiting'[m] = Append(waiting[m], v)
      /\ hand' \in [Managers -> {NULL} \cup Events \cup {"Work"} \X Nat] /\ hand'[m] = NULL
      /\ mpc' \in [Managers -> MStates] /\ mpc'[m] = "relock"
      /\ \A k \in Managers \ {m} :
            waiting'[k] = waiting[k] /\ hand'[k] = hand[k] /\ mpc'[k] = mpc[k]
  BY <1>2 DEF MWTypeOK, MStates
<1>4. hand[m] # NULL
  BY NullFact
<1>5. managersWaiting # NumManagers
  BY <1>4 DEF StopWhenQuiet, Quiet
<1>6. \A w \in Workers : NULL # <<"GetWork", w>>
  BY NullFact
<1>7. /\ Asking(v) /\ Boss(v) = m /\ ~InSeq(<<"GetWork", v>>, queue[m])
      /\ \A w : Asking(w)' <=> Asking(w)
  BY DEF Requests, Asking
<1>11. MWTypeOK'
  BY <1>3 DEF MWTypeOK, Managers, Workers, Events
<1>12. HandsFit' /\ Unborn'
  BY <1>3 DEF HandsFit, Unborn, Managers, Workers, Events, Mine
<1>13. Requests'
  <2>1. ASSUME NEW k \in Managers, NEW w \in Workers
        PROVE  /\ InSeq(<<"GetWork", w>>, queue'[k]) =>
                     /\ Asking(w)' /\ Boss(w) = k
                     /\ hand'[k] # <<"GetWork", w>> /\ ~InSeq(w, waiting'[k])
               /\ hand'[k] = <<"GetWork", w>> =>
                     Asking(w)' /\ Boss(w) = k /\ ~InSeq(w, waiting'[k])
               /\ InSeq(w, waiting'[k]) => Asking(w)' /\ Boss(w) = k
    <3>1. CASE k = m
      <4>1. hand'[m] # <<"GetWork", w>>
        BY <1>3, <1>6
      <4>2. InSeq(w, waiting'[m]) <=> InSeq(w, waiting[m]) \/ w = v
        BY <1>2, <1>3
      <4>3. /\ InSeq(<<"GetWork", w>>, queue[m]) =>
                  Asking(w) /\ Boss(w) = m /\ ~InSeq(w, waiting[m]) /\ w # v
            /\ InSeq(w, waiting[m]) => Asking(w) /\ Boss(w) = m
        BY <1>7 DEF Requests
      <4>. QED BY <1>7, <3>1, <4>1, <4>2, <4>3
    <3>2. CASE k # m
      BY <1>3, <1>7, <3>2 DEF Requests
    <3>. QED BY <3>1, <3>2
  <2>2. \A k \in Managers : Injective(queue'[k]) /\ Injective(waiting'[k])
    BY <1>2, <1>3 DEF Requests
  <2>. QED BY <2>1, <2>2 DEF Requests, Managers, Workers, Boss
<1>14. Works'
  <2>1. \A x \in Nat : /\ hand[m] \notin {"PostWork", "Work"} \X {x}
                       /\ hand'[m] \notin {"PostWork", "Work"} \X {x}
    BY <1>3, ManagerWorkerAssumption
  <2>2. \A x \in Nat, l \in Locations : Holds(l, x)' <=> Holds(l, x)
    BY <1>3, <2>1 DEF Holds, Locations
  <2>. QED BY <2>2, WorksStay DEF Works
<1>15. RequestFollows'
  BY DEF RequestFollows, FollowedBy, Managers, Workers, Boss
<1>16. AllWait'
  BY <1>3 DEF AllWait, Managers
<1>17. StopWhenQuiet'
  <2>1. \A k \in Managers : /\ k \in CountedManagers' <=> k \in CountedManagers
                            /\ ~ToldToStop(k)'
    BY <1>3, <1>5, RunningFact DEF CountedManagers, ToldToStop
  <2>. QED BY <1>5, <2>1, RunningFact, CountStays
<1>. QED BY <1>11, <1>12, <1>13, <1>14, <1>15, <1>16, <1>17

\* A request that finds work in the pool.
LEMMA FromPoolInv ==
  ASSUME IInv, NEW m \in Managers, NEW v \in Workers, hand[m] = <<"GetWork", v>>,
         mpc[m] = "handle", pool # <<>>, Assign({v}, Head(pool)), pool' = Tail(pool),
         hand' = [hand EXCEPT ![m] = NULL], mpc' = [mpc EXCEPT ![m] = "relock"],
         UNCHANGED <<main, managersWaiting, queue, waiting, created, done>>
  PROVE  IInv'
<1>. USE DEF IInv
<1>1. pool \in Seq(Nat) /\ Injective(pool)
  BY DEF MWTypeOK, Works
<1>2. PICK y \in Nat :
         /\ y = Head(pool) /\ InSeq(y, pool) /\ pool' \in Seq(Nat) /\ Injective(pool')
         /\ \A x : InSeq(x, pool') <=> InSeq(x, pool) /\ x # y
  BY <1>1, TailFact
<1>3. /\ hand' \in [Managers -> {NULL} \cup Events \cup {"Work"} \X Nat] /\ hand'[m] = NULL
      /\ mpc' \in [Managers -> MStates] /\ mpc'[m] = "relock"
      /\ \A k \in Managers \ {m} : hand'[k] = hand[k] /\ mpc'[k] = mpc[k]
  BY DEF MWTypeOK, MStates
<1>4. /\ current' \in [Workers -> Nat \cup {NULL}] /\ current'[v] = y
      /\ resumed' \in [Workers -> BOOLEAN] /\ resumed'[v] /\ wpc' = wpc
      /\ \A w \in Workers \ {v} : current'[w] = current[w] /\ resumed'[w] = resumed[w]
  <2>1. /\ current' = [w \in Workers |-> IF w \in {v} THEN y ELSE current[w]]
        /\ resumed' = [w \in Workers |-> resumed[w] \/ w \in {v}] /\ wpc' = wpc
    BY <1>2 DEF Assign
  <2>. QED BY <1>2, <2>1 DEF MWTypeOK
<1>5. hand[m] # NULL /\ \A w \in Workers : NULL # <<"GetWork", w>>
  BY NullFact
<1>6. managersWaiting # NumManagers
  BY <1>5 DEF StopWhenQuiet, Quiet
<1>7. /\ Asking(v) /\ Boss(v) = m
      /\ ~InSeq(<<"GetWork", v>>, queue[m]) /\ ~InSeq(v, waiting[m])
  BY DEF Requests
<1>11. MWTypeOK'
  BY <1>2, <1>3, <1>4 DEF MWTypeOK, Managers, Workers, Events
<1>12. HandsFit' /\ Unborn'
  <2>1. \A w \in Workers : /\ wpc'[w] = "run" => current'[w] \in Nat
                           /\ resumed'[w] => wpc'[w] = "blocked"
    BY <1>4, <1>7 DEF HandsFit, Asking
  <2>2. \A k \in Managers :
           /\ mpc'[k] = "handle" => hand'[k] \in Events
           /\ mpc'[k] = "got" => hand'[k] \in {NULL} \cup {"Work"} \X Nat
           /\ mpc'[k] \notin {"handle", "got"} => hand'[k] = NULL
    BY <1>3 DEF HandsFit
  <2>3. Unborn'
    BY <1>3, <1>4 DEF Unborn, Managers, Workers, Mine
  <2>. QED BY <2>1, <2>2, <2>3 DEF HandsFit, Managers, Workers, Events
<1>13. Requests'
  <2>1. ASSUME NEW k \in Managers, NEW w \in Workers
        PROVE  /\ InSeq(<<"GetWork", w>>, queue'[k]) =>
                     /\ Asking(w)' /\ Boss(w) = k
                     /\ hand'[k] # <<"GetWork", w>> /\ ~InSeq(w, waiting'[k])
               /\ hand'[k] = <<"GetWork", w>> =>
                     Asking(w)' /\ Boss(w) = k /\ ~InSeq(w, waiting'[k])
               /\ InSeq(w, waiting'[k]) => Asking(w)' /\ Boss(w) = k
    <3>1. w # v => (Asking(w)' <=> Asking(w))
      BY <1>4 DEF Asking
    <3>2. w = v => /\ ~InSeq(<<"GetWork", w>>, queue[k]) /\ ~InSeq(w, waiting[k])
                   /\ k # m => hand[k] # <<"GetWork", w>>
      BY <1>7 DEF Requests
    <3>3. hand'[k] = <<"GetWork", w>> => k # m /\ hand[k] = <<"GetWork", w>>
      BY <1>3, <1>5
    <3>. QED BY <3>1, <3>2, <3>3 DEF Requests
  <2>2. \A k \in Managers : Injective(queue'[k]) /\ Injective(waiting'[k])
    BY DEF Requests
  <2>. QED BY <2>1, <2>2 DEF Requests, Managers, Workers, Boss
<1>14. Works'
  <2>. DEFINE from == <<"pool", 0>>
              to == <<"worker", v>>
  <2>1. from \in Locations /\ to \in Locations /\ from # to
    BY DEF Locations
  <2>2. ASSUME NEW x \in Nat, NEW k \in Locations \ {from, to}
        PROVE  Holds(k, x)' <=> Holds(k, x)
    <3>1. /\ hand[m] \notin {"PostWork", "Work"} \X {x}
          /\ hand'[m] \notin {"PostWork", "Work"} \X {x}
      BY <1>3, ManagerWorkerAssumption
    <3>. QED BY <1>3, <1>4, <2>2, <3>1 DEF Holds, Locations
  <2>3. ASSUME NEW x \in Nat PROVE Holds(from, x)' <=> Holds(from, x) /\ x # y
    BY <1>2 DEF Holds
  <2>4. ASSUME NEW x \in Nat PROVE Holds(to, x)' <=> Holds(to, x) \/ x = y
    <3>1. ~Holds(to, x)
      BY <1>7 DEF Holds, Asking
    <3>2. Holds(to, x)' <=> x = y
      BY <1>4 DEF Holds
    <3>. QED BY <3>1, <3>2
  <2>5. Holds(from, y) /\ Works
    BY <1>2 DEF Holds
  <2>6. created \in Nat /\ done' \subseteq Nat /\ created' = created /\ Injective(pool')
    BY <1>2 DEF MWTypeOK, Works
  <2>. HIDE DEF from, to
  <2>. QED BY <2>1, <2>2, <2>3, <2>4, <2>5, <2>6, WorkMoves
<1>15. RequestFollows'
  <2>1. \A k, i : \A w \in Workers : FollowedBy(k, i, w) => FollowedBy(k, i, w)'
    BY <1>4 DEF FollowedBy, Boss
  <2>. QED BY <2>1 DEF RequestFollows, Managers, Workers
<1>16. AllWait'
  BY <1>3 DEF AllWait, Managers
<1>17. StopWhenQuiet'
  <2>1. \A k \in Managers : /\ k \in CountedManagers' <=> k \in CountedManagers
                            /\ ~ToldToStop(k)'
    BY <1>3, <1>5, <1>6, RunningFact DEF CountedManagers, ToldToStop
  <2>2. \A w \in Workers : wpc'[w] # "gone" /\ ~(resumed'[w] /\ current'[w] = NULL)
    BY <1>4, <1>6, RunningFact, NullFact
  <2>. QED BY <1>6, <2>1, <2>2, CountStays
<1>. QED BY <1>11, <1>12, <1>13, <1>14, <1>15, <1>16, <1>17

LEMMA HandleGetInv ==
  ASSUME IInv, NEW m \in Managers, HandleGet(m)
  PROVE  IInv'
<1>1. /\ mpc[m] = "handle" /\ hand[m][1] = "GetWork" /\ hand' = [hand EXCEPT ![m] = NULL]
      /\ mpc' = [mpc EXCEPT ![m] = "relock"]
      /\ UNCHANGED <<main, managersWaiting, queue, created, done>>
  BY DEF HandleGet, Goto
<1>2. PICK v \in Workers : hand[m] = <<"GetWork", v>>
  BY <1>1 DEF IInv, HandsFit, Events
<1>3. CASE pool = <<>>
  <2>1. waiting' = [waiting EXCEPT ![m] = Append(@, v)] /\ UNCHANGED <<pool, wkrVars>>
    BY <1>2, <1>3 DEF HandleGet
  <2>. QED BY <1>1, <1>2, <1>3, <2>1, ToWaitingInv
<1>4. CASE pool # <<>>
  <2>1. Assign({v}, Head(pool)) /\ pool' = Tail(pool) /\ UNCHANGED waiting
    BY <1>2, <1>4 DEF HandleGet
  <2>. QED BY <1>1, <1>2, <1>4, <2>1, FromPoolInv
<1>. QED BY <1>3, <1>4
\* When the workers of every manager wait and no manager has anything in its
\* hand, there is no work and no event anywhere.
LEMMA AllAtRest ==
  ASSUME IInv, \A m \in Managers : Len(waiting[m]) = WorkersPerManager /\ hand[m] = NULL
  PROVE  /\ pool = <<>> /\ \A m \in Managers : queue[m] = <<>>
         /\ \A w \in Workers : Asking(w)
<1>. USE DEF IInv
<1>1. pool = <<>>
  BY DEF AllWait
<1>2. \A w \in Workers : InSeq(w, waiting[Boss(w)])
  BY WaitersFact, BossFact
<1>3. \A w \in Workers : Asking(w) /\ ~InSeq(<<"GetWork", w>>, queue[Boss(w)])
  BY <1>2, BossFact DEF Requests
<1>4. ASSUME NEW m \in Managers, queue[m] # <<>> PROVE FALSE
  <2>1. queue[m] \in Seq(Events)
    BY DEF MWTypeOK
  <2>2. /\ queue[m][1] \in Events /\ InSeq(queue[m][1], queue[m])
        /\ 1 \in 1 .. Len(queue[m])
    BY <1>4, <2>1, TailFact
  <2>3. CASE queue[m][1][1] = "PostWork"
    <3>1. PICK w \in Workers : FollowedBy(m, 1, w)
      BY <2>2, <2>3 DEF RequestFollows
    <3>2. wpc[w] # "request" /\ Boss(w) = m
      BY <1>3, <3>1 DEF Asking, FollowedBy
    <3>3. InSeq(<<"GetWork", w>>, queue[m])
      BY <3>1, <3>2 DEF FollowedBy, InSeq
    <3>. QED BY <1>3, <3>2, <3>3
  <2>4. CASE queue[m][1][1] # "PostWork"
    <3>1. PICK w \in Workers : queue[m][1] = <<"GetWork", w>>
      BY <2>2, <2>4 DEF Events
    <3>2. Boss(w) = m /\ InSeq(<<"GetWork", w>>, queue[m])
      BY <2>2, <3>1 DEF Requests
    <3>. QED BY <1>3, <3>2
  <2>. QED BY <2>3, <2>4
<1>. QED BY <1>1, <1>3, <1>4

\* A manager at the controller finds that all are there, or that there is work,
\* or blocks: in none of the cases does a token move but from pool to hand.
LEMMA AtControllerFact ==
  ASSUME IInv, NEW m \in Managers, mpc[m] \in {"blocking", "cwoken"}
  PROVE  /\ hand[m] = NULL /\ Len(waiting[m]) = WorkersPerManager
         /\ mpc[m] = "blocking" => m \notin CountedManagers
         /\ mpc[m] = "cwoken" => m \in CountedManagers
         /\ mpc[m] = "blocking" => managersWaiting # NumManagers
         /\ managersWaiting = Cardinality(CountedManagers)
<1>1. hand[m] = NULL /\ Len(waiting[m]) = WorkersPerManager
  BY DEF IInv, HandsFit, AllWait
<1>2. /\ mpc[m] = "blocking" => m \notin CountedManagers
      /\ mpc[m] = "cwoken" => m \in CountedManagers
  BY DEF CountedManagers, ToldToStop
<1>. QED BY <1>1, <1>2 DEF IInv, StopWhenQuiet, Quiet

\* The last manager to get there: all are told to stop.
LEMMA LastManagerInv ==
  ASSUME IInv, NEW m \in Managers, mpc[m] \in {"blocking", "cwoken"},
         Blocked(m) = NumManagers, mpc' = [Broadcast EXCEPT ![m] = "got"],
         managersWaiting' = Blocked(m),
         UNCHANGED <<main, pool, queue, waiting, hand, wkrVars, created, done>>
  PROVE  IInv'
<1>. USE DEF IInv, wkrVars
<1>1. /\ mpc' \in [Managers -> MStates] /\ mpc'[m] = "got"
      /\ \A k \in Managers \ {m} : \/ mpc'[k] = mpc[k]
                                   \/ mpc[k] = "cwait" /\ mpc'[k] = "cwoken"
  BY DEF MWTypeOK, MStates, Broadcast
<1>2. CountedManagers \cup {m} = Managers
  <2>1. CASE mpc[m] = "blocking"
    <3>1. m \notin CountedManagers /\ Cardinality(CountedManagers) + 1 = NumManagers
      BY <2>1, AtControllerFact DEF Blocked
    <3>2. /\ IsFiniteSet(CountedManagers \cup {m})
          /\ Cardinality(CountedManagers \cup {m}) = NumManagers
      BY <3>1, CountFact, FS_AddElement
    <3>3. CountedManagers \cup {m} \subseteq Managers
      BY DEF CountedManagers
    <3>. QED BY <3>2, <3>3, CountFact, FS_Subset
  <2>2. CASE mpc[m] = "cwoken"
    <3>1. Cardinality(CountedManagers) = NumManagers
      BY <2>2, AtControllerFact DEF Blocked
    <3>. QED BY <3>1, CountFact
  <2>. QED BY <2>1, <2>2
<1>3. /\ pool = <<>>
      /\ \A k \in Managers : hand[k] = NULL /\ queue[k] = <<>>
      /\ \A w \in Workers : /\ wpc[w] \in {"blocked", "gone"}
                            /\ resumed[w] => current[w] = NULL
  <2>1. CASE managersWaiting = NumManagers
    BY <2>1 DEF StopWhenQuiet, Quiet
  <2>2. CASE managersWaiting # NumManagers
    <3>1. \A k \in Managers : k = m \/ mpc[k] \in {"cwait", "cwoken"}
      BY <1>2, <2>2, RunningFact DEF CountedManagers
    <3>2. \A k \in Managers : Len(waiting[k]) = WorkersPerManager /\ hand[k] = NULL
      BY <3>1, AtControllerFact DEF AllWait, HandsFit
    <3>. QED BY <3>2, AllAtRest DEF Asking
  <2>. QED BY <2>1, <2>2
<1>11. MWTypeOK'
  BY SMTT(30), <1>1, ManagerWorkerAssumption DEF MWTypeOK, Managers, Workers, Events
<1>12. HandsFit' /\ Unborn'
  BY <1>1, <1>3 DEF HandsFit, Unborn, Managers, Workers, Events, Mine
<1>13. Requests'
  BY DEF Requests, Asking, Managers, Workers, Boss
<1>14. Works'
  <2>1. \A x \in Nat, l \in Locations : Holds(l, x)' <=> Holds(l, x)
    BY DEF Holds
  <2>. QED BY <2>1, WorksStay DEF Works
<1>15. RequestFollows'
  BY DEF RequestFollows, FollowedBy, Managers, Workers, Boss
<1>16. AllWait'
  BY <1>1, <1>3, AtControllerFact DEF AllWait, Managers
<1>17. StopWhenQuiet'
  <2>1. \A k \in Managers : mpc'[k] \in {"cwait", "cwoken"} \/ ToldToStop(k)'
    <3>1. mpc'[m] = "got" /\ hand'[m] = NULL
      BY <1>1, <1>3
    <3>2. \A k \in Managers \ {m} : mpc[k] \in {"cwait", "cwoken"} \/ ToldToStop(k)
      BY <1>2 DEF CountedManagers
    <3>3. \A k \in Managers \ {m} : ToldToStop(k) => ToldToStop(k)'
      BY <1>1 DEF ToldToStop
    <3>. QED BY <1>1, <3>1, <3>2, <3>3 DEF ToldToStop
  <2>2. CountedManagers' = Managers
    BY <2>1 DEF CountedManagers, Managers
  <2>3. managersWaiting' = NumManagers /\ Cardinality(CountedManagers') = NumManagers
    BY <2>2, CountFact
  <2>4. Quiet'
    BY <1>3, <2>2 DEF Quiet, Managers, Workers
  <2>. QED BY <2>3, <2>4 DEF StopWhenQuiet, Managers, Workers
<1>. QED BY <1>11, <1>12, <1>13, <1>14, <1>15, <1>16, <1>17
\* A manager that is not the last one, and finds work: it no longer counts.
LEMMA TakeFromPoolInv ==
  ASSUME IInv, NEW m \in Managers, mpc[m] \in {"blocking", "cwoken"},
         Blocked(m) # NumManagers, pool # <<>>, pool' = Tail(pool),
         hand' = [hand EXCEPT ![m] = <<"Work", Head(pool)>>],
         managersWaiting' = Unblocked(Blocked(m)), mpc' = [mpc EXCEPT ![m] = "got"],
         UNCHANGED <<main, queue, waiting, wkrVars, created, done>>
  PROVE  IInv'
<1>. USE DEF IInv, wkrVars
<1>1. pool \in Seq(Nat) /\ Injective(pool)
  BY DEF MWTypeOK, Works
<1>2. PICK y \in Nat :
         /\ y = Head(pool) /\ InSeq(y, pool) /\ pool' \in Seq(Nat) /\ Injective(pool')
         /\ \A x : InSeq(x, pool') <=> InSeq(x, pool) /\ x # y
  BY <1>1, TailFact
<1>3. /\ hand' \in [Managers -> {NULL} \cup Events \cup {"Work"} \X Nat]
      /\ hand'[m] = <<"Work", y>>
      /\ mpc' \in [Managers -> MStates] /\ mpc'[m] = "got"
      /\ \A k \in Managers \ {m} : hand'[k] = hand[k] /\ mpc'[k] = mpc[k]
  BY <1>2 DEF MWTypeOK, MStates
<1>4. hand[m] = NULL /\ hand'[m] # NULL
  BY <1>2, <1>3, NullFact, AtControllerFact
<1>5. managersWaiting # NumManagers
  BY AtControllerFact DEF Blocked
<1>11. MWTypeOK'
  BY <1>2, <1>3 DEF MWTypeOK, Managers, Workers, Events, Unblocked, Blocked
<1>12. HandsFit' /\ Unborn'
  BY <1>2, <1>3 DEF HandsFit, Unborn, Managers, Workers, Events, Mine
<1>13. Requests'
  <2>1. ASSUME NEW k \in Managers, NEW w \in Workers
        PROVE  hand'[k] = <<"GetWork", w>> <=> hand[k] = <<"GetWork", w>>
    <3>1. NULL # <<"GetWork", w>> /\ <<"Work", y>> # <<"GetWork", w>>
      BY NullFact
    <3>2. k = m => hand[k] = NULL /\ hand'[k] = <<"Work", y>>
      BY <1>3, <1>4
    <3>3. k # m => hand'[k] = hand[k]
      BY <1>3
    <3>. QED BY <3>1, <3>2, <3>3
  <2>2. \A w : Asking(w)' <=> Asking(w)
    BY DEF Asking
  <2>. QED BY <2>1, <2>2 DEF Requests, Managers, Workers, Boss
<1>14. Works'
  <2>. DEFINE from == <<"pool", 0>>
              to == <<"hand", m>>
  <2>1. from \in Locations /\ to \in Locations /\ from # to
    BY DEF Locations
  <2>2. ASSUME NEW x \in Nat, NEW k \in Locations \ {from, to}
        PROVE  Holds(k, x)' <=> Holds(k, x)
    BY <1>3, <2>2 DEF Holds, Locations
  <2>3. ASSUME NEW x \in Nat PROVE Holds(from, x)' <=> Holds(from, x) /\ x # y
    BY <1>2 DEF Holds
  <2>4. ASSUME NEW x \in Nat PROVE Holds(to, x)' <=> Holds(to, x) \/ x = y
    <3>1. ~Holds(to, x)
      BY <1>4, ManagerWorkerAssumption DEF Holds
    <3>2. Holds(to, x)' <=> x = y
      BY <1>3 DEF Holds
    <3>. QED BY <3>1, <3>2
  <2>5. Holds(from, y) /\ Works
    BY <1>2 DEF Holds
  <2>6. created \in Nat /\ done' \subseteq Nat /\ created' = created /\ Injective(pool')
    BY <1>2 DEF MWTypeOK, Works
  <2>. HIDE DEF from, to
  <2>. QED BY <2>1, <2>2, <2>3, <2>4, <2>5, <2>6, WorkMoves
<1>15. RequestFollows'
  BY DEF RequestFollows, FollowedBy, Managers, Workers, Boss
<1>16. AllWait'
  BY <1>3, AtControllerFact DEF AllWait, Managers
<1>17. StopWhenQuiet'
  <2>1. CountedManagers' = CountedManagers \ {m}
    BY <1>3, <1>4 DEF CountedManagers, ToldToStop, Managers
  <2>2. managersWaiting' = Cardinality(CountedManagers')
    <3>1. CASE mpc[m] = "blocking"
      <4>1. CountedManagers' = CountedManagers
        BY <2>1, <3>1, AtControllerFact
      <4>. QED BY <3>1, <4>1, AtControllerFact, CountFact DEF Unblocked, Blocked
    <3>2. CASE mpc[m] = "cwoken"
      <4>1. Cardinality(CountedManagers \ {m}) = Cardinality(CountedManagers) - 1
        BY <3>2, AtControllerFact, CountFact, FS_RemoveElement
      <4>. QED BY <2>1, <3>2, <4>1, AtControllerFact DEF Unblocked, Blocked
    <3>. QED BY <3>1, <3>2
  <2>3. managersWaiting' # NumManagers
    BY <1>5, AtControllerFact, CountFact, ManagerWorkerAssumption DEF Unblocked, Blocked
  <2>4. \A k \in Managers : ~ToldToStop(k)'
    BY <1>3, <1>4, <1>5, RunningFact DEF ToldToStop
  <2>. QED BY <1>5, <2>2, <2>3, <2>4, RunningFact, StillRunning
<1>. QED BY <1>11, <1>12, <1>13, <1>14, <1>15, <1>16, <1>17

\* A manager that is not the last one, and finds no work: it blocks.
LEMMA BlockInv ==
  ASSUME IInv, NEW m \in Managers, mpc[m] \in {"blocking", "cwoken"},
         Blocked(m) # NumManagers, managersWaiting' = Blocked(m),
         mpc' = [mpc EXCEPT ![m] = "cwait"],
         UNCHANGED <<main, pool, hand, queue, waiting, wkrVars, created, done>>
  PROVE  IInv'
<1>. USE DEF IInv, wkrVars
<1>1. /\ mpc' \in [Managers -> MStates] /\ mpc'[m] = "cwait"
      /\ \A k \in Managers \ {m} : mpc'[k] = mpc[k]
  BY DEF MWTypeOK, MStates
<1>2. managersWaiting # NumManagers
  BY AtControllerFact DEF Blocked
<1>11. MWTypeOK'
  BY <1>1 DEF MWTypeOK, Managers, Workers, Events, Blocked
<1>12. HandsFit' /\ Unborn'
  BY <1>1 DEF HandsFit, Unborn, Managers, Workers, Events, Mine
<1>13. Requests'
  BY DEF Requests, Asking, Managers, Workers, Boss
<1>14. Works'
  <2>1. \A x \in Nat, l \in Locations : Holds(l, x)' <=> Holds(l, x)
    BY DEF Holds
  <2>. QED BY <2>1, WorksStay DEF Works
<1>15. RequestFollows'
  BY DEF RequestFollows, FollowedBy, Managers, Workers, Boss
<1>16. AllWait'
  BY <1>1, AtControllerFact DEF AllWait, Managers
<1>17. StopWhenQuiet'
  <2>1. CountedManagers' = CountedManagers \cup {m}
    BY <1>1 DEF CountedManagers, ToldToStop, Managers
  <2>2. managersWaiting' = Cardinality(CountedManagers')
    <3>1. CASE mpc[m] = "blocking"
      <4>1. Cardinality(CountedManagers \cup {m}) = Cardinality(CountedManagers) + 1
        BY <3>1, AtControllerFact, CountFact, FS_AddElement
      <4>. QED BY <2>1, <3>1, <4>1, AtControllerFact DEF Blocked
    <3>2. CASE mpc[m] = "cwoken"
      <4>1. CountedManagers' = CountedManagers
        BY <2>1, <3>2, AtControllerFact
      <4>. QED BY <3>2, <4>1, AtControllerFact DEF Blocked
    <3>. QED BY <3>1, <3>2
  <2>3. \A k \in Managers : ~ToldToStop(k)'
    BY <1>1, <1>2, RunningFact DEF ToldToStop
  <2>. QED BY <1>2, <2>2, <2>3, RunningFact, StillRunning
<1>. QED BY <1>11, <1>12, <1>13, <1>14, <1>15, <1>16, <1>17

LEMMA BlockingGetWorkInv ==
  ASSUME IInv, NEW m \in Managers, BlockingGetWork(m)
  PROVE  IInv'
<1>1. /\ mpc[m] \in {"blocking", "cwoken"}
      /\ UNCHANGED <<main, queue, waiting, wkrVars, created, done>>
  BY DEF BlockingGetWork
<1>2. CASE /\ Blocked(m) = NumManagers /\ mpc' = [Broadcast EXCEPT ![m] = "got"]
           /\ managersWaiting' = Blocked(m) /\ UNCHANGED <<hand, pool>>
  BY <1>1, <1>2, LastManagerInv
<1>3. CASE /\ Blocked(m) # NumManagers /\ pool # <<>> /\ pool' = Tail(pool)
           /\ hand' = [hand EXCEPT ![m] = <<"Work", Head(pool)>>]
           /\ managersWaiting' = Unblocked(Blocked(m)) /\ Goto(m, "got")
  BY <1>1, <1>3, TakeFromPoolInv DEF Goto
<1>4. CASE /\ Blocked(m) # NumManagers /\ managersWaiting' = Blocked(m) /\ Goto(m, "cwait")
           /\ UNCHANGED <<hand, pool>>
  BY <1>1, <1>4, BlockInv DEF Goto
<1>. QED BY <1>2, <1>3, <1>4 DEF BlockingGetWork

\* A manager that is told to stop sends its workers home.
LEMMA SendHomeInv ==
  ASSUME IInv, NEW m \in Managers, mpc[m] = "got", hand[m] = NULL,
         Assign({waiting[m][i] : i \in DOMAIN waiting[m]}, NULL),
         waiting' = [waiting EXCEPT ![m] = <<>>], mpc' = [mpc EXCEPT ![m] = "stop"],
         hand' = [hand EXCEPT ![m] = NULL],
         UNCHANGED <<main, pool, managersWaiting, queue, created, done>>
  PROVE  IInv'
<1>. USE DEF IInv
<1>. DEFINE ws == {waiting[m][i] : i \in DOMAIN waiting[m]}
<1>1. waiting[m] \in Seq(Workers) /\ <<>> \in Seq(Workers)
  BY EmptySeq DEF MWTypeOK
<1>2. \A w : w \in ws <=> InSeq(w, waiting[m])
  BY <1>1, LenProperties DEF InSeq
<1>3. /\ waiting' \in [Managers -> Seq(Workers)] /\ waiting'[m] = <<>>
      /\ mpc' \in [Managers -> MStates] /\ mpc'[m] = "stop" /\ hand' = hand
      /\ \A k \in Managers \ {m} : waiting'[k] = waiting[k] /\ mpc'[k] = mpc[k]
  BY <1>1 DEF MWTypeOK, MStates
<1>4. /\ current' \in [Workers -> Nat \cup {NULL}] /\ wpc' = wpc
      /\ resumed' \in [Workers -> BOOLEAN]
      /\ \A w \in Workers : IF InSeq(w, waiting[m])
                            THEN current'[w] = NULL /\ resumed'[w]
                            ELSE current'[w] = current[w] /\ resumed'[w] = resumed[w]
  <2>1. /\ current' = [w \in Workers |-> IF w \in ws THEN NULL ELSE current[w]]
        /\ resumed' = [w \in Workers |-> resumed[w] \/ w \in ws] /\ wpc' = wpc
    BY DEF Assign
  <2>. HIDE DEF ws
  <2>. QED BY <1>2, <2>1 DEF MWTypeOK
<1>5. \A w \in Workers : InSeq(w, waiting[m]) => Asking(w) /\ Boss(w) = m
  BY DEF Requests
<1>6. managersWaiting = NumManagers /\ Quiet
  BY DEF StopWhenQuiet, ToldToStop
<1>. HIDE DEF ws
<1>11. MWTypeOK'
  BY <1>3, <1>4 DEF MWTypeOK, Managers, Workers, Events
<1>12. HandsFit' /\ Unborn'
  <2>1. \A w \in Workers : /\ wpc'[w] = "run" => current'[w] \in Nat
                           /\ resumed'[w] => wpc'[w] = "blocked"
    BY <1>4, <1>5 DEF HandsFit, Asking
  <2>2. \A k \in Managers :
           /\ mpc'[k] = "handle" => hand'[k] \in Events
           /\ mpc'[k] = "got" => hand'[k] \in {NULL} \cup {"Work"} \X Nat
           /\ mpc'[k] \notin {"handle", "got"} => hand'[k] = NULL
    BY <1>3 DEF HandsFit
  <2>3. Unborn'
    BY <1>3, <1>4 DEF Unborn, Managers, Workers, Mine
  <2>. QED BY <2>1, <2>2, <2>3 DEF HandsFit, Managers, Workers, Events
<1>13. Requests'
  <2>1. ASSUME NEW k \in Managers, NEW w \in Workers
        PROVE  /\ InSeq(<<"GetWork", w>>, queue'[k]) =>
                     /\ Asking(w)' /\ Boss(w) = k
                     /\ hand'[k] # <<"GetWork", w>> /\ ~InSeq(w, waiting'[k])
               /\ hand'[k] = <<"GetWork", w>> =>
                     Asking(w)' /\ Boss(w) = k /\ ~InSeq(w, waiting'[k])
               /\ InSeq(w, waiting'[k]) => Asking(w)' /\ Boss(w) = k
    <3>1. queue'[k] = <<>> /\ hand'[k] = NULL /\ NULL # <<"GetWork", w>>
      BY <1>3, <1>6, NullFact DEF Quiet
    <3>2. InSeq(w, waiting'[k]) => k # m /\ InSeq(w, waiting[k])
      BY <1>3, EmptyFact
    <3>3. InSeq(w, waiting'[k]) => Asking(w) /\ Boss(w) = k /\ ~InSeq(w, waiting[m])
      BY <1>5, <3>2 DEF Requests
    <3>4. InSeq(w, waiting'[k]) => Asking(w)' /\ Boss(w) = k
      BY <1>4, <3>3 DEF Asking
    <3>. QED BY <3>1, <3>4, EmptyFact
  <2>2. \A k \in Managers : Injective(queue'[k]) /\ Injective(waiting'[k])
    BY <1>3, EmptyFact DEF Requests
  <2>. QED BY <2>1, <2>2 DEF Requests, Managers, Workers, Boss
<1>14. Works'
  <2>1. \A w \in Workers, x \in Nat :
           current'[w] = x /\ (resumed'[w] \/ wpc'[w] = "run") <=>
           current[w] = x /\ (resumed[w] \/ wpc[w] = "run")
    BY <1>4, <1>5, NullFact DEF Asking
  <2>2. \A x \in Nat, l \in Locations : Holds(l, x)' <=> Holds(l, x)
    BY <1>3, <2>1 DEF Holds, Locations
  <2>. QED BY <2>2, WorksStay DEF Works
<1>15. RequestFollows'
  <2>1. \A k, i : \A w \in Workers : FollowedBy(k, i, w) => FollowedBy(k, i, w)'
    BY <1>4 DEF FollowedBy, Boss
  <2>. QED BY <2>1 DEF RequestFollows, Managers, Workers
<1>16. AllWait'
  BY <1>3, <1>6 DEF AllWait, Quiet, Managers
<1>17. StopWhenQuiet'
  <2>1. /\ \A k \in Managers : /\ k \in CountedManagers' <=> k \in CountedManagers
                               /\ ToldToStop(k)' <=> ToldToStop(k)
    BY <1>3 DEF CountedManagers, ToldToStop
  <2>2. CountedManagers' = CountedManagers
    BY <2>1 DEF CountedManagers, Managers
  <2>3. Quiet'
    <3>1. \A w \in Workers : resumed'[w] => current'[w] = NULL
      BY <1>4, <1>6 DEF Quiet
    <3>. QED BY <1>3, <1>4, <1>6, <2>2, <3>1 DEF Quiet, Managers, Workers
  <2>. QED BY <1>6, <2>2, <2>3 DEF StopWhenQuiet, Managers, Workers
<1>. QED BY <1>11, <1>12, <1>13, <1>14, <1>15, <1>16, <1>17
LEMMA AnsweredInv ==
  ASSUME IInv, NEW m \in Managers, Answered(m)
  PROVE  IInv'
<1>1. /\ mpc[m] = "got" /\ hand' = [hand EXCEPT ![m] = NULL]
      /\ UNCHANGED <<main, pool, managersWaiting, queue, created, done>>
  BY DEF Answered, poolVars
<1>2. CASE hand[m] = NULL
  BY <1>1, <1>2, SendHomeInv DEF Answered, Goto
<1>3. CASE hand[m] # NULL
  <2>1. PICK y \in Nat : hand[m] = <<"Work", y>>
    BY <1>1, <1>3 DEF IInv, HandsFit
  <2>2. /\ Assign({Head(waiting[m])}, y) /\ waiting' = [waiting EXCEPT ![m] = Tail(@)]
        /\ mpc' = [mpc EXCEPT ![m] = "top"]
    BY <1>3, <2>1 DEF Answered, Goto
  <2>3. waiting[m] # <<>>
    BY <1>1, EmptyFact, ManagerWorkerAssumption DEF IInv, AllWait
  <2>4. hand[m] \in {"PostWork", "Work"} \X {y}
    BY <2>1
  <2>. QED BY <1>1, <2>2, <2>3, <2>4, AssignHandInv
<1>. QED BY <1>2, <1>3

-----------------------------------------------------------------------------
(* The theorems *)

LEMMA InitInv == Init => IInv
<1>. SUFFICES ASSUME Init PROVE IInv
  OBVIOUS
<1>. USE ManagerWorkerAssumption
<1>1. MWTypeOK
  <2>1. pool \in Seq(Nat) /\ Injective(pool) /\ created \in Nat
    <3>1. pool = [i \in 1 .. InitialWork |-> i] /\ created = InitialWork
      BY DEF Init
    <3>2. pool \in Seq(Nat)
      BY <3>1, SeqDef
    <3>. QED BY <3>1, <3>2 DEF Injective
  <2>2. \A s : <<>> \in Seq(s)
    BY EmptySeq
  <2>. QED BY <2>1, <2>2 DEF Init, MWTypeOK, MStates, WStates
<1>2. HandsFit /\ Unborn
  BY SMTT(30), NullFact DEF Init, HandsFit, Unborn, Mine, Workers
<1>3. \A m \in Managers : /\ queue[m] = <<>> /\ waiting[m] = <<>> /\ hand[m] = NULL
                          /\ mpc[m] = "start"
  BY DEF Init
<1>4. Requests
  <2>1. \A m \in Managers : \A e : ~InSeq(e, queue[m]) /\ ~InSeq(e, waiting[m])
    BY <1>3, EmptyFact
  <2>2. \A m \in Managers, w \in Workers : hand[m] # <<"GetWork", w>>
    BY <1>3, NullFact
  <2>. QED BY <1>3, <2>1, <2>2, EmptyFact DEF Requests
<1>5. Works
  <2>1. /\ Len(pool) = InitialWork /\ \A i \in 1 .. InitialWork : pool[i] = i
        /\ created = InitialWork
    BY DEF Init
  <2>2. \A x \in Nat : InSeq(x, pool) <=> x \in 1 .. created
    BY <2>1 DEF InSeq
  <2>3. ASSUME NEW x \in Nat, NEW l \in Locations
        PROVE  Holds(l, x) <=> l = <<"pool", 0>> /\ x \in 1 .. created
    <3>1. \A m \in Managers : /\ ~InSeq(<<"PostWork", x>>, queue[m])
                              /\ hand[m] \notin {"PostWork", "Work"} \X {x}
      BY <1>3, EmptyFact
    <3>2. done = {} /\ \A w \in Workers : ~resumed[w] /\ wpc[w] # "run"
      BY DEF Init
    <3>. QED BY <2>2, <3>1, <3>2 DEF Holds, Locations
  <2>4. <<"pool", 0>> \in Locations
    BY DEF Locations
  <2>5. \A x \in 1 .. created : OneLocation(x)
    BY <2>1, <2>3, <2>4 DEF OneLocation
  <2>6. done \subseteq Nat /\ Injective(pool)
    BY <2>1 DEF Init, Injective
  <2>. QED BY <2>3, <2>5, <2>6 DEF Works
<1>6. RequestFollows
  BY <1>3, EmptyFact DEF RequestFollows
<1>7. AllWait
  <2>1. 0 \in Managers
    BY DEF Managers
  <2>2. \A m \in Managers : Len(waiting[m]) = 0
    BY <1>3, EmptyFact
  <2>. QED BY <1>3, <2>1, <2>2 DEF AllWait
<1>8. StopWhenQuiet
  <2>1. CountedManagers = {}
    BY <1>3 DEF CountedManagers, ToldToStop
  <2>2. managersWaiting = Cardinality(CountedManagers) /\ managersWaiting # NumManagers
    BY <2>1, FS_EmptySet DEF Init
  <2>. QED BY <1>3, <2>2 DEF Init, StopWhenQuiet, ToldToStop
<1>. QED BY <1>1, <1>2, <1>4, <1>5, <1>6, <1>7, <1>8 DEF IInv

LEMMA NextInv == IInv /\ [Next]_vars => IInv'
<1>. SUFFICES ASSUME IInv, [Next]_vars PROVE IInv'
  OBVIOUS
<1>1. CASE UNCHANGED vars
  <2>1. /\ UNCHANGED <<queue, waiting, hand, wkrVars, pool, managersWaiting, created, done>>
        /\ mpc' = mpc /\ main' = main
    BY <1>1 DEF vars, poolVars, mgrVars
  <2>2. mpc' \in [Managers -> MStates]
    BY <2>1 DEF IInv, MWTypeOK
  <2>. QED BY <2>1, <2>2, QuietStep DEF Idling, IInv, AllWait
<1>2. CASE Main
  BY <1>2, MainInv, RunMainWorkerInv DEF Main
<1>3. ASSUME NEW m \in Managers, Manager(m) PROVE IInv'
  BY <1>3, StartWorkersInv, TurnInv, SleepStopInv, HandlePostInv, HandleGetInv,
     BlockingGetWorkInv, AnsweredInv DEF Manager
<1>4. ASSUME NEW w \in Workers, Worker(w) PROVE IInv'
  BY <1>4, RequestWorkInv, ResumeInv, RunWorkInv, PostWorkInv DEF Worker
<1>. QED BY <1>1, <1>2, <1>3, <1>4 DEF Next

LEMMA InductiveInv == Spec => []IInv
<1>. QED BY InitInv, NextInv, PTL DEF Spec

\* Each piece of work is in exactly one place (pool, queue, hand, worker or
\* done), whatever way it travels between any number of managers and workers.
THEOREM WorkNeitherLostNorDoubled == Spec => []WorkInOnePlace
<1>1. IInv => WorkInOnePlace
  <2>. SUFFICES ASSUME IInv, NEW x \in 1 .. created
                PROVE  Cardinality(Places(x)) = 1
    BY DEF WorkInOnePlace
  <2>1. created \in Nat /\ x \in Nat
    BY DEF IInv, MWTypeOK
  <2>2. PICK l \in Locations : \A k \in Locations : Holds(k, x) <=> k = l
    BY DEF IInv, Works, OneLocation
  <2>3. /\ Holds(<<"pool", 0>>, x) <=> InSeq(x, pool)
        /\ Holds(<<"done", 0>>, x) <=> x \in done
        /\ \A m \in Managers :
              /\ Holds(<<"queue", m>>, x) <=> InSeq(<<"PostWork", x>>, queue[m])
              /\ Holds(<<"hand", m>>, x) <=> hand[m] \in {"PostWork", "Work"} \X {x}
        /\ \A w \in Workers :
              Holds(<<"worker", w>>, x) <=>
                current[w] = x /\ (resumed[w] \/ wpc[w] = "run")
    BY DEF Holds
  <2>4. /\ DOMAIN pool = 1 .. Len(pool)
        /\ \A m \in Managers : DOMAIN queue[m] = 1 .. Len(queue[m])
    BY LenProperties DEF IInv, MWTypeOK
  <2>. DEFINE P == {<<"pool", i>> : i \in {i \in DOMAIN pool : pool[i] = x}}
              Q == {<<"queue", m>> : m \in {m \in Managers :
                       \E i \in DOMAIN queue[m] : queue[m][i] = <<"PostWork", x>>}}
              H == {<<"hand", m>> : m \in {m \in Managers :
                       hand[m] \in {"PostWork", "Work"} \X {x}}}
              W == {<<"worker", w>> : w \in {w \in Workers :
                       current[w] = x /\ (resumed[w] \/ wpc[w] = "run")}}
              D == {<<"done", 0>> : y \in done \cap {x}}
  <2>5. Places(x) = P \cup Q \cup H \cup W \cup D
    BY DEF Places
  <2>6. ~InSeq(x, pool) => P = {}
    BY <2>4 DEF InSeq
  <2>7. InSeq(x, pool) => \E p : P = {p}
    <3>1. SUFFICES ASSUME NEW i \in 1 .. Len(pool), pool[i] = x PROVE P = {<<"pool", i>>}
      BY DEF InSeq
    <3>. QED BY <2>4, <3>1 DEF IInv, Works, Injective
  <2>8. /\ \A p \in Q : \E m \in Managers : p = <<"queue", m>> /\ Holds(p, x)
        /\ \A m \in Managers : Holds(<<"queue", m>>, x) => <<"queue", m>> \in Q
    BY ZenonT(40), <2>3, <2>4 DEF InSeq
  <2>9. /\ \A p \in H : \E m \in Managers : p = <<"hand", m>> /\ Holds(p, x)
        /\ \A m \in Managers : Holds(<<"hand", m>>, x) => <<"hand", m>> \in H
    BY <2>3
  <2>10. /\ \A p \in W : \E w \in Workers : p = <<"worker", w>> /\ Holds(p, x)
         /\ \A w \in Workers : Holds(<<"worker", w>>, x) => <<"worker", w>> \in W
    BY <2>3
  <2>11. /\ \A p \in D : p = <<"done", 0>> /\ Holds(p, x)
         /\ Holds(<<"done", 0>>, x) => <<"done", 0>> \in D
    BY <2>3
  <2>. HIDE DEF P, Q, H, W, D
  <2>12. \A p : p \in Q \cup H \cup W \cup D <=> p = l /\ p # <<"pool", 0>>
    <3>1. \A p \in Q \cup H \cup W \cup D :
             p \in Locations /\ Holds(p, x) /\ p # <<"pool", 0>>
      BY <2>8, <2>9, <2>10, <2>11 DEF Locations
    <3>2. Holds(l, x)
      BY <2>2
    <3>3. l # <<"pool", 0>> => l \in Q \cup H \cup W \cup D
      BY <3>2, <2>8, <2>9, <2>10, <2>11 DEF Locations
    <3>. QED BY <2>2, <3>1, <3>3
  <2>13. InSeq(x, pool) <=> l = <<"pool", 0>>
    <3>1. <<"pool", 0>> \in Locations
      BY DEF Locations
    <3>. QED BY <2>2, <2>3, <3>1
  <2>14. \E p : Places(x) = {p}
    <3>1. CASE l = <<"pool", 0>>
      <4>1. Q \cup H \cup W \cup D = {}
        BY <2>12, <3>1
      <4>2. Places(x) = P
        BY <2>5, <4>1
      <4>. QED BY <2>7, <2>13, <3>1, <4>2
    <3>2. CASE l # <<"pool", 0>>
      <4>1. Q \cup H \cup W \cup D = {l}
        BY <2>12, <3>2
      <4>2. Places(x) = {l}
        BY <2>5, <2>6, <2>13, <3>2, <4>1
      <4>. QED BY <4>2
    <3>. QED BY <3>1, <3>2
  <2>. QED BY <2>14, FS_Singleton
<1>. QED BY <1>1, InductiveInv, PTL

\* A worker goes home only when all work ever created has been run, and every
\* other worker has gone home or waits for its manager.
THEOREM HomeOnlyWhenDone == Spec => []SentHomeOnlyWhenDone
<1>1. IInv => SentHomeOnlyWhenDone
  <2>. SUFFICES ASSUME IInv, NEW g \in Workers, wpc[g] = "gone"
                PROVE  /\ done = 1 .. created
                       /\ \A w \in Workers : wpc[w] \in {"gone", "blocked"}
    BY DEF SentHomeOnlyWhenDone
  <2>1. Quiet
    BY DEF IInv, StopWhenQuiet
  <2>2. /\ done \subseteq Nat /\ created \in Nat
        /\ \A x \in Nat : Holds(<<"done", 0>>, x) <=> x \in done
        /\ <<"done", 0>> \in Locations
    BY DEF IInv, Works, MWTypeOK, Holds, Locations
  <2>3. done \subseteq 1 .. created
    BY <2>2 DEF IInv, Works
  <2>4. ASSUME NEW x \in 1 .. created PROVE x \in done
    <3>1. x \in Nat
      BY <2>2
    <3>2. PICK l \in Locations : Holds(l, x)
      BY DEF IInv, Works, OneLocation
    <3>3. /\ ~InSeq(x, pool)
          /\ \A m \in Managers : /\ ~InSeq(<<"PostWork", x>>, queue[m])
                                 /\ hand[m] \notin {"PostWork", "Work"} \X {x}
      BY <2>1, <3>1, EmptyFact, ManagerWorkerAssumption DEF Quiet
    <3>4. \A w \in Workers : ~(current[w] = x /\ (resumed[w] \/ wpc[w] = "run"))
      BY <2>1, <3>1, NullFact DEF Quiet
    <3>. QED BY <3>2, <3>3, <3>4 DEF Holds, Locations
  <2>. QED BY <2>1, <2>3, <2>4 DEF Quiet
<1>. QED BY <1>1, InductiveInv, PTL
=============================================================================
