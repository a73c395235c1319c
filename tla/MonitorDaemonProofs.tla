-------------------------- MODULE MonitorDaemonProofs --------------------------
(***************************************************************************)
(* Proofs about MonitorDaemon, for every number of VPs and every set of    *)
(* jobs.  MD is its instance in Prototypes: the invariant is one of        *)
(* MD!Spec, and the theorems are about the composition.                    *)
(***************************************************************************)
EXTENDS Prototypes, SequenceTheorems, FiniteSetTheorems, WellFoundedInduction, TLAPS

-----------------------------------------------------------------------------
(* An instance has operators of its own for those of the library *)

LEMMA SameRange == \A s : MD!Range(s) = Range(s)
BY DEF MD!Range, Range

LEMMA SameCardinality == \A S : MD!Cardinality(S) = Cardinality(S)
<1>1. \A S : MD!IsFiniteSet(S) <=> IsFiniteSet(S) BY DEF MD!IsFiniteSet, IsFiniteSet
<1> QED BY <1>1 DEF MD!Cardinality, Cardinality

-----------------------------------------------------------------------------
(* The invariant *)

Fns     == MD!Jobs \cup {Main}
Handed  == MD!Jobs \cup {NULL}
FrameOf == [body : Fns, joins : Handed]

\* Where a VP is: in run(), in a body or one of its joins, or waiting for what
\* request_job gives to either.
AtRun   == {"loop", "gone"}
InBody  == {"body", "post", "join", "joined", "help", "stop", "ended"}
Waiting == {"wait", "awake"}

MDTypeOK ==
    /\ state \in [MD!Jobs -> {"none", "ready", "running", "finished"}]
    /\ map \subseteq MD!Jobs
    /\ current \in [MD!VPs -> Handed]
    /\ context \in [MD!VPs -> Seq(Handed)]
    /\ frames \in [MD!VPs -> Seq(FrameOf)]
    /\ pc \in [MD!VPs -> AtRun \cup InBody \cup Waiting]

\* A join that looks for other work has saved the current job of its body.
Helps(v) == frames[v] # <<>> /\ pc[v] \in Waiting \cup {"help"}

\* One saved context for every body below the top, and one of a helping join.
ShapeAt(v) ==
    /\ pc[v] \in AtRun => frames[v] = <<>>
    /\ pc[v] \in InBody => frames[v] # <<>>
    /\ frames[v] = <<>> => Len(context[v]) = 0
    /\ Helps(v) => Len(context[v]) = Len(frames[v])
    /\ frames[v] # <<>> /\ ~Helps(v) => Len(context[v]) = Len(frames[v]) - 1

\* The bodies below the top are in a join, and so is the top one while it
\* looks at the job or helps.
JoinsAt(v) ==
    \A i \in DOMAIN frames[v] :
        \/ frames[v][i].joins \in MD!Jobs
        \/ i = Len(frames[v]) /\ pc[v] \in {"body", "post", "stop", "ended"}

Running(v, j) == \E i \in DOMAIN frames[v] : frames[v][i].body = j

\* v has the job j: it is its current job, or one it saved, or one it runs.
Holds(v, j) ==
    \/ current[v] = j
    \/ \E i \in DOMAIN context[v] : context[v][i] = j
    \/ Running(v, j)

OnceAt(v) ==
    \A i, k \in DOMAIN frames[v] : frames[v][i].body = frames[v][k].body => i = k

MainAt(v) ==
    \A i \in DOMAIN frames[v] : frames[v][i].body = Main => v = 0 /\ i = 1

\* What a helping join has been given is new to the VP.
FreshAt(v) ==
    Helps(v) => current[v] = MD!Last(context[v]) \/ ~Running(v, current[v])

Unclaimed(j) == state[j] \in {"none", "ready"}

HeldAt(j) ==
    /\ \A v, w \in MD!VPs : Holds(v, j) /\ Holds(w, j) => v = w
    /\ Unclaimed(j) => \A v \in MD!VPs : ~Holds(v, j)

MDLocal(v) == ShapeAt(v) /\ JoinsAt(v) /\ OnceAt(v) /\ MainAt(v) /\ FreshAt(v)

MDInv ==
    /\ MDTypeOK
    /\ \A v \in MD!VPs : MDLocal(v)
    /\ \A j \in MD!Jobs : HeldAt(j)

-----------------------------------------------------------------------------
(* Lemmas *)

\* What Front and Last are.
LEMMA FrontFacts ==
    ASSUME NEW S, NEW s \in Seq(S), s # <<>>
    PROVE  /\ MD!Front(s) \in Seq(S) /\ Len(MD!Front(s)) = Len(s) - 1
           /\ \A i \in 1 .. Len(s) - 1 : MD!Front(s)[i] = s[i]
           /\ Len(s) \in Nat \ {0} /\ MD!Last(s) \in S /\ MD!Last(s) = s[Len(s)]
<1>1. Len(s) \in Nat \ {0} /\ MD!Last(s) = s[Len(s)] /\ MD!Last(s) \in S
  BY DEF MD!Last
<1> DEFINE n == Len(s) - 1
<1>2. n \in Nat /\ n - 1 + 1 = n /\ \A i \in 1 .. n : s[i] \in S /\ 1 + i - 1 = i
  BY <1>1
<1>3. MD!Front(s) = SubSeq(s, 1, n) BY DEF MD!Front
<1>4. /\ MD!Front(s) \in Seq(S)
      /\ Len(MD!Front(s)) = IF 1 <= n THEN n - 1 + 1 ELSE 0
      /\ \A i \in 1 .. n - 1 + 1 : MD!Front(s)[i] = s[1 + i - 1]
  <2> HIDE DEF n
  <2> QED BY <1>2, <1>3, SubSeqProperties
<1>5. Len(MD!Front(s)) = n /\ \A i \in 1 .. n : MD!Front(s)[i] = s[i]
  <2> HIDE DEF n
  <2> QED BY <1>2, <1>4
<1> QED BY <1>1, <1>4, <1>5

\* A VP keeps its part of the invariant when it only gets a current job that it
\* does not run, and only goes on waiting or has posted a job.
LEMMA LocalKept ==
    ASSUME NEW w \in MD!VPs, MDTypeOK, MDLocal(w),
           frames'[w] = frames[w], context'[w] = context[w],
           \/ pc'[w] = pc[w]
           \/ pc[w] \in Waiting \cup {"loop", "help"} /\ pc'[w] \in Waiting
           \/ pc[w] = "post" /\ pc'[w] = "body",
           current'[w] = current[w] \/ ~Running(w, current'[w])
    PROVE  MDLocal(w)'
<1>1. frames[w] \in Seq(FrameOf) /\ context[w] \in Seq(Handed) BY DEF MDTypeOK
<1>2. Helps(w)' => Helps(w) BY DEF MDLocal, ShapeAt, Helps, AtRun, Waiting
<1>3. Helps(w) => Helps(w)' BY DEF Helps, Waiting
<1>4. ShapeAt(w)'
  BY <1>2, <1>3 DEF MDLocal, ShapeAt, AtRun, InBody, Waiting
<1>5. JoinsAt(w)' BY DEF MDLocal, JoinsAt, Waiting
<1>6. OnceAt(w)' /\ MainAt(w)' BY DEF MDLocal, OnceAt, MainAt
<1>7. FreshAt(w)' BY <1>2 DEF MDLocal, FreshAt, Running
<1> QED BY <1>4, <1>5, <1>6, <1>7 DEF MDLocal

\* Nobody comes to hold a job but h, and that an unclaimed one which is then
\* claimed.
LEMMA HeldKept ==
    ASSUME NEW h, NEW k \in Handed, NEW j \in MD!Jobs, HeldAt(j), j # NULL,
           k # NULL => Unclaimed(k),
           \A w \in MD!VPs : Holds(w, j)' => Holds(w, j) \/ (w = h /\ j = k),
           Unclaimed(j)' => Unclaimed(j) /\ j # k
    PROVE  HeldAt(j)'
<1>1. ASSUME NEW v \in MD!VPs, NEW w \in MD!VPs, Holds(v, j)', Holds(w, j)' PROVE v = w
  BY <1>1 DEF HeldAt
<1>2. ASSUME Unclaimed(j)', NEW v \in MD!VPs PROVE ~Holds(v, j)'
  BY <1>2 DEF HeldAt
<1> QED BY <1>1, <1>2 DEF HeldAt

\* An unclaimed job is on no stack.
LEMMA UnclaimedFresh ==
    ASSUME MDInv, NEW w \in MD!VPs, NEW k \in MD!Jobs, Unclaimed(k)
    PROVE  ~Running(w, k)
BY DEF MDInv, HeldAt, Holds

LEMMA NullFresh ==
    ASSUME MDTypeOK, MonitorAssumption, NEW w \in MD!VPs
    PROVE  ~Running(w, NULL)
<1>1. frames[w] \in Seq(FrameOf) BY DEF MDTypeOK
<1>2. \A i \in DOMAIN frames[w] : frames[w][i] \in FrameOf BY <1>1
<1>3. \A f \in FrameOf : f.body # NULL BY DEF FrameOf, Fns, MonitorAssumption, MD!Jobs
<1> QED BY <1>2, <1>3 DEF Running

-----------------------------------------------------------------------------
(* The steps *)

LEMMA InitInv ==
    ASSUME MonitorAssumption, MD!Init
    PROVE  MDInv
<1>1. 0 \in MD!VPs /\ NULL \notin MD!Jobs /\ Main \notin MD!Jobs
  BY DEF MonitorAssumption, MD!Jobs, MD!VPs
<1>2. ASSUME NEW v \in MD!VPs
      PROVE  frames[v] \in Seq(FrameOf) /\ context[v] \in Seq(Handed)
  <2>1. MD!Frame(Main) \in FrameOf BY DEF MD!Frame, FrameOf, Fns, Handed
  <2>2. frames[v] = IF v = 0 THEN <<MD!Frame(Main)>> ELSE <<>> BY DEF MD!Init
  <2>3. context[v] = <<>> BY DEF MD!Init
  <2> QED BY <2>1, <2>2, <2>3
<1>3. MDTypeOK
  BY <1>2 DEF MD!Init, MDTypeOK, Handed, AtRun, InBody, Waiting
<1>4. ASSUME NEW v \in MD!VPs
      PROVE  /\ DOMAIN frames[v] = IF v = 0 THEN {1} ELSE {}
             /\ Len(frames[v]) = IF v = 0 THEN 1 ELSE 0
             /\ v = 0 => frames[v][1] = MD!Frame(Main)
             /\ Len(context[v]) = 0 /\ DOMAIN context[v] = {}
             /\ v = 0 => frames[v] # <<>>
             /\ v # 0 => frames[v] = <<>>
  BY <1>4 DEF MD!Init
<1>5. ASSUME NEW v \in MD!VPs PROVE MDLocal(v)
  <2>1. pc[v] = IF v = 0 THEN "body" ELSE "loop" BY <1>5 DEF MD!Init
  <2>2. ~Helps(v) BY <1>4, <2>1 DEF Helps, Waiting
  <2>3. ShapeAt(v) BY <1>4, <2>1, <2>2 DEF ShapeAt, AtRun, InBody
  <2>4. JoinsAt(v) BY <1>4, <2>1 DEF JoinsAt
  <2>5. OnceAt(v) /\ MainAt(v) BY <1>4 DEF OnceAt, MainAt
  <2> QED BY <2>2, <2>3, <2>4, <2>5 DEF MDLocal, FreshAt
<1>6. ASSUME NEW v \in MD!VPs, NEW j \in MD!Jobs PROVE ~Holds(v, j)
  <2>1. current[v] = NULL BY DEF MD!Init
  <2> QED BY <1>1, <1>4, <2>1 DEF Holds, Running, MD!Frame
<1> QED BY <1>3, <1>5, <1>6 DEF MDInv, HeldAt

\* What a request or a posted job changes: VP h gets the unclaimed job k, or
\* nobody gets one (k is NULL), any VP may lose its current job, and a sleeper
\* may be woken.
LEMMA GiveStep ==
    ASSUME MonitorAssumption, MDInv, NEW h, NEW k \in Handed,
           k # NULL => Unclaimed(k),
           UNCHANGED <<frames, context>>, map' \subseteq MD!Jobs,
           state' \in [MD!Jobs -> {"none", "ready", "running", "finished"}],
           \A j \in MD!Jobs : Unclaimed(j)' => Unclaimed(j) /\ j # k,
           current' \in [MD!VPs -> Handed],
           \A w \in MD!VPs : current'[w] \in {current[w], NULL} \/ (w = h /\ current'[w] = k),
           pc' \in [MD!VPs -> AtRun \cup InBody \cup Waiting],
           \A w \in MD!VPs : \/ pc'[w] = pc[w]
                             \/ pc[w] \in Waiting \cup {"loop", "help"} /\ pc'[w] \in Waiting
                             \/ pc[w] = "post" /\ pc'[w] = "body"
    PROVE  MDInv'
<1>1. MDTypeOK' BY DEF MDInv, MDTypeOK
<1>2. ASSUME NEW w \in MD!VPs PROVE MDLocal(w)'
  <2>1. k # NULL => ~Running(w, k) BY UnclaimedFresh DEF Handed
  <2>2. ~Running(w, NULL) BY NullFresh DEF MDInv
  <2>3. current'[w] = current[w] \/ ~Running(w, current'[w]) BY <2>1, <2>2
  <2> QED BY <2>3, LocalKept DEF MDInv
<1>3. \A w \in MD!VPs, j \in MD!Jobs : Holds(w, j)' => Holds(w, j) \/ (w = h /\ j = k)
  BY DEF Holds, Running, MonitorAssumption, MD!Jobs
<1>4. ASSUME NEW j \in MD!Jobs PROVE HeldAt(j)'
  <2>1. HeldAt(j) /\ j # NULL BY DEF MDInv, MonitorAssumption, MD!Jobs
  <2>2. \A w \in MD!VPs : Holds(w, j)' => Holds(w, j) \/ (w = h /\ j = k) BY <1>3
  <2>3. Unclaimed(j)' => Unclaimed(j) /\ j # k OBVIOUS
  <2>4. ASSUME NEW v \in MD!VPs, NEW w \in MD!VPs, Holds(v, j)', Holds(w, j)' PROVE v = w
    BY <2>1, <2>2, <2>4 DEF HeldAt
  <2>5. ASSUME Unclaimed(j)', NEW v \in MD!VPs PROVE ~Holds(v, j)'
    BY <2>1, <2>2, <2>3, <2>5 DEF HeldAt
  <2> QED BY <2>4, <2>5 DEF HeldAt
<1> QED BY <1>1, <1>2, <1>4 DEF MDInv

\* post_job, also where the posted job or another one answers a VP that sleeps or
\* has been woken long ago.
LEMMA PostStep ==
    ASSUME MonitorAssumption, MDInv, NEW v \in MD!VPs, NEW j \in MD!Jobs, MD!Post(v, j)
    PROVE  MDInv'
<1>0. /\ pc[v] = "post" /\ UNCHANGED <<frames, context>> /\ map' \subseteq MD!Jobs
      /\ state \in [MD!Jobs -> {"none", "ready", "running", "finished"}]
      /\ current \in [MD!VPs -> Handed] /\ pc \in [MD!VPs -> AtRun \cup InBody \cup Waiting]
  BY DEF MD!Post, MD!PostJob, MDInv, MDTypeOK
<1>1. CASE pc' = [pc EXCEPT ![v] = "body"] /\ UNCHANGED <<state, current>>
  <2>1. \A i \in MD!Jobs : Unclaimed(i)' => Unclaimed(i) /\ i # NULL
    BY <1>1 DEF Unclaimed, MonitorAssumption, MD!Jobs
  <2>2. pc' \in [MD!VPs -> AtRun \cup InBody \cup Waiting] BY <1>0, <1>1 DEF InBody
  <2>3. \A w \in MD!VPs : pc'[w] = pc[w] \/ (pc[w] = "post" /\ pc'[w] = "body")
    BY <1>0, <1>1
  <2> QED BY <1>0, <1>1, <2>1, <2>2, <2>3, GiveStep DEF Handed
<1>2. ASSUME NEW k \in MD!Jobs, Unclaimed(k), MD!Signal(v), state' = MD!Claim(k),
             current' = MD!Answer(Head(waiting), k)
      PROVE  MDInv'
  <2>1. /\ \A w \in MD!VPs : current'[w] = current[w]
                             \/ (w = Head(waiting) /\ current'[w] = k)
        /\ current' \in [MD!VPs -> Handed]
    BY <1>0, <1>2 DEF MD!Answer, Handed
  <2>2. PICK s : /\ s = v \/ pc[s] = "wait"
                 /\ pc' = [pc EXCEPT ![s] = "awake", ![v] = "body"]
    BY <1>2 DEF MD!Signal
  <2>3. \A w \in MD!VPs : \/ pc'[w] = pc[w]
                          \/ pc[w] = "wait" /\ pc'[w] = "awake"
                          \/ pc[w] = "post" /\ pc'[w] = "body"
    BY <1>0, <2>2
  <2>4. pc' \in [MD!VPs -> AtRun \cup InBody \cup Waiting]
    BY <1>0, <2>2 DEF Waiting, InBody
  <2>5. /\ \A i \in MD!Jobs : Unclaimed(i)' => Unclaimed(i) /\ i # k
        /\ state' \in [MD!Jobs -> {"none", "ready", "running", "finished"}]
    BY <1>0, <1>2 DEF Unclaimed, MD!Claim
  <2> QED BY <1>0, <1>2, <2>1, <2>3, <2>4, <2>5, GiveStep DEF Handed, Waiting
<1>3. \A k \in map' : MD!Ready(k) => k \in MD!Jobs /\ Unclaimed(k)
  BY <1>0 DEF MD!Ready, Unclaimed
<1> QED BY <1>1, <1>2, <1>3 DEF MD!Post, MD!PostJob

\* request_job, from run() or from a helping join.
LEMMA RequestStep ==
    ASSUME MonitorAssumption, MDInv, NEW v \in MD!VPs, NEW starting,
           pc[v] \in {"loop", "help"}, MD!RequestJob(v, starting), UNCHANGED context
    PROVE  MDInv'
<1>0. /\ UNCHANGED <<frames, context>> /\ map' \subseteq MD!Jobs
      /\ state \in [MD!Jobs -> {"none", "ready", "running", "finished"}]
      /\ current \in [MD!VPs -> Handed] /\ pc \in [MD!VPs -> AtRun \cup InBody \cup Waiting]
  BY DEF MD!RequestJob, MD!graph, MDInv, MDTypeOK
<1>1. /\ \A k \in MD!RootReady : k \in MD!Jobs /\ Unclaimed(k)
      /\ \A k \in MD!Claimable(starting) : k \in MD!Jobs /\ Unclaimed(k)
  BY DEF MD!RootReady, MD!Claimable, MD!Children, MD!Ready, Unclaimed, MDInv, MDTypeOK
<1>2. ASSUME NEW k \in MD!Jobs, Unclaimed(k), state' = MD!Claim(k)
      PROVE  /\ \A j \in MD!Jobs : Unclaimed(j)' => Unclaimed(j) /\ j # k
             /\ state' \in [MD!Jobs -> {"none", "ready", "running", "finished"}]
  BY <1>0, <1>2 DEF MD!Claim, Unclaimed
<1>3. ASSUME NEW k \in MD!Jobs, Unclaimed(k), state' = MD!Claim(k),
             current' = [current EXCEPT ![v] = k], pc' = [pc EXCEPT ![v] = "awake"]
      PROVE  MDInv'
  <2>1. /\ current' \in [MD!VPs -> Handed]
        /\ \A w \in MD!VPs : current'[w] = current[w] \/ (w = v /\ current'[w] = k)
    BY <1>0, <1>3 DEF Handed
  <2>2. /\ pc' \in [MD!VPs -> AtRun \cup InBody \cup Waiting]
        /\ \A w \in MD!VPs : pc'[w] = pc[w] \/ (w = v /\ pc'[w] = "awake")
    BY <1>0, <1>3 DEF Waiting
  <2>3. /\ \A j \in MD!Jobs : Unclaimed(j)' => Unclaimed(j) /\ j # k
        /\ state' \in [MD!Jobs -> {"none", "ready", "running", "finished"}]
    BY <1>2, <1>3
  <2> QED BY <1>0, <1>3, <2>1, <2>2, <2>3, GiveStep DEF Handed, Waiting
<1>4. ASSUME UNCHANGED state \/ \E k \in MD!Jobs : Unclaimed(k) /\ state' = MD!Claim(k)
      PROVE  /\ \A j \in MD!Jobs : Unclaimed(j)' => Unclaimed(j) /\ j # NULL
             /\ state' \in [MD!Jobs -> {"none", "ready", "running", "finished"}]
  <2>1. \A j \in MD!Jobs : j # NULL BY DEF MonitorAssumption, MD!Jobs
  <2>2. CASE UNCHANGED state BY <1>0, <2>1, <2>2 DEF Unclaimed
  <2> QED BY <1>2, <1>4, <2>1, <2>2
<1>5. ASSUME UNCHANGED state \/ \E k \in MD!Jobs : Unclaimed(k) /\ state' = MD!Claim(k),
             \/ MD!BroadcastNull(v)
             \/ pc' = [pc EXCEPT ![v] = "wait"] /\ UNCHANGED current
      PROVE  MDInv'
  <2>1. /\ current' \in [MD!VPs -> Handed]
        /\ \A w \in MD!VPs : current'[w] \in {current[w], NULL}
    BY <1>0, <1>5 DEF MD!BroadcastNull, Handed
  <2>2. /\ pc' \in [MD!VPs -> AtRun \cup InBody \cup Waiting]
        /\ \A w \in MD!VPs : \/ pc'[w] = pc[w]
                             \/ pc[w] \in Waiting \cup {"loop", "help"} /\ pc'[w] \in Waiting
    BY <1>0, <1>5 DEF MD!BroadcastNull, Waiting
  <2> QED BY <1>0, <1>4, <1>5, <2>1, <2>2, GiveStep DEF Handed
<1> QED BY <1>1, <1>3, <1>5 DEF MD!RequestJob

-----------------------------------------------------------------------------
(* The steps of a VP that change only what is its own *)

\* What the invariant says of the stacks of one VP.
LEMMA OwnFacts ==
    ASSUME MDInv, NEW v \in MD!VPs
    PROVE  /\ frames[v] \in Seq(FrameOf) /\ context[v] \in Seq(Handed)
           /\ current[v] \in Handed /\ pc[v] \in AtRun \cup InBody \cup Waiting
           /\ Len(frames[v]) \in Nat /\ DOMAIN frames[v] = 1 .. Len(frames[v])
           /\ Len(context[v]) \in Nat /\ DOMAIN context[v] = 1 .. Len(context[v])
           /\ frames[v] = <<>> <=> Len(frames[v]) = 0
           /\ context[v] = <<>> <=> Len(context[v]) = 0
           /\ \A i \in DOMAIN frames[v] : frames[v][i] \in FrameOf
           /\ MDLocal(v)
BY DEF MDInv, MDTypeOK

\* A step changes what is VP v's and nothing that is another VP's.
OnlyOwn(v) ==
    /\ MDTypeOK'
    /\ \A w \in MD!VPs \ {v} : /\ frames'[w] = frames[w] /\ context'[w] = context[w]
                               /\ current'[w] = current[w] /\ pc'[w] = pc[w]

\* A step of VP v that may give it the unclaimed job k (NULL: none).
LEMMA OwnStep ==
    ASSUME MonitorAssumption, MDInv, NEW v \in MD!VPs, NEW k \in Handed, OnlyOwn(v),
           k # NULL => Unclaimed(k),
           \A j \in MD!Jobs : Unclaimed(j)' => Unclaimed(j) /\ j # k,
           \A j \in MD!Jobs : Holds(v, j)' => Holds(v, j) \/ j = k,
           MDLocal(v)'
    PROVE  MDInv'
<1>1. MDTypeOK' BY DEF OnlyOwn
<1>2. \A w \in MD!VPs \ {v} : /\ frames'[w] = frames[w] /\ context'[w] = context[w]
                              /\ current'[w] = current[w] /\ pc'[w] = pc[w]
  BY DEF OnlyOwn
<1>3. ASSUME NEW w \in MD!VPs PROVE MDLocal(w)'
  BY <1>2, LocalKept DEF MDInv
<1>4. \A w \in MD!VPs, j \in MD!Jobs : Holds(w, j)' => Holds(w, j) \/ (w = v /\ j = k)
  <2>1. \A w \in MD!VPs \ {v}, j \in MD!Jobs : Holds(w, j)' => Holds(w, j)
    BY <1>2 DEF Holds, Running
  <2> QED BY <2>1
<1>5. ASSUME NEW j \in MD!Jobs PROVE HeldAt(j)'
  <2>1. HeldAt(j) /\ j # NULL BY DEF MDInv, MonitorAssumption, MD!Jobs
  <2> QED BY <1>4, <2>1, HeldKept
<1> QED BY <1>1, <1>3, <1>5 DEF MDInv

\* Job::run puts a body on the stack that is not there yet.
LEMMA PushLocal ==
    ASSUME MonitorAssumption, MDInv, NEW v \in MD!VPs, NEW b \in MD!Jobs, ~Running(v, b),
           \A i \in DOMAIN frames[v] : frames[v][i].joins \in MD!Jobs,
           frames'[v] = Append(frames[v], MD!Frame(b)), pc'[v] = "body",
           context'[v] \in Seq(Handed), Len(context'[v]) = Len(frames[v])
    PROVE  /\ MDLocal(v)' /\ frames'[v] \in Seq(FrameOf)
           /\ \A j \in MD!Jobs : Running(v, j)' => Running(v, j) \/ j = b
<1> DEFINE n == Len(frames[v])
<1>1. /\ frames[v] \in Seq(FrameOf) /\ n \in Nat /\ DOMAIN frames[v] = 1 .. n
      /\ MDLocal(v)
  BY OwnFacts
<1>2. MD!Frame(b) \in FrameOf /\ MD!Frame(b).body = b
  BY DEF MD!Frame, FrameOf, Fns, Handed
<1>3. /\ frames'[v] \in Seq(FrameOf) /\ frames'[v] # <<>> /\ Len(frames'[v]) = n + 1
      /\ DOMAIN frames'[v] = 1 .. n + 1 /\ frames'[v][n + 1] = MD!Frame(b)
      /\ \A i \in 1 .. n : frames'[v][i] = frames[v][i]
  BY <1>1, <1>2
<1> HIDE DEF n
<1>4. ~Helps(v)' BY DEF Helps, Waiting
<1>5. ShapeAt(v)' BY <1>1, <1>3, <1>4 DEF ShapeAt, AtRun, InBody, n
<1>6. JoinsAt(v)' BY <1>1, <1>3 DEF JoinsAt
<1>7. \A i \in 1 .. n : frames'[v][i].body # b BY <1>1, <1>3 DEF Running
<1>8. \A i \in 1 .. n + 1 : i \in 1 .. n \/ i = n + 1 BY <1>1
<1>9. OnceAt(v)'
  <2> SUFFICES ASSUME NEW i \in 1 .. n + 1, NEW k \in 1 .. n + 1,
                      frames'[v][i].body = frames'[v][k].body
               PROVE  i = k
    BY <1>3 DEF OnceAt
  <2>1. CASE i \in 1 .. n /\ k \in 1 .. n BY <1>1, <1>3, <2>1 DEF MDLocal, OnceAt
  <2> QED BY <1>2, <1>3, <1>7, <1>8, <2>1
<1>10. MainAt(v)'
  <2>1. b # Main BY DEF MonitorAssumption, MD!Jobs
  <2>2. \A i \in 1 .. n : frames'[v][i].body = Main => v = 0 /\ i = 1
    BY <1>1, <1>3 DEF MDLocal, MainAt
  <2> QED BY <1>2, <1>3, <1>8, <2>1, <2>2 DEF MainAt
<1>11. \A j \in MD!Jobs : Running(v, j)' => Running(v, j) \/ j = b
  BY <1>1, <1>2, <1>3, <1>8 DEF Running
<1> QED BY <1>3, <1>4, <1>5, <1>6, <1>9, <1>10, <1>11 DEF MDLocal, FreshAt

\* A body begins a join or is through with it.
LEMMA MarkLocal ==
    ASSUME MDInv, NEW v \in MD!VPs, NEW x \in Handed, frames[v] # <<>>, ~Helps(v),
           frames'[v] = [frames[v] EXCEPT ![Len(frames[v])].joins = x],
           UNCHANGED context,
           pc'[v] = "body" \/ (pc'[v] = "join" /\ x \in MD!Jobs)
    PROVE  /\ MDLocal(v)' /\ frames'[v] \in Seq(FrameOf)
           /\ \A j \in MD!Jobs : Running(v, j)' => Running(v, j)
<1> DEFINE n == Len(frames[v])
<1>1. /\ frames[v] \in Seq(FrameOf) /\ n \in Nat \ {0} /\ DOMAIN frames[v] = 1 .. n
      /\ MDLocal(v) /\ \A i \in 1 .. n : frames[v][i] \in FrameOf
  BY OwnFacts
<1>2. frames'[v] = [frames[v] EXCEPT ![n] = [frames[v][n] EXCEPT !.joins = x]]
  BY DEF n
<1>3. /\ [frames[v][n] EXCEPT !.joins = x] \in FrameOf
      /\ [frames[v][n] EXCEPT !.joins = x].body = frames[v][n].body
      /\ [frames[v][n] EXCEPT !.joins = x].joins = x
  BY <1>1 DEF FrameOf
<1>4. /\ frames'[v] \in Seq(FrameOf) /\ Len(frames'[v]) = n
      /\ DOMAIN frames'[v] = 1 .. n /\ frames'[v] # <<>>
      /\ \A i \in 1 .. n : frames'[v][i].body = frames[v][i].body
      /\ \A i \in 1 .. n : i # n => frames'[v][i].joins = frames[v][i].joins
      /\ frames'[v][n].joins = x
  BY <1>1, <1>2, <1>3
<1> HIDE DEF n
<1>5. ~Helps(v)' BY DEF Helps, Waiting
<1>6. ShapeAt(v)'
  BY <1>1, <1>4, <1>5 DEF MDLocal, ShapeAt, AtRun, InBody, n
<1>7. JoinsAt(v)'
  BY <1>1, <1>4 DEF MDLocal, JoinsAt, n
<1>8. OnceAt(v)' BY <1>1, <1>4 DEF MDLocal, OnceAt
<1>9. MainAt(v)' BY <1>1, <1>4 DEF MDLocal, MainAt
<1>10. \A j \in MD!Jobs : Running(v, j)' => Running(v, j) BY <1>1, <1>4 DEF Running
<1> QED BY <1>4, <1>5, <1>6, <1>7, <1>8, <1>9, <1>10 DEF MDLocal, FreshAt

\* A step of VP v that gives it no job.
LEMMA OwnStepNull ==
    ASSUME MonitorAssumption, MDInv, NEW v \in MD!VPs, OnlyOwn(v),
           \A j \in MD!Jobs : Unclaimed(j)' => Unclaimed(j),
           \A j \in MD!Jobs : Holds(v, j)' => Holds(v, j),
           MDLocal(v)'
    PROVE  MDInv'
<1>1. NULL \in Handed /\ \A j \in MD!Jobs : j # NULL BY DEF Handed, MonitorAssumption, MD!Jobs
<1> QED BY <1>1, OwnStep

\* The top of a stack, and what is left without it.
LEMMA TopFacts ==
    ASSUME MDInv, NEW v \in MD!VPs
    PROVE  /\ frames[v] # <<>> =>
                  /\ MD!Front(frames[v]) \in Seq(FrameOf) /\ MD!Last(frames[v]) \in FrameOf
                  /\ Len(frames[v]) \in Nat \ {0}
                  /\ MD!Last(frames[v]) = frames[v][Len(frames[v])]
                  /\ Len(MD!Front(frames[v])) = Len(frames[v]) - 1
                  /\ \A i \in 1 .. Len(frames[v]) - 1 : MD!Front(frames[v])[i] = frames[v][i]
           /\ context[v] # <<>> =>
                  /\ MD!Front(context[v]) \in Seq(Handed) /\ MD!Last(context[v]) \in Handed
                  /\ Len(context[v]) \in Nat \ {0}
                  /\ MD!Last(context[v]) = context[v][Len(context[v])]
                  /\ Len(MD!Front(context[v])) = Len(context[v]) - 1
                  /\ \A i \in 1 .. Len(context[v]) - 1 : MD!Front(context[v])[i] = context[v][i]
<1>1. frames[v] \in Seq(FrameOf) /\ context[v] \in Seq(Handed) BY OwnFacts
<1>2. CASE frames[v] # <<>> /\ context[v] # <<>> BY <1>1, <1>2, FrontFacts
<1>3. CASE frames[v] # <<>> /\ context[v] = <<>> BY <1>1, <1>3, FrontFacts
<1>4. CASE frames[v] = <<>> /\ context[v] # <<>> BY <1>1, <1>4, FrontFacts
<1> QED BY <1>2, <1>3, <1>4

LEMMA LoopStep ==
    ASSUME MonitorAssumption, MDInv, NEW v \in MD!VPs, MD!Loop(v)
    PROVE  MDInv'
<1>1. CASE shouldStop[v]
  <2>1. /\ pc[v] = "loop" /\ pc' = [pc EXCEPT ![v] = "gone"] /\ pc'[v] = "gone"
        /\ UNCHANGED <<state, map, current, frames, context>>
    BY <1>1, OwnFacts DEF MD!Loop, MD!jobVars, MD!graph, MDInv, MDTypeOK
  <2>2. frames[v] = <<>> /\ Len(context[v]) = 0 /\ ~Helps(v)'
    BY <2>1, OwnFacts DEF MDLocal, ShapeAt, AtRun, Helps
  <2>3. MDLocal(v)'
    BY <2>1, <2>2, OwnFacts
    DEF MDLocal, ShapeAt, JoinsAt, OnceAt, MainAt, FreshAt, AtRun, InBody
  <2>4. \A j \in MD!Jobs : Holds(v, j)' => Holds(v, j) BY <2>1 DEF Holds, Running
  <2>5. OnlyOwn(v)
    BY <2>1 DEF OnlyOwn, MDInv, MDTypeOK, AtRun, InBody, Waiting
  <2>6. \A i \in MD!Jobs : Unclaimed(i)' => Unclaimed(i)
    BY <2>1 DEF Unclaimed
  <2> QED BY <2>3, <2>4, <2>5, <2>6, OwnStepNull
<1>2. CASE ~shouldStop[v]
  BY <1>2, RequestStep DEF MD!Loop
<1> QED BY <1>1, <1>2

LEMMA HelpStep ==
    ASSUME MonitorAssumption, MDInv, NEW v \in MD!VPs, MD!Help(v)
    PROVE  MDInv'
BY RequestStep DEF MD!Help

\* create_new_job up to the end of the constructor.
LEMMA CreateStep ==
    ASSUME MonitorAssumption, MDInv, NEW v \in MD!VPs, NEW j \in MD!Jobs, MD!Create(v, j)
    PROVE  MDInv'
<1>1. /\ pc[v] = "body" /\ pc' = [pc EXCEPT ![v] = "post"] /\ pc'[v] = "post"
      /\ state[j] = "none" /\ state' = [state EXCEPT ![j] = "ready"]
      /\ UNCHANGED <<map, current, frames, context>>
  BY DEF MD!Create, MD!graph, MDInv, MDTypeOK
<1>2. frames[v] # <<>> /\ ~Helps(v) /\ ~Helps(v)'
  BY <1>1, OwnFacts DEF MDLocal, ShapeAt, InBody, Helps, Waiting
<1>3. MDLocal(v)'
  BY <1>1, <1>2, OwnFacts
  DEF MDLocal, ShapeAt, JoinsAt, OnceAt, MainAt, FreshAt, AtRun, InBody
<1>4. \A i \in MD!Jobs : Holds(v, i)' => Holds(v, i) BY <1>1 DEF Holds, Running
<1>5. OnlyOwn(v)
  BY <1>1 DEF OnlyOwn, MDInv, MDTypeOK, AtRun, InBody, Waiting
<1>6. \A i \in MD!Jobs : Unclaimed(i)' => Unclaimed(i)
  BY <1>1 DEF Unclaimed, MDInv, MDTypeOK
<1> QED BY <1>3, <1>4, <1>5, <1>6, OwnStepNull

LEMMA JoinBeginStep ==
    ASSUME MonitorAssumption, MDInv, NEW v \in MD!VPs, NEW j \in MD!Jobs, MD!JoinBegin(v, j)
    PROVE  MDInv'
<1> DEFINE f == [frames[v] EXCEPT ![Len(frames[v])].joins = j]
<1>1. /\ pc[v] = "body" /\ pc' = [pc EXCEPT ![v] = "join"] /\ pc'[v] = "join"
      /\ frames' = [frames EXCEPT ![v] = f] /\ frames'[v] = f
      /\ UNCHANGED <<state, map, current, context>>
  BY DEF MD!JoinBegin, MD!jobVars, MD!graph, MDInv, MDTypeOK
<1>2. frames[v] # <<>> /\ ~Helps(v)
  BY <1>1, OwnFacts DEF MDLocal, ShapeAt, InBody, Helps, Waiting
<1>3. /\ MDLocal(v)' /\ frames'[v] \in Seq(FrameOf)
      /\ \A i \in MD!Jobs : Running(v, i)' => Running(v, i)
  BY <1>1, <1>2, MarkLocal DEF Handed
<1> HIDE DEF f
<1>4. \A i \in MD!Jobs : Holds(v, i)' => Holds(v, i) BY <1>1, <1>3 DEF Holds
<1>5. OnlyOwn(v)
  BY <1>1, <1>3 DEF OnlyOwn, MDInv, MDTypeOK, AtRun, InBody, Waiting
<1>6. \A i \in MD!Jobs : Unclaimed(i)' => Unclaimed(i)
  BY <1>1 DEF Unclaimed
<1> QED BY <1>3, <1>4, <1>5, <1>6, OwnStepNull

LEMMA JoinStep ==
    ASSUME MonitorAssumption, MDInv, NEW v \in MD!VPs, MD!Join(v)
    PROVE  MDInv'
<1> DEFINE f == [frames[v] EXCEPT ![Len(frames[v])].joins = NULL]
<1>1. /\ pc[v] = "joined" /\ pc' = [pc EXCEPT ![v] = "body"] /\ pc'[v] = "body"
      /\ frames' = [frames EXCEPT ![v] = f] /\ frames'[v] = f
      /\ current' = [current EXCEPT ![v] = NULL] /\ current'[v] = NULL
      /\ map' \subseteq MD!Jobs /\ UNCHANGED <<state, context>>
  BY DEF MD!Join, MDInv, MDTypeOK
<1>2. frames[v] # <<>> /\ ~Helps(v)
  BY <1>1, OwnFacts DEF MDLocal, ShapeAt, InBody, Helps, Waiting
<1>3. /\ MDLocal(v)' /\ frames'[v] \in Seq(FrameOf)
      /\ \A i \in MD!Jobs : Running(v, i)' => Running(v, i)
  BY <1>1, <1>2, MarkLocal DEF Handed
<1> HIDE DEF f
<1>4. \A i \in MD!Jobs : Holds(v, i)' => Holds(v, i)
  BY <1>1, <1>3 DEF Holds, MonitorAssumption, MD!Jobs
<1>5. OnlyOwn(v)
  BY <1>1, <1>3 DEF OnlyOwn, MDInv, MDTypeOK, Handed, AtRun, InBody, Waiting
<1>6. \A i \in MD!Jobs : Unclaimed(i)' => Unclaimed(i)
  BY <1>1 DEF Unclaimed
<1> QED BY <1>3, <1>4, <1>5, <1>6, OwnStepNull

\* A helping join has nothing below it that is not in a join, and so has a VP
\* that waits in run().
LEMMA AllJoin ==
    ASSUME MDInv, NEW v \in MD!VPs, pc[v] \in {"join", "joined", "help"} \cup Waiting
    PROVE  \A i \in DOMAIN frames[v] : frames[v][i].joins \in MD!Jobs
BY OwnFacts DEF MDLocal, JoinsAt, Waiting

LEMMA RequestedStep ==
    ASSUME MonitorAssumption, MDInv, NEW v \in MD!VPs, MD!Requested(v)
    PROVE  MDInv'
<1>0. /\ pc[v] = "awake" /\ UNCHANGED <<state, map, current>>
      /\ \A i \in DOMAIN frames[v] : frames[v][i].joins \in MD!Jobs
  BY AllJoin DEF MD!Requested, MD!jobVars, MD!graph, Waiting
<1>1. ASSUME current[v] # NULL, ~Running(v, current[v]), MD!Run(v), UNCHANGED context,
             Len(context[v]) = Len(frames[v])
      PROVE  MDInv'
  <2> DEFINE f == Append(frames[v], MD!Frame(current[v]))
  <2>1. /\ pc' = [pc EXCEPT ![v] = "body"] /\ pc'[v] = "body"
        /\ frames' = [frames EXCEPT ![v] = f] /\ frames'[v] = f
        /\ current[v] \in MD!Jobs /\ UNCHANGED <<state, map, current, context>>
    BY <1>0, <1>1 DEF MD!Run, MDInv, MDTypeOK, Handed
  <2>2. /\ MDLocal(v)' /\ frames'[v] \in Seq(FrameOf)
        /\ \A j \in MD!Jobs : Running(v, j)' => Running(v, j) \/ j = current[v]
    BY <1>0, <1>1, <2>1, OwnFacts, PushLocal
  <2> HIDE DEF f
  <2>3. \A j \in MD!Jobs : Holds(v, j)' => Holds(v, j) BY <2>1, <2>2 DEF Holds
  <2>4. OnlyOwn(v)
    BY <2>1, <2>2 DEF OnlyOwn, MDInv, MDTypeOK, AtRun, InBody, Waiting
  <2>5. \A i \in MD!Jobs : Unclaimed(i)' => Unclaimed(i)
    BY <2>1 DEF Unclaimed
  <2> QED BY <2>2, <2>3, <2>4, <2>5, OwnStepNull
<1>2. CASE frames[v] = <<>> /\ current[v] # NULL
  <2>1. ~Running(v, current[v]) /\ Len(context[v]) = Len(frames[v])
    BY <1>2, OwnFacts DEF Running, MDLocal, ShapeAt
  <2> QED BY <1>1, <1>2, <2>1 DEF MD!Requested
<1>3. CASE frames[v] = <<>> /\ current[v] = NULL
  <2>1. /\ pc' = [pc EXCEPT ![v] = "loop"] /\ pc'[v] = "loop"
        /\ UNCHANGED <<state, map, current, frames, context>>
    BY <1>0, <1>3 DEF MD!Requested, MDInv, MDTypeOK
  <2>2. Len(context[v]) = 0 /\ ~Helps(v)'
    BY <1>3, <2>1, OwnFacts DEF MDLocal, ShapeAt, Helps
  <2>3. MDLocal(v)'
    BY <1>3, <2>1, <2>2, OwnFacts
    DEF MDLocal, ShapeAt, JoinsAt, OnceAt, MainAt, FreshAt, AtRun, InBody
  <2>4. \A j \in MD!Jobs : Holds(v, j)' => Holds(v, j) BY <2>1 DEF Holds, Running
  <2>5. OnlyOwn(v)
    BY <2>1 DEF OnlyOwn, MDInv, MDTypeOK, AtRun, InBody, Waiting
  <2>6. \A i \in MD!Jobs : Unclaimed(i)' => Unclaimed(i)
    BY <2>1 DEF Unclaimed
  <2> QED BY <2>3, <2>4, <2>5, <2>6, OwnStepNull
<1>4. CASE frames[v] # <<>> /\ current[v] = MD!Last(context[v])
  <2> DEFINE x == MD!Front(context[v])
  <2>1. /\ pc' = [pc EXCEPT ![v] = "join"] /\ pc'[v] = "join"
        /\ context' = [context EXCEPT ![v] = x] /\ context'[v] = x
        /\ UNCHANGED <<state, map, current, frames>>
    BY <1>0, <1>4 DEF MD!Requested, MD!Popped, MDInv, MDTypeOK
  <2>2. /\ Helps(v) /\ ~Helps(v)' /\ Len(context[v]) = Len(frames[v])
    BY <1>0, <1>4, <2>1, OwnFacts DEF MDLocal, ShapeAt, Helps, Waiting
  <2>3. /\ x \in Seq(Handed) /\ Len(x) = Len(context[v]) - 1
        /\ \A i \in 1 .. Len(context[v]) - 1 : x[i] = context[v][i]
    BY <1>4, <2>2, OwnFacts, TopFacts
  <2>4. ShapeAt(v)'
    BY <1>4, <2>1, <2>2, <2>3, OwnFacts DEF ShapeAt, AtRun, InBody
  <2>5. JoinsAt(v)' BY <1>0, <2>1 DEF JoinsAt
  <2>6. MDLocal(v)'
    BY <2>1, <2>2, <2>4, <2>5, OwnFacts DEF MDLocal, OnceAt, MainAt, FreshAt
  <2> HIDE DEF x
  <2>7. \A i \in DOMAIN x : i \in DOMAIN context[v] /\ x[i] = context[v][i]
    BY <2>3, OwnFacts
  <2>8. \A j \in MD!Jobs : Holds(v, j)' => Holds(v, j)
    BY <2>1, <2>7 DEF Holds, Running
  <2>9. OnlyOwn(v)
    BY <2>1, <2>3 DEF OnlyOwn, MDInv, MDTypeOK, AtRun, InBody, Waiting
  <2>10. \A i \in MD!Jobs : Unclaimed(i)' => Unclaimed(i)
    BY <2>1 DEF Unclaimed
  <2> QED BY <2>6, <2>8, <2>9, <2>10, OwnStepNull
<1>5. CASE frames[v] # <<>> /\ current[v] # MD!Last(context[v]) /\ current[v] = NULL
  <2>1. UNCHANGED <<state, map, current, frames, context, pc>>
    BY <1>0, <1>5 DEF MD!Requested
  <2> QED BY <2>1 DEF MDInv, MDTypeOK, MDLocal, ShapeAt, JoinsAt, OnceAt, MainAt, FreshAt,
                      HeldAt, Holds, Running, Helps, Unclaimed
<1>6. CASE frames[v] # <<>> /\ current[v] # MD!Last(context[v]) /\ current[v] # NULL
  <2>1. ~Running(v, current[v]) /\ Len(context[v]) = Len(frames[v])
    BY <1>0, <1>6, OwnFacts DEF MDLocal, FreshAt, ShapeAt, Helps, Waiting
  <2> QED BY <1>1, <1>6, <2>1 DEF MD!Requested
<1> QED BY <1>2, <1>3, <1>4, <1>5, <1>6

LEMMA JoinTurnStep ==
    ASSUME MonitorAssumption, MDInv, NEW v \in MD!VPs, MD!JoinTurn(v)
    PROVE  MDInv'
<1> DEFINE j == MD!Joined(v)
<1>0. /\ pc[v] = "join" /\ map' = map /\ frames[v] # <<>> /\ ~Helps(v)
      /\ \A i \in DOMAIN frames[v] : frames[v][i].joins \in MD!Jobs
  BY AllJoin, OwnFacts DEF MD!JoinTurn, MD!graph, MDLocal, ShapeAt, InBody, Helps, Waiting
<1>1. Len(context[v]) = Len(frames[v]) - 1
  BY <1>0, OwnFacts DEF MDLocal, ShapeAt
<1>2. j \in MD!Jobs
  <2>1. MD!Last(frames[v]) = frames[v][Len(frames[v])] /\ Len(frames[v]) \in DOMAIN frames[v]
    BY <1>0, OwnFacts, TopFacts
  <2> QED BY <1>0, <2>1 DEF MD!Joined
<1> DEFINE x == Append(context[v], current[v])
<1>3. /\ x \in Seq(Handed) /\ Len(x) = Len(frames[v]) /\ x # <<>> /\ MD!Last(x) = current[v]
      /\ \A i \in DOMAIN x : \/ x[i] = current[v]
                             \/ i \in DOMAIN context[v] /\ x[i] = context[v][i]
  BY <1>1, OwnFacts DEF MD!Last
<1>4. CASE /\ MD!Ready(j) /\ state' = MD!Claim(j)
           /\ context' = [context EXCEPT ![v] = x]
           /\ current' = [current EXCEPT ![v] = j]
           /\ frames' = [frames EXCEPT ![v] = Append(@, MD!Frame(j))]
           /\ pc' = [pc EXCEPT ![v] = "body"]
  <2> DEFINE f == Append(frames[v], MD!Frame(j))
  <2> HIDE DEF j, x
  <2>1. /\ frames' = [frames EXCEPT ![v] = f] /\ frames'[v] = f /\ pc'[v] = "body"
        /\ context'[v] = x /\ current'[v] = j
    BY <1>4 DEF MDInv, MDTypeOK
  <2>2. Unclaimed(j) /\ ~Running(v, j)
    BY <1>2, <1>4, UnclaimedFresh DEF MD!Ready, Unclaimed
  <2>3. /\ MDLocal(v)' /\ frames'[v] \in Seq(FrameOf)
        /\ \A i \in MD!Jobs : Running(v, i)' => Running(v, i) \/ i = j
    BY <1>0, <1>2, <1>3, <2>1, <2>2, PushLocal
  <2> HIDE DEF f
  <2>4. \A i \in MD!Jobs : Holds(v, i)' => Holds(v, i) \/ i = j
    BY <1>3, <2>1, <2>3 DEF Holds
  <2>5. /\ state' \in [MD!Jobs -> {"none", "ready", "running", "finished"}]
        /\ \A i \in MD!Jobs : Unclaimed(i)' => Unclaimed(i) /\ i # j
    BY <1>2, <1>4 DEF MD!Claim, Unclaimed, MDInv, MDTypeOK
  <2>6. j \in Handed /\ f \in Seq(FrameOf) /\ map' \subseteq MD!Jobs
    BY <1>0, <1>2, <2>1, <2>3 DEF Handed, MDInv, MDTypeOK
  <2>7. OnlyOwn(v)
    BY <1>3, <1>4, <2>1, <2>5, <2>6 DEF OnlyOwn, MDInv, MDTypeOK, AtRun, InBody, Waiting
  <2> QED BY <2>2, <2>3, <2>4, <2>5, <2>6, <2>7, OwnStep
<1>5. CASE pc' = [pc EXCEPT ![v] = "joined"] /\ UNCHANGED <<MD!jobVars, context, current, frames>>
  <2> HIDE DEF j, x
  <2>1. pc'[v] = "joined" /\ UNCHANGED <<state, context, current, frames>> /\ ~Helps(v)'
    BY <1>5 DEF MD!jobVars, Helps, Waiting, MDInv, MDTypeOK
  <2>2. MDLocal(v)'
    BY <1>0, <1>1, <2>1, OwnFacts
    DEF MDLocal, ShapeAt, JoinsAt, OnceAt, MainAt, FreshAt, AtRun, InBody
  <2>3. \A i \in MD!Jobs : Holds(v, i)' => Holds(v, i) BY <2>1 DEF Holds, Running
  <2>4. OnlyOwn(v)
    BY <1>0, <1>5, <2>1 DEF OnlyOwn, MDInv, MDTypeOK, AtRun, InBody, Waiting
  <2>5. \A i \in MD!Jobs : Unclaimed(i)' => Unclaimed(i)
    BY <2>1 DEF Unclaimed
  <2> QED BY <2>2, <2>3, <2>4, <2>5, OwnStepNull
<1>6. CASE /\ context' = [context EXCEPT ![v] = x]
           /\ pc' = [pc EXCEPT ![v] = "help"]
           /\ UNCHANGED <<MD!jobVars, current, frames>>
  <2> HIDE DEF j, x
  <2>1. /\ pc'[v] = "help" /\ UNCHANGED <<state, current, frames>> /\ context'[v] = x
        /\ Helps(v)'
    BY <1>0, <1>6 DEF MD!jobVars, Helps, MDInv, MDTypeOK
  <2>2. ShapeAt(v)' BY <1>0, <1>3, <2>1 DEF ShapeAt, AtRun, InBody
  <2>3. JoinsAt(v)' BY <1>0, <2>1 DEF JoinsAt
  <2>4. FreshAt(v)' BY <1>3, <2>1 DEF FreshAt
  <2>5. MDLocal(v)'
    BY <2>1, <2>2, <2>3, <2>4, OwnFacts DEF MDLocal, OnceAt, MainAt
  <2>6. \A i \in MD!Jobs : Holds(v, i)' => Holds(v, i)
    BY <1>3, <2>1 DEF Holds, Running
  <2>7. OnlyOwn(v)
    BY <1>0, <1>3, <1>6, <2>1 DEF OnlyOwn, MDInv, MDTypeOK, AtRun, InBody, Waiting
  <2>8. \A i \in MD!Jobs : Unclaimed(i)' => Unclaimed(i)
    BY <2>1 DEF Unclaimed
  <2> QED BY <2>5, <2>6, <2>7, <2>8, OwnStepNull
<1> QED BY <1>4, <1>5, <1>6 DEF MD!JoinTurn

LEMMA ReturnStep ==
    ASSUME MonitorAssumption, MDInv, NEW v \in MD!VPs, MD!Return(v)
    PROVE  MDInv'
<1> DEFINE b == MD!Body(v)
           f == MD!Front(frames[v])
           n == Len(frames[v])
<1>0. /\ pc[v] = "body" /\ map' = map /\ frames' = [frames EXCEPT ![v] = f]
      /\ state' = [state EXCEPT ![b] = IF @ = "running" THEN "finished" ELSE @]
      /\ frames'[v] = f
  BY DEF MD!Return, MD!graph, MDInv, MDTypeOK
<1>1. frames[v] # <<>> /\ ~Helps(v)
  BY <1>0, OwnFacts DEF MDLocal, ShapeAt, InBody, Helps, Waiting
<1>2. Len(context[v]) = n - 1
  BY <1>1, OwnFacts DEF MDLocal, ShapeAt
<1>3. /\ f \in Seq(FrameOf) /\ Len(f) = n - 1 /\ n \in Nat \ {0} /\ DOMAIN f = 1 .. n - 1
      /\ \A i \in 1 .. n - 1 : f[i] = frames[v][i]
      /\ DOMAIN frames[v] = 1 .. n /\ (f = <<>> <=> n = 1)
      /\ \A i \in 1 .. n - 1 : i \in 1 .. n /\ i # n
  <2>1. /\ f \in Seq(FrameOf) /\ Len(f) = n - 1 /\ n \in Nat \ {0}
        /\ \A i \in 1 .. n - 1 : f[i] = frames[v][i]
    BY <1>1, TopFacts
  <2>2. DOMAIN frames[v] = 1 .. n BY OwnFacts
  <2> HIDE DEF f, n
  <2>3. DOMAIN f = 1 .. n - 1 /\ (f = <<>> <=> n = 1) BY <2>1
  <2>4. \A i \in 1 .. n - 1 : i \in 1 .. n /\ i # n BY <2>1
  <2> QED BY <2>1, <2>2, <2>3, <2>4
<1>4. /\ state' \in [MD!Jobs -> {"none", "ready", "running", "finished"}]
      /\ \A j \in MD!Jobs : Unclaimed(j)' => Unclaimed(j) /\ j # NULL
  BY <1>0 DEF Unclaimed, MDInv, MDTypeOK, MonitorAssumption, MD!Jobs
<1> HIDE DEF f, n, b
<1>5. JoinsAt(v)'
  <2>1. \A i \in 1 .. n - 1 : frames[v][i].joins \in MD!Jobs
    BY <1>3, OwnFacts DEF MDLocal, JoinsAt, n
  <2> QED BY <1>0, <1>3, <2>1 DEF JoinsAt
<1>6. OnceAt(v)' /\ MainAt(v)'
  <2>1. /\ \A i, k \in 1 .. n : frames[v][i].body = frames[v][k].body => i = k
        /\ \A i \in 1 .. n : frames[v][i].body = Main => v = 0 /\ i = 1
    BY <1>3, OwnFacts DEF MDLocal, OnceAt, MainAt
  <2>2. OnceAt(v)' BY <1>0, <1>3, <2>1 DEF OnceAt
  <2>3. MainAt(v)' BY <1>0, <1>3, <2>1 DEF MainAt
  <2> QED BY <2>2, <2>3
<1>7. \A j \in MD!Jobs : Running(v, j)' => Running(v, j)
  BY <1>0, <1>3 DEF Running
<1>8. CASE n = 1 /\ pc' = [pc EXCEPT ![v] = "loop"] /\ UNCHANGED <<current, context>>
  <2>1. pc'[v] = "loop" /\ f = <<>> /\ ~Helps(v)' /\ Len(context[v]) = 0
    BY <1>0, <1>2, <1>3, <1>8 DEF Helps, MDInv, MDTypeOK
  <2>2. ShapeAt(v)' BY <1>0, <1>8, <2>1 DEF ShapeAt, InBody
  <2>3. MDLocal(v)' BY <1>5, <1>6, <2>1, <2>2 DEF MDLocal, FreshAt
  <2>4. \A j \in MD!Jobs : Holds(v, j)' => Holds(v, j) BY <1>7, <1>8 DEF Holds
  <2>5. OnlyOwn(v)
    BY <1>0, <1>3, <1>8 DEF OnlyOwn, MDInv, MDTypeOK, AtRun, InBody, Waiting
  <2>6. \A i \in MD!Jobs : Unclaimed(i)' => Unclaimed(i)
    BY <1>0 DEF Unclaimed
  <2> QED BY <2>3, <2>4, <2>5, <2>6, OwnStepNull
<1>9. ASSUME n # 1, NEW p \in {"joined", "join"}, pc' = [pc EXCEPT ![v] = p],
              current' = [current EXCEPT ![v] = MD!Last(context[v])],
              context' = [context EXCEPT ![v] = MD!Popped(v)]
       PROVE  MDInv'
  <2> DEFINE x == MD!Popped(v)
             c == MD!Last(context[v])
  <2>1. context[v] # <<>> BY <1>2, <1>3, <1>9, OwnFacts
  <2>2. /\ x \in Seq(Handed) /\ Len(x) = n - 2 /\ c \in Handed
        /\ n - 1 \in DOMAIN context[v] /\ c = context[v][n - 1]
        /\ \A i \in DOMAIN x : i \in DOMAIN context[v] /\ x[i] = context[v][i]
    <3> DEFINE m == Len(context[v])
    <3>1. /\ x \in Seq(Handed) /\ Len(x) = m - 1 /\ c \in Handed /\ c = context[v][m]
          /\ m \in Nat \ {0} /\ DOMAIN context[v] = 1 .. m
          /\ \A i \in 1 .. m - 1 : x[i] = context[v][i]
      BY <2>1, OwnFacts, TopFacts DEF MD!Popped
    <3>2. m = n - 1 BY <1>2
    <3> HIDE DEF x, c, m
    <3>3. m \in 1 .. m /\ m - 1 = n - 2 /\ \A i \in 1 .. m - 1 : i \in 1 .. m
      BY <1>3, <3>1, <3>2
    <3>4. DOMAIN x = 1 .. m - 1 BY <3>1
    <3> QED BY <3>1, <3>2, <3>3, <3>4
  <2> HIDE DEF x, c
  <2>3. pc'[v] = p /\ context'[v] = x /\ current'[v] = c /\ ~Helps(v)'
    BY <1>9 DEF x, c, Helps, Waiting, MDInv, MDTypeOK
  <2>4. ShapeAt(v)'
    BY <1>0, <1>3, <1>9, <2>2, <2>3 DEF ShapeAt, AtRun, InBody
  <2>5. MDLocal(v)' BY <1>5, <1>6, <2>3, <2>4 DEF MDLocal, FreshAt
  <2>6. \A j \in MD!Jobs : Holds(v, j)' => Holds(v, j)
    BY <1>7, <2>2, <2>3 DEF Holds
  <2>7. /\ current' = [current EXCEPT ![v] = c] /\ context' = [context EXCEPT ![v] = x]
    BY <1>9 DEF x, c
  <2>8. OnlyOwn(v)
    BY <1>0, <1>3, <1>4, <1>9, <2>2, <2>7 DEF OnlyOwn, MDInv, MDTypeOK, AtRun, InBody, Waiting
  <2>9. \A i \in MD!Jobs : Unclaimed(i)' => Unclaimed(i)
    BY <1>0 DEF Unclaimed
  <2> QED BY <2>5, <2>6, <2>8, <2>9, OwnStepNull
<1> QED BY <1>8, <1>9 DEF MD!Return, n

LEMMA StopStep ==
    ASSUME MonitorAssumption, MDInv, MD!StopVPs
    PROVE  MDInv'
<1>1. 0 \in MD!VPs BY DEF MonitorAssumption, MD!VPs
<1>2. PICK p \in {"ended", "stop"} : pc' = [pc EXCEPT ![0] = p]
  BY DEF MD!StopVPs
<1>3. /\ pc[0] \in {"body", "stop"} /\ UNCHANGED <<state, map, current, frames, context>>
      /\ pc'[0] = p
  BY <1>1, <1>2 DEF MD!StopVPs, MD!jobVars, MD!graph, MDInv, MDTypeOK
<1>4. frames[0] # <<>> /\ ~Helps(0) /\ ~Helps(0)'
  BY <1>1, <1>3, OwnFacts DEF MDLocal, ShapeAt, InBody, Helps, Waiting
<1>5. MDLocal(0)'
  BY <1>1, <1>3, <1>4, OwnFacts
  DEF MDLocal, ShapeAt, JoinsAt, OnceAt, MainAt, FreshAt, AtRun, InBody
<1>6. \A j \in MD!Jobs : Holds(0, j)' => Holds(0, j) BY <1>3 DEF Holds, Running
<1>7. OnlyOwn(0)
  BY <1>2, <1>3 DEF OnlyOwn, MDInv, MDTypeOK, AtRun, InBody, Waiting
<1>8. \A i \in MD!Jobs : Unclaimed(i)' => Unclaimed(i)
  BY <1>3 DEF Unclaimed
<1> QED BY <1>1, <1>5, <1>6, <1>7, <1>8, OwnStepNull

-----------------------------------------------------------------------------
(* The results *)

LEMMA NextInv ==
    ASSUME MonitorAssumption, MDInv, [MD!Next]_MD!vars
    PROVE  MDInv'
<1>1. ASSUME NEW v \in MD!VPs, MD!VP(v) PROVE MDInv'
  BY <1>1, LoopStep, RequestedStep, JoinTurnStep, HelpStep, JoinStep, ReturnStep,
     CreateStep, PostStep, JoinBeginStep, StopStep DEF MD!VP
<1>2. CASE UNCHANGED MD!vars
  BY <1>2 DEF MD!vars, MD!jobVars, MD!graph, MD!lists, MDInv, MDTypeOK, MDLocal, ShapeAt,
       JoinsAt, OnceAt, MainAt, FreshAt, HeldAt, Holds, Running, Helps, Unclaimed
<1> QED BY <1>1, <1>2 DEF MD!Next

\* Frames, contexts and current jobs agree on who has a job, however the answers
\* of the daemon and the wake-ups fall.
THEOREM MonitorInvariant == MD!Spec => []MDInv
<1>1. MD!Init => MDInv BY MonitorAssumption, InitInv
<1>2. MDInv /\ [MD!Next]_MD!vars => MDInv' BY MonitorAssumption, NextInv
<1> QED BY <1>1, <1>2, PTL DEF MD!Spec

LEMMA OneExecutorAlone == MD!Spec => []MD!OneExecutor
<1>1. MDInv => MD!OneExecutor
  <2> SUFFICES ASSUME MDInv, NEW v \in MD!VPs, NEW w \in MD!VPs,
                      NEW i \in DOMAIN frames[v], NEW k \in DOMAIN frames[w],
                      frames[v][i].body = frames[w][k].body
               PROVE  v = w /\ i = k
    BY DEF MD!OneExecutor
  <2>1. frames[v][i].body \in Fns
    BY OwnFacts DEF FrameOf
  <2>2. CASE frames[v][i].body = Main
    BY <2>2, OwnFacts DEF MDLocal, MainAt
  <2>3. CASE frames[v][i].body \in MD!Jobs
    <3>1. v = w BY <2>3 DEF MDInv, HeldAt, Holds, Running
    <3> QED BY <3>1, OwnFacts DEF MDLocal, OnceAt
  <2> QED BY <2>1, <2>2, <2>3 DEF Fns
<1> QED BY <1>1, MonitorInvariant, PTL

-----------------------------------------------------------------------------
(* What broadcast_null's loop leaves of a list *)

\* A set of numbers has a least one.
LEMMA LeastNat ==
    ASSUME NEW S \in SUBSET Nat, S # {}
    PROVE  \E x \in S : \A y \in S : x <= y
<1>1. PICK x \in S : \A y \in S : ~(<<y, x>> \in OpToRel(<, Nat))
  BY NatLessThanWellFounded, WFMin
<1>2. \A y \in S : y < x => <<y, x>> \in OpToRel(<, Nat) BY DEF OpToRel
<1>3. \A y \in S : ~(y < x) BY <1>1, <1>2
<1>4. \A y \in S : x <= y BY <1>3
<1> QED BY <1>1, <1>4

\* The two halves of a list, and a turn of the loop over all of it that leaves
\* what a loop F leaves of the second half.
Odds(l)  == [i \in 1 .. (Len(l) + 1) \div 2 |-> l[2 * i - 1]]
Evens(l) == [i \in 1 .. Len(l) \div 2 |-> l[2 * i]]

Turn(F, l) ==
    IF Len(l) % 2 = 0 THEN [erased |-> Odds(l), left |-> Evens(l)]
    ELSE [erased |-> Odds(l) \o F[Evens(l)].erased, left |-> F[Evens(l)].left]

LEMMA Halves ==
    ASSUME NEW l \in Seq(MD!VPs)
    PROVE  /\ Odds(l) \in Seq(MD!VPs) /\ Evens(l) \in Seq(MD!VPs)
           /\ Len(l) \in Nat /\ Len(Evens(l)) \in Nat
           /\ Len(l) % 2 # 0 => Len(Evens(l)) < Len(l)
           /\ MD!Range(l) \subseteq MD!Range(Odds(l)) \cup MD!Range(Evens(l))
<1>1. PICK n \in Nat : n = Len(l) BY LenProperties
<1>2. \A i \in 1 .. n : l[i] \in MD!VPs BY <1>1, ElementOfSeq
<1>3. (n + 1) \div 2 \in Nat /\ n \div 2 \in Nat /\ (n % 2 # 0 => n \div 2 < n) BY <1>1
<1>4. Odds(l) \in [1 .. (n + 1) \div 2 -> MD!VPs]
  <2>1. \A i \in 1 .. (n + 1) \div 2 : 2 * i - 1 \in 1 .. n BY <1>1
  <2> QED BY <1>1, <1>2, <2>1 DEF Odds
<1>5. Evens(l) \in [1 .. n \div 2 -> MD!VPs]
  <2>1. \A i \in 1 .. n \div 2 : 2 * i \in 1 .. n BY <1>1
  <2> QED BY <1>1, <1>2, <2>1 DEF Evens
<1>6. /\ Odds(l) \in Seq(MD!VPs) /\ Evens(l) \in Seq(MD!VPs) /\ Len(Evens(l)) = n \div 2
      /\ DOMAIN Odds(l) = 1 .. (n + 1) \div 2 /\ DOMAIN Evens(l) = 1 .. n \div 2
  BY <1>3, <1>4, <1>5, SeqDef, LenProperties
<1>7. ASSUME NEW x \in MD!Range(l) PROVE x \in MD!Range(Odds(l)) \cup MD!Range(Evens(l))
  <2>1. PICK k \in 1 .. n : x = l[k] BY <1>1, <1>7, LenProperties DEF MD!Range
  <2>2. \/ \E i \in 1 .. (n + 1) \div 2 : k = 2 * i - 1
        \/ \E i \in 1 .. n \div 2 : k = 2 * i
    <3>1. CASE k % 2 = 0
      <4>1. k \div 2 \in 1 .. n \div 2 /\ k = 2 * (k \div 2) BY <1>1, <3>1
      <4> QED BY <4>1
    <3>2. CASE k % 2 = 1
      <4>1. (k + 1) \div 2 \in 1 .. (n + 1) \div 2 /\ k = 2 * ((k + 1) \div 2) - 1
        BY <1>1, <3>2
      <4> QED BY <4>1
    <3> QED BY <3>1, <3>2
  <2>3. ASSUME NEW i \in 1 .. (n + 1) \div 2, k = 2 * i - 1 PROVE x \in MD!Range(Odds(l))
    <3>1. Odds(l)[i] = x BY <1>1, <2>1, <2>3 DEF Odds
    <3> QED BY <1>6, <3>1 DEF MD!Range
  <2>4. ASSUME NEW i \in 1 .. n \div 2, k = 2 * i PROVE x \in MD!Range(Evens(l))
    <3>1. Evens(l)[i] = x BY <1>1, <2>1, <2>4 DEF Evens
    <3> QED BY <1>6, <3>1 DEF MD!Range
  <2> QED BY <2>2, <2>3, <2>4
<1> QED BY <1>1, <1>3, <1>6, <1>7

\* F is the loop on lists of at most n VPs.
Short(n)     == {l \in Seq(MD!VPs) : Len(l) <= n}
IsSkim(F, n) == F = [l \in Short(n) |-> Turn(F, l)]

LEMMA SkimsAgree ==
    ASSUME NEW F, NEW G, NEW m \in Nat, NEW n \in Nat, IsSkim(F, m), IsSkim(G, n),
           NEW l \in Short(m) \cap Short(n)
    PROVE  F[l] = G[l]
<1> DEFINE Bad == {k \in Nat : \E s \in Short(m) \cap Short(n) : Len(s) = k /\ F[s] # G[s]}
<1>1. ASSUME NEW s \in Short(m) \cap Short(n)
      PROVE  /\ s \in Seq(MD!VPs) /\ Len(s) \in Nat
             /\ F[s] = Turn(F, s) /\ G[s] = Turn(G, s)
  BY Halves DEF IsSkim, Short
<1>2. ASSUME NEW k \in Bad, \A j \in Bad : k <= j PROVE FALSE
  <2>1. PICK s \in Short(m) \cap Short(n) : Len(s) = k /\ F[s] # G[s] OBVIOUS
  <2>2. Len(s) % 2 # 0 => F[Evens(s)] = G[Evens(s)]
    <3> SUFFICES ASSUME Len(s) % 2 # 0 PROVE F[Evens(s)] = G[Evens(s)] OBVIOUS
    <3>1. Evens(s) \in Seq(MD!VPs) /\ Len(Evens(s)) \in Nat /\ Len(Evens(s)) < Len(s)
      BY <1>1, Halves
    <3>2. Evens(s) \in Short(m) \cap Short(n) BY <1>1, <3>1 DEF Short
    <3>3. Len(Evens(s)) \notin Bad BY <1>2, <2>1, <3>1
    <3> QED BY <3>1, <3>2, <3>3
  <2>3. Turn(F, s) = Turn(G, s) BY <2>2 DEF Turn
  <2> QED BY <1>1, <2>1, <2>3
<1>3. Bad = {}
  <2>1. Bad \in SUBSET Nat OBVIOUS
  <2> HIDE DEF Bad
  <2> QED BY <1>2, <2>1, LeastNat
<1> QED BY <1>1, <1>3

LEMMA SkimsExist ==
    ASSUME NEW n \in Nat
    PROVE  \E F : IsSkim(F, n)
<1> DEFINE Bad == {k \in Nat : ~\E F : IsSkim(F, k)}
<1>1. ASSUME NEW k \in Bad, \A j \in Bad : k <= j PROVE FALSE
  <2>1. PICK F : k # 0 => IsSkim(F, k - 1)
    <3>1. CASE k = 0 BY <3>1
    <3>2. CASE k # 0
      <4>1. k - 1 \in Nat /\ ~(k <= k - 1) BY <3>2
      <4>2. k - 1 \notin Bad BY <1>1, <4>1
      <4> QED BY <4>1, <4>2
    <3> QED BY <3>1, <3>2
  <2> DEFINE G == [l \in Short(k) |-> Turn(F, l)]
  <2>2. ASSUME NEW l \in Short(k) PROVE Turn(G, l) = Turn(F, l)
    <3>1. l \in Seq(MD!VPs) /\ Len(l) <= k /\ k \in Nat BY <2>2 DEF Short
    <3>2. CASE Len(l) % 2 = 0 BY <3>2 DEF Turn
    <3>3. CASE Len(l) % 2 # 0
      <4>1. /\ Evens(l) \in Seq(MD!VPs) /\ Len(Evens(l)) \in Nat /\ Len(l) \in Nat
            /\ Len(Evens(l)) < Len(l)
        BY <3>1, <3>3, Halves
      <4>2. Len(Evens(l)) <= k - 1 /\ Len(Evens(l)) <= k /\ k # 0 BY <3>1, <4>1
      <4>3. Evens(l) \in Short(k - 1) /\ Evens(l) \in Short(k) BY <4>1, <4>2 DEF Short
      <4>4. F[Evens(l)] = Turn(F, Evens(l)) BY <2>1, <4>2, <4>3 DEF IsSkim
      <4>5. G[Evens(l)] = Turn(F, Evens(l)) BY <4>3
      <4> HIDE DEF G
      <4> QED BY <3>3, <4>4, <4>5 DEF Turn
    <3> QED BY <3>2, <3>3
  <2>3. IsSkim(G, k) BY <2>2 DEF IsSkim
  <2> QED BY <2>3
<1>2. Bad = {}
  <2>1. Bad \in SUBSET Nat OBVIOUS
  <2> HIDE DEF Bad
  <2> QED BY <1>1, <2>1, LeastNat
<1> QED BY <1>2

\* The recursion of Skim defines it.
LEMMA SkimDef == \A l \in Seq(MD!VPs) : MD!Skim[l] = Turn(MD!Skim, l)
<1> DEFINE Is(F) == F = [l \in Seq(MD!VPs) |-> Turn(F, l)]
           Loop0(n) == CHOOSE F : IsSkim(F, n)
           All == [l \in Seq(MD!VPs) |-> Turn(Loop0(Len(l)), l)]
<1>1. ASSUME NEW n \in Nat PROVE IsSkim(Loop0(n), n) BY SkimsExist
<1>2. ASSUME NEW l \in Seq(MD!VPs), NEW n \in Nat, Len(l) <= n PROVE All[l] = Loop0(n)[l]
  <2>1. Len(l) \in Nat BY Halves
  <2>2. l \in Short(Len(l)) /\ l \in Short(n) BY <1>2, <2>1 DEF Short
  <2>3. Loop0(Len(l))[l] = Turn(Loop0(Len(l)), l)
    <3> HIDE DEF Loop0
    <3> QED BY <1>1, <2>1, <2>2 DEF IsSkim
  <2>4. Loop0(Len(l))[l] = Loop0(n)[l]
    <3>1. IsSkim(Loop0(Len(l)), Len(l)) /\ IsSkim(Loop0(n), n) BY <1>1, <2>1
    <3> HIDE DEF Loop0
    <3> QED BY <2>1, <2>2, <3>1, SkimsAgree
  <2>5. All[l] = Turn(Loop0(Len(l)), l) OBVIOUS
  <2> QED BY <2>3, <2>4, <2>5
<1>3. ASSUME NEW l \in Seq(MD!VPs) PROVE Turn(Loop0(Len(l)), l) = Turn(All, l)
  <2>1. CASE Len(l) % 2 = 0 BY <2>1 DEF Turn
  <2>2. CASE Len(l) % 2 # 0
    <3>1. /\ Evens(l) \in Seq(MD!VPs) /\ Len(Evens(l)) \in Nat /\ Len(l) \in Nat
          /\ Len(Evens(l)) <= Len(l)
      BY <2>2, Halves
    <3>2. All[Evens(l)] = Loop0(Len(l))[Evens(l)] BY <1>2, <3>1
    <3> HIDE DEF All, Loop0
    <3> QED BY <2>2, <3>2 DEF Turn
  <2> QED BY <2>1, <2>2
<1>4. Is(All)
  <2>1. All = [l \in Seq(MD!VPs) |-> Turn(All, l)] BY <1>3
  <2> QED BY <2>1
<1>5. MD!Skim = CHOOSE F : Is(F) BY DEF MD!Skim, Turn, Odds, Evens
<1>6. Is(CHOOSE F : Is(F))
  <2>1. \E F : Is(F) BY <1>4
  <2> HIDE DEF Is
  <2> QED BY <2>1
<1>7. Is(MD!Skim)
  <2> HIDE DEF Is
  <2> QED BY <1>5, <1>6
<1> HIDE DEF All
<1> QED BY <1>7

\* Whom broadcast_null does not erase is left on the list.
LEMMA SkimKeeps ==
    ASSUME NEW l \in Seq(MD!VPs)
    PROVE  /\ MD!Skim[l].erased \in Seq(MD!VPs) /\ MD!Skim[l].left \in Seq(MD!VPs)
           /\ MD!Range(l) \subseteq MD!Range(MD!Skim[l].erased) \cup MD!Range(MD!Skim[l].left)
<1> DEFINE Good(s) == /\ MD!Skim[s].erased \in Seq(MD!VPs) /\ MD!Skim[s].left \in Seq(MD!VPs)
                      /\ MD!Range(s)
                            \subseteq MD!Range(MD!Skim[s].erased) \cup MD!Range(MD!Skim[s].left)
           Bad == {k \in Nat : \E s \in Seq(MD!VPs) : Len(s) = k /\ ~Good(s)}
<1>1. ASSUME NEW k \in Bad, \A j \in Bad : k <= j PROVE FALSE
  <2>1. PICK s \in Seq(MD!VPs) : Len(s) = k /\ ~Good(s) OBVIOUS
  <2>2. /\ Odds(s) \in Seq(MD!VPs) /\ Evens(s) \in Seq(MD!VPs)
        /\ MD!Range(s) \subseteq MD!Range(Odds(s)) \cup MD!Range(Evens(s))
        /\ MD!Skim[s] = Turn(MD!Skim, s)
    BY Halves, SkimDef
  <2>3. CASE Len(s) % 2 = 0
    <3>1. MD!Skim[s].erased = Odds(s) /\ MD!Skim[s].left = Evens(s) BY <2>2, <2>3 DEF Turn
    <3> QED BY <2>1, <2>2, <3>1
  <2>4. CASE Len(s) % 2 # 0
    <3> DEFINE e == MD!Skim[Evens(s)].erased
               r == MD!Skim[Evens(s)].left
    <3>1. MD!Skim[s].erased = Odds(s) \o e /\ MD!Skim[s].left = r BY <2>2, <2>4 DEF Turn
    <3>2. Good(Evens(s))
      <4>1. Len(Evens(s)) \in Nat /\ Len(s) \in Nat /\ Len(Evens(s)) < Len(s)
        BY <2>4, Halves
      <4>2. Len(Evens(s)) \notin Bad
        <5> HIDE DEF Bad
        <5> QED BY <1>1, <2>1, <4>1
      <4> HIDE DEF Good
      <4> QED BY <2>2, <4>1, <4>2
    <3>3. /\ e \in Seq(MD!VPs) /\ r \in Seq(MD!VPs)
          /\ MD!Range(Evens(s)) \subseteq MD!Range(e) \cup MD!Range(r)
      BY <3>2
    <3> HIDE DEF e, r
    <3>4. Odds(s) \o e \in Seq(MD!VPs) /\ MD!Range(Odds(s) \o e) = MD!Range(Odds(s)) \cup MD!Range(e)
      BY <2>2, <3>3, RangeConcatenation, SameRange
    <3> QED BY <2>1, <2>2, <3>1, <3>3, <3>4
  <2> QED BY <2>3, <2>4
<1>2. Bad = {}
  <2>1. Bad \in SUBSET Nat OBVIOUS
  <2> HIDE DEF Bad
  <2> QED BY <1>1, <2>1, LeastNat
<1>3. Len(l) \in Nat BY Halves
<1> QED BY <1>2, <1>3

-----------------------------------------------------------------------------
(* What list::remove leaves of a list *)

\* Only v is gone.
LEMMA WithoutKeeps ==
    ASSUME NEW l \in Seq(MD!VPs), NEW v
    PROVE  /\ MD!Without(l, v) \in Seq(MD!VPs)
           /\ MD!Range(l) \ {v} \subseteq MD!Range(MD!Without(l, v))
<1> DEFINE kept    == {i \in DOMAIN l : l[i] # v}
           upto(i) == {k \in kept : k <= i}
           rank(i) == MD!Cardinality(upto(i))
           m       == MD!Cardinality(kept)
           R       == [i \in kept |-> rank(i)]
<1>1. PICK n \in Nat : n = Len(l) /\ DOMAIN l = 1 .. n BY LenProperties
<1>2. \A i \in 1 .. n : l[i] \in MD!VPs BY <1>1, ElementOfSeq
<1>3. IsFiniteSet(1 .. n)
  <2>1. n \in Int /\ 1 \in Int OBVIOUS
  <2> QED BY <2>1, FS_Interval
<1>4. kept \in SUBSET (1 .. n) BY <1>1
<1> HIDE DEF kept
<1>5. IsFiniteSet(kept) /\ m \in Nat
  BY <1>3, <1>4, SameCardinality, FS_Subset, FS_CardinalityType
<1>6. ASSUME NEW i \in kept
      PROVE  /\ IsFiniteSet(upto(i)) /\ rank(i) \in 1 .. m
             /\ upto(i) \in SUBSET kept /\ i \in upto(i)
  <2>1. upto(i) \in SUBSET kept /\ i \in upto(i) /\ i \in Nat BY <1>4
  <2> HIDE DEF upto
  <2>2. IsFiniteSet(upto(i)) /\ rank(i) <= m /\ rank(i) \in Nat
    BY <1>5, <2>1, SameCardinality, FS_Subset, FS_CardinalityType
  <2>3. rank(i) # 0 BY <2>1, <2>2, SameCardinality, FS_EmptySet
  <2> QED BY <1>5, <2>1, <2>2, <2>3
<1>7. ASSUME NEW i \in kept, NEW k \in kept, i < k PROVE rank(i) # rank(k)
  <2>0. kept \in SUBSET Nat /\ i \in Nat /\ k \in Nat BY <1>4
  <2>1. upto(i) \in SUBSET upto(k) /\ k \in upto(k) /\ k \notin upto(i)
    <3>1. \A x \in kept : x <= i => x <= k BY <1>7, <2>0
    <3>2. k <= k /\ ~(k <= i) BY <1>7, <2>0
    <3> QED BY <3>1, <3>2
  <2>2. IsFiniteSet(upto(k)) BY <1>6
  <2> HIDE DEF upto
  <2> QED BY <2>1, <2>2, SameCardinality, FS_Subset
<1> HIDE DEF upto, rank
<1>8. \A i, k \in kept : rank(i) = rank(k) => i = k
  <2> SUFFICES ASSUME NEW i \in kept, NEW k \in kept, rank(i) = rank(k) PROVE i = k
    OBVIOUS
  <2>1. ~(i < k) /\ ~(k < i) BY <1>7
  <2> QED BY <1>4, <2>1
<1>9. \A r \in 1 .. m : \E i \in kept : rank(i) = r
  <2>1. R \in [kept -> 1 .. m] /\ \A i \in kept : R[i] = rank(i) BY <1>6
  <2> HIDE DEF R
  <2>2. R \in Injection(kept, 1 .. m) BY <1>8, <2>1 DEF Injection, IsInjective
  <2>3. IsFiniteSet(1 .. m) /\ Cardinality(1 .. m) = m
    <3>1. 1 \in Int /\ m \in Int BY <1>5
    <3>2. IsFiniteSet(1 .. m) /\ Cardinality(1 .. m) = IF 1 > m THEN 0 ELSE m - 1 + 1
      BY <3>1, FS_Interval
    <3> QED BY <1>5, <3>2
  <2>4. R \in Surjection(kept, 1 .. m) BY <1>5, <2>2, <2>3, SameCardinality, FS_Injection
  <2> QED BY <2>1, <2>4 DEF Surjection
<1> DEFINE at(r) == CHOOSE i \in kept : rank(i) = r
<1>10. MD!Without(l, v) = [r \in 1 .. m |-> l[at(r)]] BY DEF MD!Without, kept, upto, rank, m
<1>11. \A r \in 1 .. m : at(r) \in kept /\ rank(at(r)) = r BY <1>9
<1> HIDE DEF at, m
<1>12. MD!Without(l, v) \in Seq(MD!VPs) /\ DOMAIN MD!Without(l, v) = 1 .. m
  <2>1. \A r \in 1 .. m : l[at(r)] \in MD!VPs BY <1>2, <1>4, <1>11
  <2>2. MD!Without(l, v) \in [1 .. m -> MD!VPs] BY <1>10, <2>1
  <2> QED BY <1>5, <2>2, SeqDef
<1>13. ASSUME NEW x \in MD!Range(l), x # v PROVE x \in MD!Range(MD!Without(l, v))
  <2>1. PICK i \in kept : l[i] = x BY <1>13 DEF MD!Range, kept
  <2>2. rank(i) \in 1 .. m BY <1>6
  <2>3. at(rank(i)) = i BY <1>8, <1>11, <2>2
  <2>4. MD!Without(l, v)[rank(i)] = x BY <1>10, <2>1, <2>2, <2>3
  <2> QED BY <1>12, <2>2, <2>4 DEF MD!Range
<1> QED BY <1>12, <1>13

-----------------------------------------------------------------------------
(* Who waits, and with what *)

\* A VP that was answered, or told to stop, before it has gone on: it has nothing,
\* or a job that has not finished.
SettledAt(v) ==
    pc[v] \in Waiting /\ v \notin MD!Range(waiting) =>
        current[v] = NULL \/ state[current[v]] # "finished"

\* Every VP is on one of the daemon's lists.
Queues ==
    /\ running \in Seq(MD!VPs) /\ waiting \in Seq(MD!VPs)
    /\ \A v \in MD!VPs : v \in MD!Range(running) \cup MD!Range(waiting)
    /\ \A v \in MD!VPs : SettledAt(v)

LEMMA RangeAppend ==
    ASSUME NEW S, NEW s \in Seq(S), NEW x \in S
    PROVE  Append(s, x) \in Seq(S) /\ MD!Range(Append(s, x)) = MD!Range(s) \cup {x}
<1>1. <<x>> \in Seq(S) /\ MD!Range(<<x>>) = {x}
  <2>1. <<x>> \in Seq(S) /\ DOMAIN <<x>> = {1} /\ <<x>>[1] = x OBVIOUS
  <2> QED BY <2>1 DEF MD!Range
<1>2. Append(s, x) = s \o <<x>> BY AppendIsConcat
<1>3. MD!Range(s \o <<x>>) = MD!Range(s) \cup MD!Range(<<x>>)
  BY <1>1, RangeConcatenation, SameRange
<1>4. Append(s, x) \in Seq(S) BY AppendProperties
<1> QED BY <1>1, <1>2, <1>3, <1>4

LEMMA RangeTail ==
    ASSUME NEW S, NEW s \in Seq(S), s # <<>>
    PROVE  /\ Head(s) \in S /\ Tail(s) \in Seq(S)
           /\ MD!Range(s) \subseteq {Head(s)} \cup MD!Range(Tail(s))
<1>1. /\ Head(s) \in S /\ Tail(s) \in Seq(S) /\ Len(Tail(s)) = Len(s) - 1
      /\ \A i \in 1 .. Len(Tail(s)) : Tail(s)[i] = s[i + 1]
      /\ Head(s) = s[1] /\ DOMAIN s = 1 .. Len(s) /\ Len(s) \in Nat
      /\ DOMAIN Tail(s) = 1 .. Len(Tail(s))
  BY HeadTailProperties, LenProperties
<1>2. ASSUME NEW i \in DOMAIN s, i # 1 PROVE s[i] \in MD!Range(Tail(s))
  <2>1. i - 1 \in 1 .. Len(Tail(s)) /\ (i - 1) + 1 = i BY <1>1, <1>2
  <2>2. Tail(s)[i - 1] = s[i] BY <1>1, <2>1
  <2> QED BY <1>1, <2>1, <2>2 DEF MD!Range
<1>3. \A i \in DOMAIN s : s[i] \in {Head(s)} \cup MD!Range(Tail(s)) BY <1>1, <1>2
<1> QED BY <1>1, <1>3 DEF MD!Range

\* Nobody starts to wait, and no job finishes that a settled VP has.
LEMMA QuietQueues ==
    ASSUME Queues, UNCHANGED <<running, waiting>>,
           \A w \in MD!VPs : pc'[w] \in Waiting =>
               /\ pc[w] \in Waiting /\ current'[w] = current[w]
               /\ state'[current[w]] = "finished" =>
                     current[w] = NULL \/ state[current[w]] = "finished"
    PROVE  Queues'
BY DEF Queues, SettledAt

\* request_job.
LEMMA RequestQueues ==
    ASSUME MonitorAssumption, MDInv, Queues, NEW v \in MD!VPs, NEW s, MD!RequestJob(v, s)
    PROVE  Queues'
<1>0. /\ running \in Seq(MD!VPs) /\ waiting \in Seq(MD!VPs)
      /\ \A w \in MD!VPs : w \in MD!Range(running) \cup MD!Range(waiting)
      /\ \A w \in MD!VPs : SettledAt(w)
      /\ state \in [MD!Jobs -> {"none", "ready", "running", "finished"}]
      /\ current \in [MD!VPs -> Handed] /\ NULL \notin MD!Jobs
      /\ pc \in [MD!VPs -> AtRun \cup InBody \cup Waiting]
  BY DEF Queues, MDInv, MDTypeOK, MonitorAssumption, MD!Jobs
<1>1. \A k \in (IF v = 0 THEN MD!RootReady ELSE MD!Claimable(s)) : k \in MD!Jobs
  BY DEF MD!RootReady, MD!Claimable, MD!Children, MDInv, MDTypeOK
<1>2. ASSUME NEW k \in MD!Jobs, state' = MD!Claim(k)
      PROVE  \A x \in MD!Jobs : state'[x] = "finished" => state[x] = "finished"
  BY <1>0, <1>2 DEF MD!Claim
<1>3. ASSUME NEW k \in MD!Jobs, state' = MD!Claim(k), current' = [current EXCEPT ![v] = k],
             pc' = [pc EXCEPT ![v] = "awake"], UNCHANGED MD!lists
      PROVE  Queues'
  <2>1. running' = running /\ waiting' = waiting BY <1>3 DEF MD!lists
  <2>2. ASSUME NEW w \in MD!VPs PROVE SettledAt(w)'
    <3>1. CASE w = v
      <4>1. current'[w] = k /\ state'[k] = "running" BY <1>0, <1>3, <3>1 DEF MD!Claim
      <4> QED BY <4>1 DEF SettledAt
    <3>2. CASE w # v
      <4>1. current'[w] = current[w] /\ pc'[w] = pc[w] /\ current[w] \in MD!Jobs \cup {NULL}
        BY <1>0, <1>3, <3>2 DEF Handed
      <4> QED BY <1>0, <1>2, <1>3, <2>1, <4>1 DEF SettledAt
    <3> QED BY <3>1, <3>2
  <2> QED BY <1>0, <2>1, <2>2 DEF Queues
<1>4. ASSUME \A x \in MD!Jobs : state'[x] = "finished" => state[x] = "finished",
             MD!BroadcastNull(v)
      PROVE  Queues'
  <2> DEFINE e == MD!Skim[waiting].erased
             r == MD!Skim[waiting].left
             told == MD!Range(running) \cup MD!Range(e)
  <2>1. /\ running' = running \o e /\ waiting' = r
        /\ current' = [w \in MD!VPs |-> IF w \in told THEN NULL ELSE current[w]]
    BY <1>4 DEF MD!BroadcastNull
  <2>2. /\ e \in Seq(MD!VPs) /\ r \in Seq(MD!VPs)
        /\ MD!Range(waiting) \subseteq MD!Range(e) \cup MD!Range(r)
    BY <1>0, SkimKeeps
  <2> HIDE DEF e, r
  <2>3. running' \in Seq(MD!VPs) /\ MD!Range(running') = told
    BY <1>0, <2>1, <2>2, RangeConcatenation, SameRange, ConcatProperties
  <2> HIDE DEF told
  <2>4. ASSUME NEW w \in MD!VPs PROVE w \in told \/ w \in MD!Range(waiting')
    BY <1>0, <2>1, <2>2 DEF told
  <2>5. ASSUME NEW w \in MD!VPs PROVE SettledAt(w)'
    <3>1. CASE w \in told BY <2>1, <3>1 DEF SettledAt
    <3>2. CASE w \notin told BY <2>4, <3>2 DEF SettledAt
    <3> QED BY <3>1, <3>2
  <2> QED BY <2>1, <2>2, <2>3, <2>4, <2>5 DEF Queues
<1>5. ASSUME \A x \in MD!Jobs : state'[x] = "finished" => state[x] = "finished",
             waiting' = Append(waiting, v), running' = MD!Without(running, v),
             pc' = [pc EXCEPT ![v] = "wait"], UNCHANGED current
      PROVE  Queues'
  <2>1. waiting' \in Seq(MD!VPs) /\ MD!Range(waiting') = MD!Range(waiting) \cup {v}
    BY <1>0, <1>5, RangeAppend
  <2>2. running' \in Seq(MD!VPs) /\ MD!Range(running) \ {v} \subseteq MD!Range(running')
    BY <1>0, <1>5, WithoutKeeps
  <2>3. ASSUME NEW w \in MD!VPs PROVE w \in MD!Range(running') \cup MD!Range(waiting')
    BY <1>0, <2>1, <2>2
  <2>4. ASSUME NEW w \in MD!VPs, w # v PROVE SettledAt(w)'
    <3>1. current'[w] = current[w] /\ pc'[w] = pc[w] /\ current[w] \in MD!Jobs \cup {NULL}
      BY <1>0, <1>5, <2>4 DEF Handed
    <3> QED BY <1>0, <1>5, <2>1, <3>1 DEF SettledAt
  <2>5. SettledAt(v)' BY <2>1 DEF SettledAt
  <2> QED BY <2>1, <2>2, <2>3, <2>4, <2>5 DEF Queues
<1>6. \/ \E k \in MD!Jobs : /\ state' = MD!Claim(k) /\ current' = [current EXCEPT ![v] = k]
                            /\ pc' = [pc EXCEPT ![v] = "awake"] /\ UNCHANGED MD!lists
      \/ /\ (state' = state \/ \E k \in MD!Jobs : state' = MD!Claim(k))
         /\ \/ MD!BroadcastNull(v)
            \/ /\ waiting' = Append(waiting, v) /\ running' = MD!Without(running, v)
               /\ pc' = [pc EXCEPT ![v] = "wait"] /\ UNCHANGED current
  <2> DEFINE found == IF v = 0 THEN MD!RootReady ELSE MD!Claimable(s)
             given == {j \in found : v = 0 \/ MD!Returned(s)}
  <2>1. found \subseteq MD!Jobs /\ given \subseteq MD!Jobs BY <1>1
  <2>2. /\ \/ \E j \in given :
              /\ state' = MD!Claim(j)
              /\ current' = [current EXCEPT ![v] = j]
              /\ pc' = [pc EXCEPT ![v] = "awake"]
              /\ UNCHANGED MD!lists
           \/ /\ given = {}
              /\ \/ found = {} /\ UNCHANGED state
                 \/ \E j \in found : state' = MD!Claim(j)
              /\ IF MD!LastOne
                 THEN MD!BroadcastNull(v)
                 ELSE /\ waiting' = Append(waiting, v)
                      /\ running' = MD!Without(running, v)
                      /\ pc' = [pc EXCEPT ![v] = "wait"]
                      /\ UNCHANGED <<current, shouldStop>>
    BY DEF MD!RequestJob
  <2> HIDE DEF found, given
  <2> QED BY <2>1, <2>2
<1>7. CASE \E k \in MD!Jobs : /\ state' = MD!Claim(k) /\ current' = [current EXCEPT ![v] = k]
                              /\ pc' = [pc EXCEPT ![v] = "awake"] /\ UNCHANGED MD!lists
  BY <1>3, <1>7
<1>8. CASE state' = state \/ \E k \in MD!Jobs : state' = MD!Claim(k)
  <2>1. \A x \in MD!Jobs : state'[x] = "finished" => state[x] = "finished" BY <1>2, <1>8
  <2> QED BY <1>3, <1>4, <1>5, <1>6, <2>1
<1> QED BY <1>6, <1>7, <1>8

\* post_job: the VP that has waited longest is answered with a job that has just
\* been marked running.
LEMMA PostQueues ==
    ASSUME MonitorAssumption, MDInv, Queues, NEW v \in MD!VPs, NEW j \in MD!Jobs, MD!Post(v, j)
    PROVE  Queues'
<1>0. /\ running \in Seq(MD!VPs) /\ waiting \in Seq(MD!VPs)
      /\ \A w \in MD!VPs : w \in MD!Range(running) \cup MD!Range(waiting)
      /\ \A w \in MD!VPs : SettledAt(w)
      /\ state \in [MD!Jobs -> {"none", "ready", "running", "finished"}]
      /\ current \in [MD!VPs -> Handed] /\ NULL \notin MD!Jobs
      /\ pc \in [MD!VPs -> AtRun \cup InBody \cup Waiting]
  BY DEF Queues, MDInv, MDTypeOK, MonitorAssumption, MD!Jobs
<1>1. map' \subseteq MD!Jobs BY DEF MD!Post, MD!PostJob, MDInv, MDTypeOK
<1>2. CASE pc' = [pc EXCEPT ![v] = "body"] /\ UNCHANGED <<state, current, running, waiting>>
  <2>1. ASSUME NEW w \in MD!VPs
        PROVE  /\ pc'[w] \in Waiting => pc[w] \in Waiting
               /\ current[w] \in MD!Jobs \cup {NULL}
    BY <1>0, <1>2 DEF Handed, Waiting
  <2> QED BY <1>2, <2>1, QuietQueues
<1>3. ASSUME NEW k \in map', waiting # <<>>, MD!Signal(v), state' = MD!Claim(k),
             current' = MD!Answer(Head(waiting), k),
             running' = Append(running, Head(waiting)), waiting' = Tail(waiting)
      PROVE  Queues'
  <2> DEFINE h == Head(waiting)
  <2>1. /\ h \in MD!VPs /\ waiting' \in Seq(MD!VPs)
        /\ MD!Range(waiting) \subseteq {h} \cup MD!Range(waiting')
    BY <1>0, <1>3, RangeTail
  <2> HIDE DEF h
  <2>2. running' \in Seq(MD!VPs) /\ MD!Range(running') = MD!Range(running) \cup {h}
    BY <1>0, <1>3, <2>1, RangeAppend DEF h
  <2>3. \A w \in MD!VPs : w \in MD!Range(running') \cup MD!Range(waiting')
    BY <1>0, <2>1, <2>2
  <2>4. k \in MD!Jobs /\ state'[k] = "running"
        /\ \A x \in MD!Jobs : state'[x] = "finished" => state[x] = "finished"
    BY <1>0, <1>1, <1>3 DEF MD!Claim
  <2>5. \A w \in MD!VPs : pc'[w] \in Waiting => pc[w] \in Waiting
    <3>1. PICK s : /\ s = v \/ pc[s] = "wait"
                   /\ pc' = [pc EXCEPT ![s] = "awake", ![v] = "body"]
      BY <1>3 DEF MD!Signal
    <3> QED BY <1>0, <3>1 DEF Waiting
  <2>6. \A w \in MD!VPs : current'[w] = IF w = h THEN k ELSE current[w]
    BY <1>0, <1>3, <2>1 DEF MD!Answer, h
  <2>7. ASSUME NEW w \in MD!VPs PROVE SettledAt(w)'
    <3>1. CASE w = h BY <2>4, <2>6, <3>1 DEF SettledAt
    <3>2. CASE w # h
      <4>1. w \in MD!Range(waiting) => w \in MD!Range(waiting)' BY <2>1, <3>2
      <4>2. current'[w] = current[w] /\ current[w] \in MD!Jobs \cup {NULL}
        BY <1>0, <2>6, <3>2 DEF Handed
      <4> QED BY <1>0, <2>4, <2>5, <4>1, <4>2 DEF SettledAt
    <3> QED BY <3>1, <3>2
  <2> QED BY <2>1, <2>2, <2>3, <2>7 DEF Queues
<1>4. \/ pc' = [pc EXCEPT ![v] = "body"] /\ UNCHANGED <<state, current, running, waiting>>
      \/ \E k \in map' :
            /\ waiting # <<>> /\ MD!Signal(v) /\ state' = MD!Claim(k)
            /\ current' = MD!Answer(Head(waiting), k)
            /\ running' = Append(running, Head(waiting)) /\ waiting' = Tail(waiting)
  BY DEF MD!Post, MD!PostJob
<1> QED BY <1>2, <1>3, <1>4

\* A body that returns finishes its own job, which nobody else has.
LEMMA ReturnQueues ==
    ASSUME MonitorAssumption, MDInv, Queues, NEW v \in MD!VPs, MD!Return(v)
    PROVE  Queues'
<1>1. /\ pc[v] = "body" /\ MD!Body(v) # Main /\ UNCHANGED <<running, waiting>>
      /\ state' = [state EXCEPT ![MD!Body(v)] = IF @ = "running" THEN "finished" ELSE @]
      /\ state \in [MD!Jobs -> {"none", "ready", "running", "finished"}]
      /\ current \in [MD!VPs -> Handed] /\ pc \in [MD!VPs -> AtRun \cup InBody \cup Waiting]
  BY DEF MD!Return, MD!lists, MDInv, MDTypeOK
<1>2. /\ \A w \in MD!VPs \ {v} : pc'[w] = pc[w] /\ current'[w] = current[w]
      /\ pc'[v] \in {"loop", "joined", "join"}
  BY <1>1 DEF MD!Return
<1>3. MD!Body(v) \in MD!Jobs /\ Running(v, MD!Body(v))
  <2>1. frames[v] # <<>> BY <1>1 DEF MDInv, MDLocal, ShapeAt, InBody
  <2>2. /\ MD!Last(frames[v]) \in FrameOf /\ MD!Last(frames[v]) = frames[v][Len(frames[v])]
        /\ Len(frames[v]) \in DOMAIN frames[v]
    BY <2>1, TopFacts, OwnFacts
  <2> QED BY <1>1, <2>2 DEF MD!Body, FrameOf, Fns, Running
<1>4. ASSUME NEW w \in MD!VPs, pc'[w] \in Waiting
      PROVE  /\ pc[w] \in Waiting /\ current'[w] = current[w]
             /\ state'[current[w]] = "finished" =>
                   current[w] = NULL \/ state[current[w]] = "finished"
  <2>1. w # v BY <1>2, <1>4 DEF Waiting
  <2>2. current[w] # MD!Body(v)
    BY <1>3, <2>1 DEF MDInv, HeldAt, Holds
  <2>3. current[w] \in MD!Jobs \cup {NULL} BY <1>1 DEF Handed
  <2> QED BY <1>1, <1>2, <1>4, <2>1, <2>2, <2>3
<1> QED BY <1>1, <1>4, QuietQueues

\* The other steps of a VP: it does not wait after them.
LEMMA OtherQueues ==
    ASSUME MonitorAssumption, MDInv, Queues, NEW v \in MD!VPs,
           \/ (MD!Loop(v) /\ shouldStop[v])
           \/ MD!Requested(v) \/ MD!JoinTurn(v) \/ MD!Join(v)
           \/ \E j \in MD!Jobs : MD!Create(v, j) \/ MD!JoinBegin(v, j)
           \/ (v = 0 /\ MD!StopVPs)
    PROVE  Queues'
<1>0. /\ state \in [MD!Jobs -> {"none", "ready", "running", "finished"}]
      /\ current \in [MD!VPs -> Handed] /\ pc \in [MD!VPs -> AtRun \cup InBody \cup Waiting]
  BY DEF MDInv, MDTypeOK
<1>1. UNCHANGED <<running, waiting>>
  BY DEF MD!Loop, MD!Requested, MD!JoinTurn, MD!Join, MD!Create, MD!JoinBegin, MD!StopVPs,
       MD!lists
<1>2. \A x \in MD!Jobs : state'[x] = "finished" => state[x] = "finished"
  <2>0. ASSUME NEW j \in MD!Jobs, MD!Create(v, j) PROVE state' = [state EXCEPT ![j] = "ready"]
    BY <2>0 DEF MD!Create
  <2>1. \/ MD!JoinTurn(v) \/ state' = state
        \/ \E j \in MD!Jobs : state' = [state EXCEPT ![j] = "ready"]
    BY <2>0 DEF MD!Loop, MD!Requested, MD!Join, MD!JoinBegin, MD!StopVPs, MD!jobVars
  <2>2. MD!JoinTurn(v) => state' = state \/ state' = MD!Claim(MD!Joined(v))
    BY DEF MD!JoinTurn, MD!jobVars
  <2>3. MD!JoinTurn(v) => MD!Joined(v) \in MD!Jobs
    <3> SUFFICES ASSUME MD!JoinTurn(v) PROVE MD!Joined(v) \in MD!Jobs OBVIOUS
    <3>1. pc[v] = "join" BY DEF MD!JoinTurn
    <3>2. frames[v] # <<>> BY <3>1 DEF MDInv, MDLocal, ShapeAt, InBody
    <3>3. Len(frames[v]) \in DOMAIN frames[v] /\ MD!Last(frames[v]) = frames[v][Len(frames[v])]
      BY <3>2, TopFacts, OwnFacts
    <3> QED BY <3>1, <3>3, AllJoin DEF MD!Joined
  <2>4. \/ state' = state \/ \E k \in MD!Jobs : state' = MD!Claim(k)
        \/ \E j \in MD!Jobs : state' = [state EXCEPT ![j] = "ready"]
    BY <2>1, <2>2, <2>3
  <2> QED BY <1>0, <2>4 DEF MD!Claim
<1>3. \A w \in MD!VPs \ {v} : pc'[w] = pc[w] /\ current'[w] = current[w]
  BY <1>0 DEF MD!Loop, MD!Requested, MD!JoinTurn, MD!Join, MD!Create, MD!JoinBegin, MD!StopVPs,
       MD!Run
<1>4. pc'[v] \in Waiting => pc[v] \in Waiting /\ current'[v] = current[v]
  BY <1>0 DEF MD!Loop, MD!Requested, MD!JoinTurn, MD!Join, MD!Create, MD!JoinBegin, MD!StopVPs,
       MD!Run, Waiting
<1>5. \A w \in MD!VPs : current[w] \in MD!Jobs \cup {NULL} BY <1>0 DEF Handed
<1> QED BY <1>1, <1>2, <1>3, <1>4, <1>5, QuietQueues

LEMMA QueuesInit == ASSUME MonitorAssumption, MD!Init PROVE Queues
<1>1. running \in [1 .. NumVPs -> MD!VPs] /\ NumVPs \in Nat
  BY DEF MD!Init, MD!VPs, MonitorAssumption
<1>2. running \in Seq(MD!VPs) /\ DOMAIN running = 1 .. NumVPs BY <1>1, SeqDef
<1>3. ASSUME NEW v \in MD!VPs PROVE v \in MD!Range(running)
  <2>1. v + 1 \in 1 .. NumVPs /\ (v + 1) - 1 = v BY <1>1 DEF MD!VPs
  <2>2. running[v + 1] = v BY <2>1 DEF MD!Init
  <2> QED BY <1>2, <2>1, <2>2 DEF MD!Range
<1>4. waiting = <<>> /\ \A v \in MD!VPs : current[v] = NULL BY DEF MD!Init
<1> QED BY <1>2, <1>3, <1>4 DEF Queues, SettledAt

LEMMA QueuesNext ==
    ASSUME MonitorAssumption, MDInv, Queues, [MD!Next]_MD!vars
    PROVE  Queues'
<1>1. ASSUME NEW v \in MD!VPs, MD!VP(v) PROVE Queues'
  <2>1. CASE MD!Loop(v) \/ MD!Help(v)
    <3>1. CASE MD!Loop(v) /\ shouldStop[v] BY <3>1, OtherQueues
    <3>2. CASE MD!Loop(v) /\ ~shouldStop[v] BY <3>2, RequestQueues DEF MD!Loop
    <3>3. CASE MD!Help(v) BY <3>3, RequestQueues DEF MD!Help
    <3> QED BY <2>1, <3>1, <3>2, <3>3
  <2>2. CASE \E j \in MD!Jobs : MD!Post(v, j) BY <2>2, PostQueues
  <2>3. CASE MD!Return(v) BY <2>3, ReturnQueues
  <2>4. CASE \/ MD!Requested(v) \/ MD!JoinTurn(v) \/ MD!Join(v)
             \/ (\E j \in MD!Jobs : MD!Create(v, j) \/ MD!JoinBegin(v, j))
             \/ v = 0 /\ MD!StopVPs
    BY <2>4, OtherQueues
  <2> QED BY <1>1, <2>1, <2>2, <2>3, <2>4 DEF MD!VP
<1>2. CASE UNCHANGED MD!vars BY <1>2 DEF MD!vars, MD!jobVars, MD!lists, Queues, SettledAt
<1> QED BY <1>1, <1>2 DEF MD!Next

\* The step puts a body on v's stack.
Grows(v) == Len(frames'[v]) > Len(frames[v])

LEMMA WhoGrows ==
    ASSUME MDInv, NEW v \in MD!VPs, MD!VP(v), NEW w \in MD!VPs, Grows(w)
    PROVE  w = v /\ (MD!Requested(v) \/ MD!JoinTurn(v))
<1>0. frames \in [MD!VPs -> Seq(FrameOf)] BY DEF MDInv, MDTypeOK
<1>1. \A u \in MD!VPs : Len(frames[u]) \in Nat BY OwnFacts
<1>2. CASE UNCHANGED frames BY <1>1, <1>2 DEF Grows
<1>3. CASE MD!Join(v) \/ \E j \in MD!Jobs : MD!JoinBegin(v, j)
  <2>1. PICK x : frames' = [frames EXCEPT ![v][Len(frames[v])].joins = x]
    BY <1>3 DEF MD!Join, MD!JoinBegin
  <2>2. frames'[w] = IF w = v THEN [frames[v] EXCEPT ![Len(frames[v])].joins = x]
                     ELSE frames[w]
    BY <1>0, <2>1
  <2>3. Len([frames[v] EXCEPT ![Len(frames[v])].joins = x]) = Len(frames[v])
    BY <1>0, LenProperties
  <2> QED BY <1>1, <2>2, <2>3 DEF Grows
<1>4. CASE MD!Return(v)
  <2>1. frames' = [frames EXCEPT ![v] = MD!Front(frames[v])] BY <1>4 DEF MD!Return
  <2>2. frames[v] # <<>> BY <1>4 DEF MD!Return, MDInv, MDLocal, ShapeAt, InBody
  <2>3. Len(MD!Front(frames[v])) = Len(frames[v]) - 1 BY <2>2, TopFacts
  <2>4. frames'[w] = IF w = v THEN MD!Front(frames[v]) ELSE frames[w] BY <1>0, <2>1
  <2> QED BY <1>1, <2>3, <2>4 DEF Grows
<1>5. CASE MD!Requested(v) \/ MD!JoinTurn(v)
  <2>1. w # v => frames'[w] = frames[w] BY <1>0, <1>5 DEF MD!Requested, MD!JoinTurn, MD!Run
  <2> QED BY <1>1, <1>5, <2>1 DEF Grows
<1>6. MD!Loop(v) \/ MD!Help(v) \/ MD!StopVPs
        \/ (\E j \in MD!Jobs : MD!Create(v, j) \/ MD!Post(v, j))
      => UNCHANGED frames
  BY DEF MD!Loop, MD!Help, MD!StopVPs, MD!Create, MD!Post, MD!RequestJob
<1> QED BY <1>2, <1>3, <1>4, <1>5, <1>6 DEF MD!VP

\* What a VP puts on its stack is its current job, or one that was ready.
LEMMA PushedBody ==
    ASSUME MDInv, NEW v \in MD!VPs, MD!Requested(v) \/ MD!JoinTurn(v), Grows(v)
    PROVE  \/ /\ pc[v] = "awake" /\ current[v] # NULL
              /\ MD!Last(frames'[v]).body = current[v]
           \/ MD!Ready(MD!Last(frames'[v]).body)
<1>0. frames \in [MD!VPs -> Seq(FrameOf)] /\ Len(frames[v]) \in Nat
  BY OwnFacts DEF MDInv, MDTypeOK
<1>1. ~UNCHANGED frames BY <1>0 DEF Grows
<1>2. CASE MD!Requested(v)
  <2>1. pc[v] = "awake" /\ current[v] # NULL /\ MD!Run(v) BY <1>1, <1>2 DEF MD!Requested
  <2>2. frames'[v] = Append(frames[v], MD!Frame(current[v])) BY <1>0, <2>1 DEF MD!Run
  <2>3. MD!Last(frames'[v]) = MD!Frame(current[v])
    BY <1>0, <2>2 DEF MD!Last
  <2> QED BY <2>1, <2>3 DEF MD!Frame
<1>3. CASE MD!JoinTurn(v)
  <2>1. MD!Ready(MD!Joined(v)) /\ frames' = [frames EXCEPT ![v] = Append(@, MD!Frame(MD!Joined(v)))]
    BY <1>1, <1>3 DEF MD!JoinTurn
  <2>2. frames'[v] = Append(frames[v], MD!Frame(MD!Joined(v))) BY <1>0, <2>1
  <2>3. MD!Last(frames'[v]) = MD!Frame(MD!Joined(v)) BY <1>0, <2>2 DEF MD!Last
  <2> QED BY <2>1, <2>3 DEF MD!Frame
<1> QED BY <1>2, <1>3

LEMMA RerunsUnansweredAlone == MD!Spec => [][MD!Rerun]_MD!vars
<1> DEFINE A == \A v \in MD!VPs : /\ Len(frames'[v]) > Len(frames[v])
                                  /\ state[MD!Last(frames'[v]).body] = "finished"
                                  => v \in MD!Range(waiting)
<1>1. MD!Init => Queues BY MonitorAssumption, QueuesInit
<1>2. MDInv /\ Queues /\ [MD!Next]_MD!vars => Queues' BY MonitorAssumption, QueuesNext
<1>3. MDInv /\ Queues /\ [MD!Next]_MD!vars => [A]_MD!vars
  <2> SUFFICES ASSUME MDInv, Queues, MD!Next, NEW w \in MD!VPs, Grows(w),
                      state[MD!Last(frames'[w]).body] = "finished"
               PROVE  w \in MD!Range(waiting)
    BY DEF Grows
  <2>1. PICK v \in MD!VPs : MD!VP(v) BY DEF MD!Next
  <2>2. w = v /\ (MD!Requested(v) \/ MD!JoinTurn(v)) BY <2>1, WhoGrows
  <2>3. /\ pc[v] = "awake" /\ current[v] # NULL
        /\ MD!Last(frames'[v]).body = current[v]
    BY <2>2, PushedBody DEF MD!Ready
  <2> QED BY <2>2, <2>3 DEF Queues, SettledAt, Waiting
<1>4. MD!Spec => [][A]_MD!vars BY <1>1, <1>2, <1>3, MonitorInvariant, PTL DEF MD!Spec
<1> QED BY <1>4 DEF MD!Rerun

-----------------------------------------------------------------------------
(* The prototype in Prototypes *)

LEMMA OtherMachines ==
    /\ Init /\ machine = "monitor" => MD!Init
    /\ [Next]_vars => machine' = machine
    /\ [Next]_vars /\ machine = "monitor" => [MD!Next]_MD!vars
<1>1. Init /\ machine = "monitor" => MD!Init BY DEF Init
<1>2. [Next]_vars => machine' = machine BY DEF Next, Event, Monitor, ProActive, vars
<1>3. ASSUME UNCHANGED vars PROVE UNCHANGED MD!vars
  BY <1>3 DEF vars, daemonVars, eventVars, monitorVars, proActiveVars,
              MD!vars, MD!jobVars, MD!graph, MD!lists
<1>4. [Next]_vars /\ machine = "monitor" => [MD!Next]_MD!vars
  BY <1>3 DEF Next, Event, Monitor, ProActive
<1> QED BY <1>1, <1>2, <1>4

LEMMA OneMachine ==
    Spec => [](machine # "monitor") \/ ([](machine = "monitor") /\ MD!Spec)
<1>1. Init /\ machine = "monitor" => MD!Init BY OtherMachines
<1>2. machine # "monitor" /\ [Next]_vars => (machine # "monitor")' BY OtherMachines
<1>3. machine = "monitor" /\ [Next]_vars => (machine = "monitor")' BY OtherMachines
<1>4. machine = "monitor" /\ [Next]_vars => [MD!Next]_MD!vars BY OtherMachines
<1>5. machine = "monitor" \/ machine # "monitor" OBVIOUS
<1> QED BY <1>1, <1>2, <1>3, <1>4, <1>5, PTL DEF Spec, MD!Spec

\* A job is in the hands of one VP and once on its stack, for any number of VPs
\* and jobs, although a VP may be answered while it is not waiting any more and
\* may run a finished job again.
THEOREM JobsHaveOneExecutor == Spec => []OneExecutor
<1>1. MD!OneExecutor \/ machine # "monitor" => OneExecutor BY DEF OneExecutor
<1> QED BY <1>1, OneMachine, OneExecutorAlone, PTL

\* A VP that is answered runs a job that has not finished: only one that was woken
\* while it was still on the waiting list can run a job again.
THEOREM RerunsUnanswered == Spec => RerunOnlyUnanswered
<1>1. [Next]_vars /\ [MD!Rerun]_MD!vars => [machine = "monitor" => MD!Rerun]_vars
  <2>1. Monitor(MD!Next) /\ UNCHANGED MD!vars => UNCHANGED vars
    BY DEF Monitor, vars, daemonVars, eventVars, monitorVars, proActiveVars,
           MD!vars, MD!jobVars, MD!graph, MD!lists
  <2> QED BY <2>1 DEF Next, Event, ProActive
<1>2. [Next]_vars /\ machine # "monitor" => [machine = "monitor" => MD!Rerun]_vars OBVIOUS
<1> QED BY <1>1, <1>2, OneMachine, RerunsUnansweredAlone, PTL
       DEF Spec, RerunOnlyUnanswered
=============================================================================
