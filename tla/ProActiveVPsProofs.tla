-------------------------- MODULE ProActiveVPsProofs --------------------------
(***************************************************************************)
(* Proofs about ProActiveVPs, for every number of VPs, every set of jobs,  *)
(* every join counter and also where jobs are run in place.  PA is its     *)
(* instance in Prototypes: the invariants are of PA!Spec, and the theorems *)
(* are about the composition.                                              *)
(***************************************************************************)
EXTENDS Prototypes, FiniteSetTheorems, SequenceTheorems, TLAPS

-----------------------------------------------------------------------------
(* An instance has operators of its own for those of the library *)

LEMMA SameCardinality == \A S : PA!Cardinality(S) = Cardinality(S)
<1>1. \A S : PA!IsFiniteSet(S) <=> IsFiniteSet(S) BY DEF PA!IsFiniteSet, IsFiniteSet
<1> QED BY <1>1 DEF PA!Cardinality, Cardinality

-----------------------------------------------------------------------------
(* The invariant *)

\* Where a thread is: in a function, in run(), or looking for a job in either.
InFunction == {"user", "check", "load", "loadold", "loadnew", "swap", "last", "delete",
               "restore"}
NoFunction == {"start", "idle", "sub", "left", "done"}
Searching  == {"get", "steal"}

Fields == {"pc", "frames", "current_job", "context_stack", "it", "old", "new"}

PATypeOK ==
    /\ DOMAIN vp = PA!VPs
    /\ \A p \in PA!VPs : /\ DOMAIN vp[p] = Fields
                         /\ vp[p].pc \in InFunction \cup NoFunction \cup Searching
                         /\ vp[p].frames \in Seq(PA!Fns)
    /\ job_list \in [PA!VPs -> Seq(PA!Jobs)]
    /\ state \in [PA!Jobs -> {"new", "ready", "running", "finished"}]
    /\ num_joins \in [PA!Jobs -> Int] /\ deleted \subseteq PA!Jobs
    /\ handles \in [PA!Fns -> SUBSET PA!Jobs] /\ joining \in [PA!Fns -> PA!Fns]
    /\ executed \in [PA!Jobs -> {0, 1}]

\* The stack is empty in run() itself; the function on top is in a join unless
\* its own code runs.  A VP that goes idle or steals for run() has no job left.
ShapeAt(p) ==
    /\ vp[p].pc \in InFunction => vp[p].frames # <<>>
    /\ vp[p].pc \in NoFunction => vp[p].frames = <<>>
    /\ vp[p].frames # <<>> => (joining[PA!Fn(p)] = NULL <=> vp[p].pc = "user")
    /\ vp[p].pc = "steal" => vp[p].it \in PA!VPs
    /\ vp[p].frames = <<>> /\ vp[p].pc # "get" => job_list[p] = <<>>

Shapes == \A p \in PA!VPs : ShapeAt(p)

In(x, s) == \E k \in DOMAIN s : s[k] = x
NoDup(s) == \A k, m \in DOMAIN s : s[k] = s[m] => k = m

\* What run() has stolen and not called yet.
Hand(p) == IF vp[p].pc = "sub" THEN vp[p].current_job ELSE NULL

\* A job not started yet is in one list or one hand, and only there.
UnstartedAt(j) ==
    /\ \A p, q \in PA!VPs :
          /\ In(j, job_list[p]) /\ In(j, job_list[q]) => p = q
          /\ Hand(p) = j /\ Hand(q) = j => p = q
          /\ ~(Hand(p) = j /\ In(j, job_list[q]))
    /\ executed[j] = 0 /\ state[j] # "new"
          <=> \E p \in PA!VPs : In(j, job_list[p]) \/ Hand(p) = j

Unstarted ==
    /\ \A p \in PA!VPs : NoDup(job_list[p]) /\ Hand(p) \in PA!Fns
    /\ \A j \in PA!Jobs : UnstartedAt(j)

\* A function is on one stack, once, and a job that is on one has started.
StartedAt(f) ==
    /\ \A p, q \in PA!VPs : In(f, vp[p].frames) /\ In(f, vp[q].frames) => p = q
    /\ \A p \in PA!VPs : In(f, vp[p].frames) => IF f = NULL THEN p = 0 ELSE executed[f] = 1

Started ==
    /\ \A p \in PA!VPs : NoDup(vp[p].frames)
    /\ \A f \in PA!Fns : StartedAt(f)
    /\ \A j \in PA!Jobs : executed[j] = 1 => state[j] # "new"

\* Who may join what: nobody has a handle of a job that does not exist, and a
\* join uses up its handle.
Handles ==
    /\ \A j \in PA!Jobs : executed[j] = 0 => joining[j] = NULL
    /\ \A j \in PA!Jobs : state[j] = "new" => PA!Holders(j) = {} /\ num_joins[j] = Joins
    /\ \A f \in PA!Fns : joining[f] \notin handles[f]

\* The counter covers the joins to come, and so does what a thread has loaded
\* to store in it, except for its own join.
CoverAt(j) ==
    /\ num_joins[j] <= Joins
    /\ PA!Coming(j) # {} => Cardinality(PA!Coming(j)) <= num_joins[j]
    /\ \A p \in PA!VPs : PA!Decrementing(p, j, {"loadold", "swap"}) =>
          /\ vp[p].new \in Int /\ vp[p].new < Joins
          /\ Cardinality(PA!Coming(j)) <= vp[p].new + 1
          /\ num_joins[j] = Joins => vp[p].new = Joins - 1

\* A job whose decrements did not fail is deleted by one join, when the counter
\* has gone from 0 to -1.
DeletedAt(j) ==
    j \notin raced =>
        /\ \A p \in PA!VPs : PA!Decrementing(p, j, {"delete"}) =>
              /\ num_joins[j] = -1 /\ j \notin deleted
              /\ \A q \in PA!VPs : PA!Decrementing(q, j, {"delete"}) => p = q
        /\ j \in deleted => num_joins[j] = -1

Counters == \A j \in PA!Jobs : CoverAt(j) /\ DeletedAt(j)

\* terminate returns when all VPs have left run().
Ending == vp[0].pc = "done" => \A p \in PA!VPs : vp[p].pc \in {"left", "done"}

IInv ==
    /\ PATypeOK /\ Shapes /\ Unstarted /\ Started /\ Handles
    /\ Counters /\ Ending
-----------------------------------------------------------------------------
(* Sequences *)

\* What is in a stack without its top, or in a list without its newest job.
LEMMA PopFact ==
  ASSUME NEW S, NEW s \in Seq(S), s # <<>>
  PROVE  /\ PA!Pop(s) \in Seq(S) /\ PA!Top(s) \in S /\ In(PA!Top(s), s)
         /\ NoDup(s) => /\ NoDup(PA!Pop(s))
                        /\ \A x : In(x, PA!Pop(s)) <=> In(x, s) /\ x # PA!Top(s)
<1>1. Len(s) \in Nat /\ Len(s) > 0 /\ DOMAIN s = 1 .. Len(s)
  BY EmptySeq, LenProperties
<1>2. PA!Top(s) \in S /\ \A k \in 1 .. Len(s) - 1 : s[k] \in S
  BY <1>1, ElementOfSeq DEF PA!Top
<1>. DEFINE n == Len(s) - 1
            P == SubSeq(s, 1, n)
<1>3. n \in Nat /\ n - 1 + 1 = n /\ \A k \in 1 .. n : 1 + k - 1 = k
  BY <1>1
<1>. HIDE DEF n
<1>4. /\ P \in Seq(S)
      /\ Len(P) = IF 1 <= n THEN n - 1 + 1 ELSE 0
      /\ \A k \in 1 .. n - 1 + 1 : P[k] = s[1 + k - 1]
  BY <1>2, <1>3, SubSeqProperties DEF n
<1>5. P = PA!Pop(s)
  BY DEF PA!Pop, n
<1>. HIDE DEF P
<1>6. DOMAIN P = 1 .. n /\ \A k \in 1 .. n : P[k] = s[k]
  BY <1>3, <1>4, LenProperties
<1>7. Len(s) \in DOMAIN s /\ s[Len(s)] = PA!Top(s)
  BY <1>1 DEF PA!Top
<1>8. DOMAIN s = (DOMAIN P) \cup {Len(s)} /\ Len(s) \notin DOMAIN P
  BY <1>1, <1>6 DEF n
<1>9. ASSUME NoDup(s)
      PROVE  NoDup(P) /\ \A x : In(x, P) <=> In(x, s) /\ x # PA!Top(s)
  BY <1>6, <1>7, <1>8, <1>9 DEF NoDup, In
<1>. QED BY <1>2, <1>4, <1>5, <1>7, <1>9 DEF In

\* What is in a list without its oldest job.
LEMMA TailFact ==
  ASSUME NEW S, NEW s \in Seq(S), s # <<>>
  PROVE  /\ Tail(s) \in Seq(S) /\ Head(s) \in S /\ In(Head(s), s)
         /\ NoDup(s) => /\ NoDup(Tail(s))
                        /\ \A x : In(x, Tail(s)) <=> In(x, s) /\ x # Head(s)
<1>1. /\ Tail(s) \in Seq(S) /\ Len(Tail(s)) = Len(s) - 1 /\ Head(s) = s[1]
      /\ \A k \in 1 .. Len(Tail(s)) : Tail(s)[k] = s[k + 1]
  BY HeadTailProperties
<1>2. Len(s) \in Nat /\ Len(s) > 0 /\ DOMAIN s = 1 .. Len(s) /\ s[1] \in S
  BY EmptySeq, LenProperties, ElementOfSeq
<1>3. DOMAIN Tail(s) = 1 .. Len(s) - 1
  BY <1>1, LenProperties
<1>4. 1 \in DOMAIN s /\ \A k \in DOMAIN s : k # 1 => k - 1 \in DOMAIN Tail(s)
  BY <1>2, <1>3
<1>5. \A k \in DOMAIN Tail(s) : k + 1 \in DOMAIN s /\ k + 1 # 1 /\ Tail(s)[k] = s[k + 1]
  BY <1>1, <1>2, <1>3
<1>6. \A k \in DOMAIN s : k # 1 => Tail(s)[k - 1] = s[k]
  BY <1>1, <1>2, <1>3
<1>7. ASSUME NoDup(s)
      PROVE  NoDup(Tail(s)) /\ \A x : In(x, Tail(s)) <=> In(x, s) /\ x # Head(s)
  <2>1. ASSUME NEW k \in DOMAIN Tail(s), NEW m \in DOMAIN Tail(s), Tail(s)[k] = Tail(s)[m]
        PROVE  k = m
    <3>1. k + 1 = m + 1
      BY <1>5, <1>7, <2>1 DEF NoDup
    <3>. QED BY <1>2, <1>3, <3>1
  <2>2. ASSUME NEW x, In(x, Tail(s)) PROVE In(x, s) /\ x # Head(s)
    BY <1>1, <1>4, <1>5, <1>7, <2>2 DEF NoDup, In
  <2>3. ASSUME NEW x, In(x, s), x # Head(s) PROVE In(x, Tail(s))
    BY <1>1, <1>4, <1>6, <2>3 DEF In
  <2>. QED BY <2>1, <2>2, <2>3 DEF NoDup
<1>. QED BY <1>1, <1>2, <1>4, <1>7 DEF In

\* What is in a stack or list with one more.
LEMMA AppendFact ==
  ASSUME NEW S, NEW s \in Seq(S), NEW e \in S
  PROVE  /\ Append(s, e) \in Seq(S) /\ Append(s, e) # <<>> /\ PA!Top(Append(s, e)) = e
         /\ \A x : In(x, Append(s, e)) <=> In(x, s) \/ x = e
         /\ NoDup(s) /\ ~In(e, s) => NoDup(Append(s, e))
<1>. DEFINE a == Append(s, e)
<1>1. /\ a \in Seq(S) /\ a # <<>> /\ Len(a) = Len(s) + 1 /\ Len(s) \in Nat
      /\ \A k \in 1 .. Len(s) : a[k] = s[k]
      /\ a[Len(s) + 1] = e
  BY AppendProperties, LenProperties
<1>. HIDE DEF a
<1>2. DOMAIN s = 1 .. Len(s) /\ DOMAIN a = 1 .. Len(s) + 1
  BY <1>1, LenProperties
<1>3. /\ DOMAIN a = (DOMAIN s) \cup {Len(s) + 1} /\ Len(s) + 1 \notin DOMAIN s
      /\ \A k \in DOMAIN s : a[k] = s[k]
  BY <1>1, <1>2
<1>4. PA!Top(a) = e
  BY <1>1 DEF PA!Top
<1>5. \A x : In(x, a) <=> In(x, s) \/ x = e
  BY <1>1, <1>3 DEF In
<1>6. ASSUME NoDup(s), ~In(e, s) PROVE NoDup(a)
  BY <1>1, <1>3, <1>6 DEF NoDup, In
<1>. QED BY <1>1, <1>4, <1>5, <1>6 DEF a

LEMMA EmptyFact == NoDup(<<>>) /\ \A x : ~In(x, <<>>)
  BY EmptySeq DEF NoDup, In
-----------------------------------------------------------------------------
(* Joins *)

LEMMA ConstFact ==
  /\ 0 \in PA!VPs /\ PA!VPs \subseteq Nat /\ NULL \in PA!Fns /\ NULL \notin PA!Jobs
  /\ PA!Jobs \subseteq PA!Fns /\ IsFiniteSet(PA!Fns) /\ Joins \in Nat /\ Joins > 0
<1>1. IsFiniteSet(PA!Fns)
  BY ProActiveAssumption, FS_AddElement DEF PA!Fns, PA!Jobs
<1>. QED BY <1>1, ProActiveAssumption DEF PA!VPs, PA!Fns, PA!Jobs

LEMMA OneMore ==
  ASSUME NEW x
  PROVE  \A S : IsFiniteSet(S) => /\ IsFiniteSet(S \cup {x})
                                  /\ Cardinality(S \cup {x}) \in Nat
                                  /\ Cardinality(S \cup {x}) <= Cardinality(S) + 1
<1>. SUFFICES ASSUME NEW S, IsFiniteSet(S)
              PROVE  /\ IsFiniteSet(S \cup {x}) /\ Cardinality(S \cup {x}) \in Nat
                     /\ Cardinality(S \cup {x}) <= Cardinality(S) + 1
  OBVIOUS
<1>1. /\ IsFiniteSet(S \cup {x})
      /\ Cardinality(S \cup {x}) = IF x \in S THEN Cardinality(S) ELSE Cardinality(S) + 1
  BY FS_AddElement
<1>2. Cardinality(S) \in Nat /\ Cardinality(S \cup {x}) \in Nat
  BY <1>1, FS_CardinalityType
<1>. QED BY <1>1, <1>2

\* The function on top of a stack is on no other stack.
LEMMA FnFact ==
  ASSUME PATypeOK, Started, NEW p \in PA!VPs, vp[p].frames # <<>>
  PROVE  /\ PA!Fn(p) \in PA!Fns /\ In(PA!Fn(p), vp[p].frames)
         /\ \A q \in PA!VPs \ {p} : vp[q].frames # <<>> => PA!Fn(q) # PA!Fn(p)
<1>1. \A q \in PA!VPs : vp[q].frames # <<>> => PA!Fn(q) \in PA!Fns /\ In(PA!Fn(q), vp[q].frames)
  BY PopFact DEF PATypeOK, PA!Fn
<1>. QED BY <1>1 DEF Started, StartedAt

LEMMA ComingFact ==
  ASSUME PATypeOK, NEW j \in PA!Jobs
  PROVE  /\ PA!Coming(j) \subseteq PA!Holders(j) /\ PA!Holders(j) \subseteq PA!Fns
         /\ IsFiniteSet(PA!Holders(j)) /\ Cardinality(PA!Holders(j)) \in Nat
         /\ IsFiniteSet(PA!Coming(j)) /\ Cardinality(PA!Coming(j)) \in Nat
<1>1. PA!Coming(j) \subseteq PA!Holders(j) /\ PA!Holders(j) \subseteq PA!Fns
  BY DEF PA!Coming, PA!Holders
<1>. QED BY <1>1, ConstFact, FS_Subset, FS_CardinalityType

\* Before its first compare and swap a join is to come.
LEMMA InComing ==
  ASSUME PATypeOK, Shapes, Started, NEW j \in PA!Jobs, NEW p \in PA!VPs,
         PA!Decrementing(p, j, {"load", "loadold", "loadnew", "swap"})
  PROVE  PA!Fn(p) \in PA!Coming(j) /\ Cardinality(PA!Coming(j)) > 0
<1>1. vp[p].pc \in {"load", "loadold", "loadnew", "swap"} /\ joining[PA!Fn(p)] = j
  BY DEF PA!Decrementing, PA!Joined
<1>2. vp[p].frames # <<>>
  BY <1>1 DEF Shapes, ShapeAt, InFunction
<1>3. PA!Fn(p) \in PA!Holders(j)
  BY <1>1, <1>2, FnFact DEF PA!Holders
<1>4. ASSUME NEW q \in PA!VPs, PA!Decrementing(q, j, {"last", "delete"}) PROVE PA!Fn(q) # PA!Fn(p)
  <2>1. vp[q].pc \in {"last", "delete"}
    BY <1>4 DEF PA!Decrementing
  <2>2. vp[q].frames # <<>> /\ q # p
    BY <1>1, <2>1 DEF Shapes, ShapeAt, InFunction
  <2>. QED BY <1>2, <2>2, FnFact
<1>5. PA!Fn(p) \in PA!Coming(j)
  BY <1>3, <1>4 DEF PA!Coming, PA!DecrementingAt
<1>6. Cardinality(PA!Coming(j)) # 0
  BY <1>5, ComingFact, FS_EmptySet
<1>. QED BY <1>5, <1>6, ComingFact

LEMMA CoverKept ==
  ASSUME PATypeOK, NEW j \in PA!Jobs, CoverAt(j), num_joins'[j] = num_joins[j],
         PA!Coming(j)' \subseteq PA!Coming(j),
         \A q \in PA!VPs : PA!Decrementing(q, j, {"loadold", "swap"})' =>
             PA!Decrementing(q, j, {"loadold", "swap"}) /\ vp'[q].new = vp[q].new
  PROVE  CoverAt(j)'
<1>1. /\ IsFiniteSet(PA!Coming(j)) /\ Cardinality(PA!Coming(j)) \in Nat
      /\ num_joins[j] \in Int
  BY ComingFact DEF PATypeOK
<1>2. /\ Cardinality(PA!Coming(j)') \in Nat
      /\ Cardinality(PA!Coming(j)') <= Cardinality(PA!Coming(j))
  BY <1>1, FS_Subset, FS_CardinalityType
<1>. QED BY <1>1, <1>2 DEF CoverAt

LEMMA DeletedKept ==
  ASSUME NEW j \in PA!Jobs, DeletedAt(j), num_joins'[j] = num_joins[j],
         j \in raced => j \in raced', j \in deleted' <=> j \in deleted,
         \A q \in PA!VPs : PA!Decrementing(q, j, {"delete"})' => PA!Decrementing(q, j, {"delete"})
  PROVE  DeletedAt(j)'
  BY DEF DeletedAt

\* No join makes a step and no handle is passed on.
LEMMA JoinsStay ==
  ASSUME IInv, \A f \in PA!Fns : handles'[f] \subseteq handles[f], joining' = joining,
         UNCHANGED PA!attrVars,
         \A q \in PA!VPs : {vp[q].pc, vp'[q].pc} \cap {"loadold", "swap", "last", "delete"} # {}
                               => vp'[q] = vp[q],
         \A j \in PA!Jobs : /\ executed'[j] = 0 => executed[j] = 0
                            /\ state'[j] = "new" => state[j] = "new"
  PROVE  Handles' /\ Counters'
<1>1. \A j \in PA!Jobs : PA!Holders(j)' \subseteq PA!Holders(j)
  BY DEF PA!Holders
<1>2. ASSUME NEW q \in PA!VPs, NEW j \in PA!Jobs,
             NEW P \in SUBSET {"loadold", "swap", "last", "delete"}
      PROVE  PA!Decrementing(q, j, P)' <=> PA!Decrementing(q, j, P)
  BY <1>2 DEF PA!Decrementing, PA!Joined, PA!Fn
<1>3. ASSUME NEW j \in PA!Jobs PROVE CoverAt(j)' /\ DeletedAt(j)'
  <2>1. PA!DecrementingAt(j, {"last", "delete"}) \subseteq PA!DecrementingAt(j, {"last", "delete"})'
    <3>. SUFFICES ASSUME NEW q \in PA!VPs, PA!Decrementing(q, j, {"last", "delete"})
                  PROVE  PA!Fn(q) \in PA!DecrementingAt(j, {"last", "delete"})'
      BY DEF PA!DecrementingAt
    <3>1. PA!Decrementing(q, j, {"last", "delete"})'
      BY <1>2
    <3>2. PA!Fn(q)' = PA!Fn(q)
      BY DEF PA!Decrementing, PA!Fn
    <3>. QED BY <3>1, <3>2 DEF PA!DecrementingAt
  <2>2. PA!Coming(j)' \subseteq PA!Coming(j)
    BY <1>1, <2>1 DEF PA!Coming
  <2>3. \A q \in PA!VPs : PA!Decrementing(q, j, {"loadold", "swap"})' =>
             PA!Decrementing(q, j, {"loadold", "swap"}) /\ vp'[q].new = vp[q].new
    BY <1>2 DEF PA!Decrementing
  <2>4. \A q \in PA!VPs : PA!Decrementing(q, j, {"delete"})' => PA!Decrementing(q, j, {"delete"})
    BY <1>2
  <2>. QED BY <2>2, <2>3, <2>4, CoverKept, DeletedKept DEF IInv, Counters, PA!attrVars
<1>4. Handles'
  BY <1>1 DEF Handles, IInv, PA!attrVars
<1>. QED BY <1>3, <1>4 DEF Counters
-----------------------------------------------------------------------------
(* What a step of one thread leaves alone *)

Places == InFunction \cup NoFunction \cup Searching

ActsOnly(p) ==
    /\ DOMAIN vp' = PA!VPs /\ DOMAIN vp'[p] = Fields /\ vp'[p].pc \in Places
    /\ \A q \in PA!VPs \ {p} : vp'[q] = vp[q]

LEMMA EndingKept ==
  ASSUME IInv, NEW p \in PA!VPs, ActsOnly(p), vp[p].pc \notin {"left", "done"},
         vp'[p].pc # "done"
  PROVE  Ending'
<1>1. 0 \in PA!VPs
  BY ConstFact
<1>2. vp[0].pc # "done"
  BY DEF IInv, Ending
<1>3. vp'[0].pc # "done"
  BY <1>1, <1>2 DEF ActsOnly
<1>. QED BY <1>3 DEF Ending

LEMMA ShapeOther ==
  ASSUME IInv, NEW q \in PA!VPs, vp'[q] = vp[q],
         job_list[q] = <<>> => job_list'[q] = <<>>,
         vp[q].frames # <<>> => joining'[PA!Fn(q)] = joining[PA!Fn(q)]
  PROVE  ShapeAt(q)'
<1>1. ShapeAt(q)
  BY DEF IInv, Shapes
<1>2. PA!Fn(q)' = PA!Fn(q)
  BY DEF PA!Fn
<1>. QED BY <1>1, <1>2 DEF ShapeAt

\* Only j changes its place.
LEMMA UnstartedMoves ==
  ASSUME Unstarted, NEW j,
         \A q \in PA!VPs : NoDup(job_list'[q]) /\ Hand(q)' \in PA!Fns,
         \A k \in PA!Jobs \ {j}, q \in PA!VPs :
            (In(k, job_list'[q]) <=> In(k, job_list[q])) /\ (Hand(q)' = k <=> Hand(q) = k),
         \A k \in PA!Jobs \ {j} : /\ executed'[k] = executed[k]
                                  /\ state'[k] = "new" <=> state[k] = "new",
         j \in PA!Jobs => UnstartedAt(j)'
  PROVE  Unstarted'
<1>1. ASSUME NEW k \in PA!Jobs, k # j PROVE UnstartedAt(k)'
  <2>1. UnstartedAt(k)
    BY DEF Unstarted
  <2>2. \A q \in PA!VPs :
            (In(k, job_list'[q]) <=> In(k, job_list[q])) /\ (Hand(q)' = k <=> Hand(q) = k)
    BY <1>1
  <2>3. executed'[k] = executed[k] /\ (state'[k] = "new" <=> state[k] = "new")
    BY <1>1
  <2>. QED BY <2>1, <2>2, <2>3 DEF UnstartedAt, In
<1>2. \A k \in PA!Jobs : UnstartedAt(k)'
  BY <1>1
<1>. QED BY <1>2 DEF Unstarted, NoDup

\* Only f may come to be on a stack.
LEMMA StartedMoves ==
  ASSUME Started, NEW f,
         \A q \in PA!VPs : NoDup(vp'[q].frames),
         \A g \in PA!Fns \ {f}, q \in PA!VPs : In(g, vp'[q].frames) => In(g, vp[q].frames),
         \A k \in PA!Jobs : /\ executed[k] = 1 => executed'[k] = 1
                            /\ executed'[k] = 1 => state'[k] # "new",
         f \in PA!Fns => StartedAt(f)'
  PROVE  Started'
<1>1. ASSUME NEW g \in PA!Fns, g # f PROVE StartedAt(g)'
  <2>1. StartedAt(g)
    BY DEF Started
  <2>2. \A q \in PA!VPs : In(g, vp'[q].frames) => In(g, vp[q].frames)
    BY <1>1
  <2>3. (g # NULL /\ executed[g] = 1) => executed'[g] = 1
    BY DEF PA!Fns
  <2>. QED BY <2>1, <2>2, <2>3 DEF StartedAt, In
<1>2. \A g \in PA!Fns : StartedAt(g)'
  BY <1>1
<1>. QED BY <1>2 DEF Started, NoDup

\* No job changes its place.
LEMMA QuietMove ==
  ASSUME IInv, NEW p \in PA!VPs, ActsOnly(p), vp'[p].frames = vp[p].frames,
         Hand(p)' = Hand(p), UNCHANGED <<job_list, PA!jobVars>>,
         num_joins' \in [PA!Jobs -> Int], deleted' \subseteq PA!Jobs,
         handles' \in [PA!Fns -> SUBSET PA!Jobs], joining' \in [PA!Fns -> PA!Fns],
         \A q \in PA!VPs \ {p} : vp[q].frames # <<>> => joining'[PA!Fn(q)] = joining[PA!Fn(q)],
         ShapeAt(p)'
  PROVE  PATypeOK' /\ Shapes' /\ Unstarted' /\ Started'
<1>. USE DEF IInv
<1>1. job_list' = job_list /\ state' = state /\ executed' = executed
  BY DEF PA!jobVars
<1>2. \A q \in PA!VPs : vp'[q].frames = vp[q].frames /\ Hand(q)' = Hand(q)
  BY DEF ActsOnly, Hand
<1>3. PATypeOK'
  <2>1. \A q \in PA!VPs : DOMAIN vp'[q] = Fields /\ vp'[q].pc \in Places
                          /\ vp'[q].frames \in Seq(PA!Fns)
    BY DEF PATypeOK, ActsOnly, Places
  <2>. QED BY <1>1, <2>1 DEF PATypeOK, ActsOnly, Places
<1>4. Shapes'
  BY <1>1, ShapeOther DEF Shapes, ActsOnly
<1>5. Unstarted'
  BY <1>1, <1>2, ConstFact, UnstartedMoves DEF Unstarted
<1>6. Started'
  BY <1>1, <1>2 DEF Started, StartedAt
<1>. QED BY <1>3, <1>4, <1>5, <1>6

\* A thread moves on in run(), and no join makes a step.
LEMMA QuietInv ==
  ASSUME IInv, NEW p \in PA!VPs, ActsOnly(p), vp'[p].frames = vp[p].frames,
         Hand(p)' = Hand(p), UNCHANGED <<job_list, PA!jobVars, PA!attrVars, PA!userVars>>,
         {vp[p].pc, vp'[p].pc} \cap {"loadold", "swap", "last", "delete"} = {},
         ShapeAt(p)', Ending'
  PROVE  IInv'
<1>1. PATypeOK' /\ Shapes' /\ Unstarted' /\ Started'
  BY QuietMove DEF IInv, PATypeOK, PA!attrVars, PA!userVars
<1>2. Handles' /\ Counters'
  BY JoinsStay DEF ActsOnly, PA!attrVars, PA!userVars, PA!jobVars
<1>. QED BY <1>1, <1>2 DEF IInv

-----------------------------------------------------------------------------
(* Looking for a job *)

LEMMA ScanFact ==
  ASSUME IInv, NEW p \in PA!VPs, NEW k \in Nat, PA!ScanFrom(p, k),
         vp[p].pc \in {"get", "idle", "steal"}
  PROVE  /\ ActsOnly(p) /\ vp'[p].frames = vp[p].frames /\ Hand(p)' = NULL /\ Hand(p) = NULL
         /\ \/ vp'[p].pc = "steal" /\ vp'[p].it \in PA!VPs
            \/ vp'[p].pc = "sub" /\ vp[p].frames = <<>>
            \/ vp'[p].pc = "restore" /\ vp[p].frames # <<>>
         /\ Ending'
<1>. DEFINE i == IF k = p THEN k + 1 ELSE k
            where == IF i < N THEN "steal" ELSE IF PA!InRunLoop(p) THEN "sub" ELSE "restore"
<1>1. i \in Nat /\ DOMAIN vp = PA!VPs /\ DOMAIN vp[p] = Fields
  BY ConstFact DEF IInv, PATypeOK
<1>2. vp' = [vp EXCEPT ![p].it = IF i < N THEN i ELSE 0, ![p].current_job = NULL,
                       ![p].pc = where]
  BY DEF PA!ScanFrom
<1>3. /\ DOMAIN vp' = PA!VPs /\ DOMAIN vp'[p] = Fields
      /\ \A q \in PA!VPs \ {p} : vp'[q] = vp[q]
      /\ vp'[p].frames = vp[p].frames /\ vp'[p].pc = where
      /\ vp'[p].current_job = NULL /\ vp'[p].it = IF i < N THEN i ELSE 0
  BY <1>1, <1>2 DEF Fields
<1>4. where \in {"steal", "sub", "restore"}
  OBVIOUS
<1>5. ActsOnly(p)
  BY <1>3, <1>4 DEF ActsOnly, Places, InFunction, NoFunction, Searching
<1>6. Hand(p)' = NULL /\ Hand(p) = NULL
  BY <1>3 DEF Hand
<1>7. i < N => i \in PA!VPs
  BY <1>1, ProActiveAssumption DEF PA!VPs
<1>8. Ending'
  BY <1>3, <1>4, <1>5, EndingKept
<1>. QED BY <1>3, <1>5, <1>6, <1>7, <1>8 DEF PA!InRunLoop

\* Nothing was found at the place where the thread looked.
LEMMA ScanInv ==
  ASSUME IInv, NEW p \in PA!VPs, NEW k \in Nat, PA!ScanFrom(p, k),
         vp[p].pc \in {"get", "idle", "steal"}, vp[p].frames = <<>> => job_list[p] = <<>>,
         UNCHANGED <<job_list, PA!jobVars, PA!attrVars, PA!userVars>>
  PROVE  IInv'
<1>1. /\ ActsOnly(p) /\ vp'[p].frames = vp[p].frames /\ Hand(p)' = NULL /\ Hand(p) = NULL
      /\ \/ vp'[p].pc = "steal" /\ vp'[p].it \in PA!VPs
         \/ vp'[p].pc = "sub" /\ vp[p].frames = <<>>
         \/ vp'[p].pc = "restore" /\ vp[p].frames # <<>>
      /\ Ending'
  BY ScanFact
<1>2. ShapeAt(p) /\ job_list' = job_list /\ joining' = joining
  BY DEF IInv, Shapes, PA!userVars
<1>3. ShapeAt(p)'
  BY <1>1, <1>2 DEF ShapeAt, PA!Fn, InFunction, NoFunction
<1>4. {vp[p].pc, vp'[p].pc} \cap {"loadold", "swap", "last", "delete"} = {}
  BY <1>1
<1>. QED BY <1>1, <1>3, <1>4, QuietInv

LEMMA BeginInv ==
  ASSUME IInv, NEW p \in PA!VPs, PA!Begin(p)
  PROVE  IInv'
<1>1. /\ vp[p].pc = "start" /\ vp' = [vp EXCEPT ![p].pc = "get"]
      /\ DOMAIN vp = PA!VPs /\ DOMAIN vp[p] = Fields
  BY DEF PA!Begin, PA!At, PA!Goto, IInv, PATypeOK
<1>2. /\ ActsOnly(p) /\ vp'[p].frames = vp[p].frames /\ vp'[p].pc = "get"
  BY <1>1 DEF ActsOnly, Places, Searching, Fields
<1>3. Hand(p)' = Hand(p) /\ UNCHANGED <<job_list, PA!jobVars, PA!attrVars, PA!userVars>>
  BY <1>1, <1>2 DEF Hand, PA!Begin
<1>4. vp[p].frames = <<>>
  BY <1>1 DEF IInv, Shapes, ShapeAt, NoFunction
<1>5. ShapeAt(p)'
  BY <1>2, <1>4 DEF ShapeAt, InFunction, NoFunction
<1>. QED BY <1>1, <1>2, <1>3, <1>5, EndingKept, QuietInv

\* The VP's own list is empty.
LEMMA GetNothingInv ==
  ASSUME IInv, NEW p \in PA!VPs, PA!GetJob(p), job_list[p] = <<>>
  PROVE  IInv'
<1>1. vp[p].pc = "get" /\ UNCHANGED <<job_list, PA!jobVars, PA!attrVars, PA!userVars>>
  BY DEF PA!GetJob, PA!At
<1>2. CASE vp[p].frames = <<>>
  <2>1. /\ vp' = [vp EXCEPT ![p].pc = "idle"]
        /\ DOMAIN vp = PA!VPs /\ DOMAIN vp[p] = Fields
    BY <1>2 DEF PA!GetJob, PA!Goto, PA!InRunLoop, IInv, PATypeOK
  <2>2. /\ ActsOnly(p) /\ vp'[p].frames = vp[p].frames /\ vp'[p].pc = "idle"
    BY <2>1 DEF ActsOnly, Places, NoFunction, Fields
  <2>3. Hand(p)' = Hand(p)
    BY <1>1, <2>2 DEF Hand
  <2>4. ShapeAt(p)'
    BY <1>1, <1>2, <2>2 DEF ShapeAt, InFunction, NoFunction
  <2>. QED BY <1>1, <2>2, <2>3, <2>4, EndingKept, QuietInv
<1>3. CASE vp[p].frames # <<>>
  BY <1>1, <1>3, ScanInv DEF PA!GetJob, PA!InRunLoop
<1>. QED BY <1>2, <1>3

LEMMA IdleAddInv ==
  ASSUME IInv, NEW p \in PA!VPs, PA!IdleAdd(p)
  PROVE  IInv'
<1>1. vp[p].pc = "idle" /\ UNCHANGED <<job_list, PA!jobVars, PA!attrVars, PA!userVars>>
  BY DEF PA!IdleAdd, PA!At
<1>2. vp[p].frames = <<>> /\ job_list[p] = <<>>
  BY <1>1 DEF IInv, Shapes, ShapeAt, NoFunction
<1>3. CASE PA!Goto(p, "left")
  <2>1. /\ vp' = [vp EXCEPT ![p].pc = "left"]
        /\ DOMAIN vp = PA!VPs /\ DOMAIN vp[p] = Fields
    BY <1>3 DEF PA!Goto, IInv, PATypeOK
  <2>2. /\ ActsOnly(p) /\ vp'[p].frames = vp[p].frames /\ vp'[p].pc = "left"
    BY <2>1 DEF ActsOnly, Places, NoFunction, Fields
  <2>3. Hand(p)' = Hand(p)
    BY <1>1, <2>2 DEF Hand
  <2>4. ShapeAt(p)'
    BY <1>1, <1>2, <2>2 DEF ShapeAt, InFunction, NoFunction
  <2>. QED BY <1>1, <2>2, <2>3, <2>4, EndingKept, QuietInv
<1>4. CASE PA!ScanFrom(p, 0)
  BY <1>1, <1>2, <1>4, ScanInv
<1>. QED BY <1>3, <1>4 DEF PA!IdleAdd

LEMMA StealNothingInv ==
  ASSUME IInv, NEW p \in PA!VPs, PA!StealJob(p), job_list[vp[p].it] = <<>>
  PROVE  IInv'
<1>1. /\ vp[p].pc = "steal" /\ UNCHANGED <<job_list, PA!jobVars, PA!attrVars, PA!userVars>>
      /\ PA!ScanFrom(p, vp[p].it + 1)
  BY DEF PA!StealJob, PA!At
<1>2. vp[p].it \in PA!VPs /\ (vp[p].frames = <<>> => job_list[p] = <<>>)
  BY <1>1 DEF IInv, Shapes, ShapeAt
<1>3. \A n \in PA!VPs : n + 1 \in Nat
  BY DEF PA!VPs
<1>. QED BY <1>1, <1>2, <1>3, ScanInv

\* Nothing was stolen: the loop of run() starts over.
LEMMA IdleSubNothingInv ==
  ASSUME IInv, NEW p \in PA!VPs, PA!IdleSub(p), vp[p].current_job = NULL
  PROVE  IInv'
<1>1. /\ vp[p].pc = "sub" /\ vp' = [vp EXCEPT ![p].pc = "get"]
      /\ DOMAIN vp = PA!VPs /\ DOMAIN vp[p] = Fields
      /\ UNCHANGED <<job_list, PA!jobVars, PA!attrVars, PA!userVars>>
  BY DEF PA!IdleSub, PA!AfterIdle, PA!At, PA!Goto, IInv, PATypeOK, PA!jobVars
<1>2. /\ ActsOnly(p) /\ vp'[p].frames = vp[p].frames /\ vp'[p].pc = "get"
  BY <1>1 DEF ActsOnly, Places, Searching, Fields
<1>3. Hand(p)' = Hand(p)
  BY <1>1, <1>2 DEF Hand
<1>4. vp[p].frames = <<>>
  BY <1>1 DEF IInv, Shapes, ShapeAt, NoFunction
<1>5. ShapeAt(p)'
  BY <1>2, <1>4 DEF ShapeAt, InFunction, NoFunction
<1>. QED BY <1>1, <1>2, <1>3, <1>5, EndingKept, QuietInv

\* The suspended join looks again.
LEMMA RestoreInv ==
  ASSUME IInv, NEW p \in PA!VPs, PA!Restore(p)
  PROVE  IInv'
<1>1. /\ vp[p].pc = "restore" /\ DOMAIN vp = PA!VPs /\ DOMAIN vp[p] = Fields
      /\ vp' = [vp EXCEPT ![p].pc = "check", ![p].it = 0,
                          ![p].current_job = PA!Top(vp[p].context_stack),
                          ![p].context_stack = PA!Pop(@)]
      /\ UNCHANGED <<job_list, PA!jobVars, PA!attrVars, PA!userVars>>
  BY DEF PA!Restore, PA!At, IInv, PATypeOK
<1>2. /\ ActsOnly(p) /\ vp'[p].frames = vp[p].frames /\ vp'[p].pc = "check"
  BY <1>1 DEF ActsOnly, Places, InFunction, Fields
<1>3. Hand(p)' = Hand(p)
  BY <1>1, <1>2 DEF Hand
<1>4. ShapeAt(p) /\ joining' = joining
  BY <1>1 DEF IInv, Shapes, PA!userVars
<1>5. ShapeAt(p)'
  BY <1>1, <1>2, <1>4 DEF ShapeAt, InFunction, NoFunction, PA!Fn
<1>. QED BY <1>1, <1>2, <1>3, <1>5, EndingKept, QuietInv

\* A join finds its job finished, or suspends its function.
LEMMA CheckInv ==
  ASSUME IInv, NEW p \in PA!VPs, PA!Check(p)
  PROVE  IInv'
<1>1. /\ vp[p].pc = "check" /\ DOMAIN vp = PA!VPs /\ DOMAIN vp[p] = Fields
      /\ \/ vp' = [vp EXCEPT ![p].pc = "load"]
         \/ vp' = [vp EXCEPT ![p].pc = "get",
                             ![p].context_stack = Append(@, vp[p].current_job)]
      /\ UNCHANGED <<job_list, PA!jobVars, PA!attrVars, PA!userVars>>
  BY DEF PA!Check, PA!At, IInv, PATypeOK
<1>2. /\ ActsOnly(p) /\ vp'[p].frames = vp[p].frames /\ vp'[p].pc \in {"load", "get"}
  BY <1>1 DEF ActsOnly, Places, InFunction, Searching, Fields
<1>3. Hand(p)' = Hand(p)
  BY <1>1, <1>2 DEF Hand
<1>4. ShapeAt(p) /\ joining' = joining
  BY <1>1 DEF IInv, Shapes, PA!userVars
<1>5. ShapeAt(p)'
  BY <1>1, <1>2, <1>4 DEF ShapeAt, InFunction, NoFunction, PA!Fn
<1>. QED BY <1>1, <1>2, <1>3, <1>5, EndingKept, QuietInv

\* main() is done with its joins of the threads.
LEMMA JoinThreadsInv ==
  ASSUME IInv, PA!JoinThreads
  PROVE  IInv'
<1>1. /\ \A q \in PA!VPs : vp[q].pc = "left"
      /\ vp' = [vp EXCEPT ![0].pc = "done"] /\ 0 \in PA!VPs
      /\ DOMAIN vp = PA!VPs /\ DOMAIN vp[0] = Fields
      /\ UNCHANGED <<job_list, PA!jobVars, PA!attrVars, PA!userVars>>
  BY ConstFact DEF PA!JoinThreads, PA!Goto, PA!At, IInv, PATypeOK
<1>2. /\ ActsOnly(0) /\ vp'[0].frames = vp[0].frames /\ vp'[0].pc = "done"
  BY <1>1 DEF ActsOnly, Places, NoFunction, Fields
<1>3. Hand(0)' = Hand(0)
  BY <1>1, <1>2 DEF Hand
<1>4. ShapeAt(0)
  BY <1>1 DEF IInv, Shapes
<1>5. ShapeAt(0)'
  BY <1>1, <1>2, <1>4 DEF ShapeAt, InFunction, NoFunction, PA!Fn
<1>6. Ending'
  BY <1>1, <1>2 DEF Ending, ActsOnly
<1>. QED BY <1>1, <1>2, <1>3, <1>5, <1>6, QuietInv
-----------------------------------------------------------------------------
(* Taking a job and calling it *)

LEMMA CallFact ==
  ASSUME IInv, NEW p \in PA!VPs, NEW j \in PA!Jobs, PA!Call(p, j)
  PROVE  /\ ActsOnly(p) /\ vp'[p].pc = "user" /\ vp'[p].frames = Append(vp[p].frames, j)
         /\ Hand(p)' = NULL
         /\ DOMAIN executed' = PA!Jobs /\ executed'[j] = executed[j] + 1
         /\ \A k \in PA!Jobs \ {j} : executed'[k] = executed[k]
<1>1. /\ vp' = [vp EXCEPT ![p].pc = "user", ![p].current_job = j,
                          ![p].frames = Append(@, j)]
      /\ DOMAIN vp = PA!VPs /\ DOMAIN vp[p] = Fields
      /\ executed \in [PA!Jobs -> {0, 1}] /\ executed' = [executed EXCEPT ![j] = @ + 1]
  BY DEF PA!Call, IInv, PATypeOK
<1>2. /\ ActsOnly(p) /\ vp'[p].frames = Append(vp[p].frames, j) /\ vp'[p].pc = "user"
  BY <1>1 DEF ActsOnly, Places, InFunction, Fields
<1>3. Hand(p)' = NULL
  BY <1>2 DEF Hand
<1>. QED BY <1>1, <1>2, <1>3

\* A job that has not started, out of its list and hand, is called.
LEMMA CallInv ==
  ASSUME IInv, NEW p \in PA!VPs, NEW j \in PA!Jobs, PA!Call(p, j),
         vp[p].pc \in {"get", "steal", "sub"},
         executed[j] = 0, state[j] # "new",
         job_list' \in [PA!VPs -> Seq(PA!Jobs)],
         \A q \in PA!VPs : /\ NoDup(job_list'[q]) /\ ~In(j, job_list'[q])
                           /\ job_list[q] = <<>> => job_list'[q] = <<>>
                           /\ q # p => Hand(q) # j,
         Hand(p) \in {NULL, j},
         \A k \in PA!Jobs \ {j}, q \in PA!VPs : In(k, job_list'[q]) <=> In(k, job_list[q]),
         state' = state \/ PA!MarkRunning(j),
         UNCHANGED <<PA!attrVars, PA!userVars>>
  PROVE  IInv'
<1>1. /\ ActsOnly(p) /\ vp'[p].pc = "user" /\ vp'[p].frames = Append(vp[p].frames, j)
      /\ Hand(p)' = NULL
      /\ DOMAIN executed' = PA!Jobs /\ executed'[j] = executed[j] + 1
      /\ \A k \in PA!Jobs \ {j} : executed'[k] = executed[k]
  BY CallFact
<1>2. executed' \in [PA!Jobs -> {0, 1}] /\ executed'[j] = 1
  <2>1. executed \in [PA!Jobs -> {0, 1}] /\ executed' = [executed EXCEPT ![j] = @ + 1]
    BY DEF PA!Call, IInv, PATypeOK
  <2>2. executed' = [executed EXCEPT ![j] = 1]
    BY <2>1
  <2>. QED BY <2>1, <2>2
<1>3. /\ state' \in [PA!Jobs -> {"new", "ready", "running", "finished"}]
      /\ \A k \in PA!Jobs : state'[k] = "new" <=> state[k] = "new"
  BY DEF PA!MarkRunning, IInv, PATypeOK
<1>4. /\ vp[p].frames \in Seq(PA!Fns) /\ j \in PA!Fns /\ j # NULL /\ NoDup(vp[p].frames)
      /\ \A q \in PA!VPs : ~In(j, vp[q].frames)
  BY ConstFact DEF IInv, PATypeOK, Started, StartedAt
<1>5. /\ vp'[p].frames \in Seq(PA!Fns) /\ vp'[p].frames # <<>> /\ PA!Fn(p)' = j
      /\ \A x : In(x, vp'[p].frames) <=> In(x, vp[p].frames) \/ x = j
      /\ NoDup(vp'[p].frames)
  BY SMTT(30), <1>1, <1>4, AppendFact DEF PA!Fn
<1>6. PATypeOK'
  <2>1. \A q \in PA!VPs : DOMAIN vp'[q] = Fields /\ vp'[q].pc \in Places
                          /\ vp'[q].frames \in Seq(PA!Fns)
    BY <1>1, <1>5 DEF IInv, PATypeOK, ActsOnly, Places
  <2>. QED BY <1>1, <1>2, <1>3, <2>1 DEF IInv, PATypeOK, ActsOnly, Places, PA!attrVars, PA!userVars
<1>7. Shapes'
  <2>1. joining'[j] = NULL
    BY DEF IInv, Handles, PA!userVars
  <2>2. ShapeAt(p)'
    BY <1>1, <1>5, <2>1 DEF ShapeAt, InFunction, NoFunction
  <2>3. \A q \in PA!VPs \ {p} : ShapeAt(q)'
    BY <1>1, ShapeOther DEF ActsOnly, PA!userVars
  <2>. QED BY <2>2, <2>3 DEF Shapes
<1>8. Unstarted'
  <2>1. \A q \in PA!VPs : Hand(q)' # j /\ Hand(q)' \in PA!Fns
    BY <1>1, ConstFact DEF ActsOnly, Hand, IInv, Unstarted
  <2>2. \A k \in PA!Jobs \ {j}, q \in PA!VPs : Hand(q)' = k <=> Hand(q) = k
    <3>1. \A q \in PA!VPs \ {p} : Hand(q)' = Hand(q)
      BY <1>1 DEF ActsOnly, Hand
    <3>2. NULL \notin PA!Jobs
      BY ConstFact
    <3>. QED BY <1>1, <3>1, <3>2
  <2>3. UnstartedAt(j)'
    BY <1>2, <2>1 DEF UnstartedAt, In
  <2>. QED BY <1>1, <1>3, <2>1, <2>2, <2>3, UnstartedMoves DEF IInv
<1>9. Started'
  <2>1. \A q \in PA!VPs : NoDup(vp'[q].frames)
    BY <1>1, <1>5 DEF ActsOnly, IInv, Started
  <2>2. \A g \in PA!Fns \ {j}, q \in PA!VPs : In(g, vp'[q].frames) => In(g, vp[q].frames)
    BY <1>1, <1>5 DEF ActsOnly
  <2>3. \A q \in PA!VPs : In(j, vp'[q].frames) => q = p
    BY <1>1, <1>4 DEF ActsOnly
  <2>4. StartedAt(j)'
    BY ZenonT(40), <1>2, <1>4, <2>3 DEF StartedAt, In
  <2>5. \A k \in PA!Jobs : /\ executed[k] = 1 => executed'[k] = 1
                           /\ executed'[k] = 1 => state'[k] # "new"
    BY <1>1, <1>2, <1>3 DEF IInv, Started
  <2>. QED BY <2>1, <2>2, <2>4, <2>5, StartedMoves DEF IInv
<1>10. Handles' /\ Counters'
  BY <1>1, <1>2, <1>3, JoinsStay DEF ActsOnly, PA!attrVars, PA!userVars
<1>11. Ending'
  BY <1>1, EndingKept
<1>. QED BY <1>6, <1>7, <1>8, <1>9, <1>10, <1>11 DEF IInv

\* A job taken out of a list was in no other place.
LEMMA TakeFact ==
  ASSUME IInv, NEW q \in PA!VPs, NEW j \in PA!Jobs, In(j, job_list[q]),
         NEW s \in Seq(PA!Jobs), NoDup(s), \A x : In(x, s) <=> In(x, job_list[q]) /\ x # j,
         job_list' = [job_list EXCEPT ![q] = s]
  PROVE  /\ executed[j] = 0 /\ state[j] # "new"
         /\ job_list' \in [PA!VPs -> Seq(PA!Jobs)]
         /\ \A r \in PA!VPs : /\ NoDup(job_list'[r]) /\ ~In(j, job_list'[r])
                              /\ job_list[r] = <<>> => job_list'[r] = <<>>
                              /\ Hand(r) # j
         /\ \A k \in PA!Jobs \ {j}, r \in PA!VPs : In(k, job_list'[r]) <=> In(k, job_list[r])
<1>1. job_list \in [PA!VPs -> Seq(PA!Jobs)] /\ UnstartedAt(j) /\ \A r \in PA!VPs : NoDup(job_list[r])
  BY DEF IInv, PATypeOK, Unstarted
<1>2. job_list' \in [PA!VPs -> Seq(PA!Jobs)] /\ job_list'[q] = s
      /\ \A r \in PA!VPs \ {q} : job_list'[r] = job_list[r]
  BY <1>1
<1>3. job_list[q] # <<>>
  BY EmptyFact
<1>4. \A r \in PA!VPs : ~In(j, job_list'[r])
  BY <1>1, <1>2 DEF UnstartedAt
<1>. QED BY <1>1, <1>2, <1>3, <1>4 DEF UnstartedAt

LEMMA GetSomethingInv ==
  ASSUME IInv, NEW p \in PA!VPs, PA!GetJob(p), job_list[p] # <<>>
  PROVE  IInv'
<1>. DEFINE j == PA!Top(job_list[p])
            s == PA!Pop(job_list[p])
<1>1. /\ vp[p].pc = "get" /\ job_list' = [job_list EXCEPT ![p] = s]
      /\ PA!MarkRunning(j) /\ PA!Call(p, j) /\ UNCHANGED <<PA!attrVars, PA!userVars>>
  BY DEF PA!GetJob, PA!At
<1>2. job_list[p] \in Seq(PA!Jobs) /\ NoDup(job_list[p])
  BY DEF IInv, PATypeOK, Unstarted
<1>3. /\ s \in Seq(PA!Jobs) /\ j \in PA!Jobs /\ In(j, job_list[p])
      /\ NoDup(s) /\ \A x : In(x, s) <=> In(x, job_list[p]) /\ x # j
  BY <1>2, PopFact
<1>. HIDE DEF j, s
<1>4. Hand(p) = NULL
  BY <1>1 DEF Hand
<1>5. /\ executed[j] = 0 /\ state[j] # "new"
      /\ job_list' \in [PA!VPs -> Seq(PA!Jobs)]
      /\ \A r \in PA!VPs : /\ NoDup(job_list'[r]) /\ ~In(j, job_list'[r])
                           /\ job_list[r] = <<>> => job_list'[r] = <<>>
                           /\ Hand(r) # j
      /\ \A k \in PA!Jobs \ {j}, r \in PA!VPs : In(k, job_list'[r]) <=> In(k, job_list[r])
  BY <1>1, <1>3, TakeFact
<1>. QED BY <1>1, <1>3, <1>4, <1>5, CallInv

\* A suspended join runs at once what it stole.
LEMMA StealAndCallInv ==
  ASSUME IInv, NEW p \in PA!VPs, PA!StealJob(p), job_list[vp[p].it] # <<>>, vp[p].frames # <<>>
  PROVE  IInv'
<1>. DEFINE q == vp[p].it
            j == Head(job_list[q])
            s == Tail(job_list[q])
<1>1. /\ vp[p].pc = "steal" /\ job_list' = [job_list EXCEPT ![q] = s]
      /\ PA!MarkRunning(j) /\ PA!Call(p, j) /\ UNCHANGED <<PA!attrVars, PA!userVars>>
  BY DEF PA!StealJob, PA!At, PA!InRunLoop
<1>2. q \in PA!VPs
  BY <1>1 DEF IInv, Shapes, ShapeAt
<1>3. job_list[q] \in Seq(PA!Jobs) /\ NoDup(job_list[q])
  BY <1>2 DEF IInv, PATypeOK, Unstarted
<1>4. /\ s \in Seq(PA!Jobs) /\ j \in PA!Jobs /\ In(j, job_list[q])
      /\ NoDup(s) /\ \A x : In(x, s) <=> In(x, job_list[q]) /\ x # j
  BY <1>3, TailFact
<1>. HIDE DEF j, s, q
<1>5. Hand(p) = NULL
  BY <1>1 DEF Hand
<1>6. /\ executed[j] = 0 /\ state[j] # "new"
      /\ job_list' \in [PA!VPs -> Seq(PA!Jobs)]
      /\ \A r \in PA!VPs : /\ NoDup(job_list'[r]) /\ ~In(j, job_list'[r])
                           /\ job_list[r] = <<>> => job_list'[r] = <<>>
                           /\ Hand(r) # j
      /\ \A k \in PA!Jobs \ {j}, r \in PA!VPs : In(k, job_list'[r]) <=> In(k, job_list[r])
  BY <1>1, <1>2, <1>4, TakeFact
<1>. QED BY <1>1, <1>4, <1>5, <1>6, CallInv

\* run() calls what it stole.
LEMMA IdleSubCallInv ==
  ASSUME IInv, NEW p \in PA!VPs, PA!IdleSub(p), vp[p].current_job # NULL
  PROVE  IInv'
<1>. DEFINE j == vp[p].current_job
<1>1. /\ vp[p].pc = "sub" /\ PA!Call(p, j) /\ UNCHANGED <<job_list, state, PA!attrVars, PA!userVars>>
  BY DEF PA!IdleSub, PA!AfterIdle, PA!At
<1>2. Hand(p) = j /\ j \in PA!Jobs
  <2>1. Hand(p) = j /\ Hand(p) \in PA!Fns
    BY <1>1 DEF Hand, IInv, Unstarted
  <2>. QED BY <2>1 DEF PA!Fns
<1>. HIDE DEF j
<1>3. UnstartedAt(j) /\ \A q \in PA!VPs : NoDup(job_list[q])
  BY <1>2 DEF IInv, Unstarted
<1>4. /\ executed[j] = 0 /\ state[j] # "new"
      /\ \A q \in PA!VPs : ~In(j, job_list[q]) /\ (q # p => Hand(q) # j)
  BY <1>2, <1>3 DEF UnstartedAt
<1>5. job_list' \in [PA!VPs -> Seq(PA!Jobs)] /\ job_list' = job_list /\ state' = state
  BY <1>1 DEF IInv, PATypeOK
<1>. QED BY <1>1, <1>2, <1>3, <1>4, <1>5, CallInv

\* run() stole a job and counts itself busy before it calls it.
LEMMA StealAndHoldInv ==
  ASSUME IInv, NEW p \in PA!VPs, PA!StealJob(p), job_list[vp[p].it] # <<>>, vp[p].frames = <<>>
  PROVE  IInv'
<1>1. /\ vp[p].pc = "steal" /\ executed' = executed
      /\ PA!attrVars' = PA!attrVars /\ handles' = handles /\ joining' = joining
      /\ DOMAIN vp = PA!VPs /\ DOMAIN vp[p] = Fields
  BY DEF PA!StealJob, PA!At, PA!InRunLoop, IInv, PATypeOK, PA!userVars
<1>2. vp[p].it \in PA!VPs /\ job_list[p] = <<>>
  BY <1>1 DEF IInv, Shapes, ShapeAt
<1>3. job_list[vp[p].it] \in Seq(PA!Jobs) /\ NoDup(job_list[vp[p].it])
  BY <1>2 DEF IInv, PATypeOK, Unstarted
<1>4. PICK q \in PA!VPs, j \in PA!Jobs, s \in Seq(PA!Jobs) :
         /\ In(j, job_list[q]) /\ NoDup(s)
         /\ \A x : In(x, s) <=> In(x, job_list[q]) /\ x # j
         /\ job_list' = [job_list EXCEPT ![q] = s] /\ PA!MarkRunning(j)
         /\ vp' = [vp EXCEPT ![p].pc = "sub", ![p].current_job = j, ![p].it = 0]
  <2>. DEFINE l == job_list[vp[p].it]
  <2>1. /\ Tail(l) \in Seq(PA!Jobs) /\ Head(l) \in PA!Jobs /\ In(Head(l), l)
        /\ NoDup(Tail(l)) /\ \A x : In(x, Tail(l)) <=> In(x, l) /\ x # Head(l)
    BY <1>3, TailFact
  <2>2. /\ job_list' = [job_list EXCEPT ![vp[p].it] = Tail(l)] /\ PA!MarkRunning(Head(l))
        /\ vp' = [vp EXCEPT ![p].pc = "sub", ![p].current_job = Head(l), ![p].it = 0]
    BY DEF PA!StealJob, PA!InRunLoop
  <2>. QED BY <1>2, <2>1, <2>2
<1>5. /\ ActsOnly(p) /\ vp'[p].frames = vp[p].frames /\ vp'[p].pc = "sub"
      /\ vp'[p].current_job = j
  BY <1>1, <1>4 DEF ActsOnly, Places, NoFunction, Fields
<1>6. /\ executed[j] = 0 /\ state[j] # "new"
      /\ job_list' \in [PA!VPs -> Seq(PA!Jobs)]
      /\ \A r \in PA!VPs : /\ NoDup(job_list'[r]) /\ ~In(j, job_list'[r])
                           /\ job_list[r] = <<>> => job_list'[r] = <<>>
                           /\ Hand(r) # j
      /\ \A k \in PA!Jobs \ {j}, r \in PA!VPs : In(k, job_list'[r]) <=> In(k, job_list[r])
  BY <1>4, TakeFact
<1>7. /\ state' \in [PA!Jobs -> {"new", "ready", "running", "finished"}]
      /\ \A k \in PA!Jobs : state'[k] = "new" <=> state[k] = "new"
  BY <1>4 DEF PA!MarkRunning, IInv, PATypeOK
<1>8. \A r \in PA!VPs : Hand(r)' = IF r = p THEN j ELSE Hand(r)
  BY <1>5 DEF Hand, ActsOnly
<1>9. Hand(p) = NULL
  BY <1>1 DEF Hand
<1>10. PATypeOK'
  <2>1. \A r \in PA!VPs : DOMAIN vp'[r] = Fields /\ vp'[r].pc \in Places
                          /\ vp'[r].frames \in Seq(PA!Fns)
    BY <1>5 DEF IInv, PATypeOK, ActsOnly, Places
  <2>. QED BY <1>1, <1>5, <1>6, <1>7, <2>1 DEF IInv, PATypeOK, ActsOnly, Places, PA!attrVars
<1>11. Shapes'
  <2>1. ShapeAt(p)'
    BY <1>2, <1>5, <1>6 DEF ShapeAt, InFunction, NoFunction
  <2>2. \A r \in PA!VPs \ {p} : ShapeAt(r)'
    BY <1>1, <1>5, <1>6, ShapeOther DEF ActsOnly
  <2>. QED BY <2>1, <2>2 DEF Shapes
<1>12. Unstarted'
  <2>1. \A r \in PA!VPs : Hand(r)' \in PA!Fns /\ (Hand(r)' = j <=> r = p)
    BY <1>4, <1>6, <1>8, ConstFact DEF IInv, Unstarted
  <2>2. \A k \in PA!Jobs \ {j}, r \in PA!VPs : Hand(r)' = k <=> Hand(r) = k
    BY <1>8, <1>9, ConstFact
  <2>3. UnstartedAt(j)'
    BY <1>1, <1>6, <1>7, <2>1 DEF UnstartedAt, In
  <2>. QED BY <1>1, <1>6, <1>7, <2>1, <2>2, <2>3, UnstartedMoves DEF IInv
<1>13. Started'
  <2>1. \A r \in PA!VPs : vp'[r].frames = vp[r].frames
    BY <1>5 DEF ActsOnly
  <2>2. \A k \in PA!Jobs : executed'[k] = 1 => state'[k] # "new"
    BY <1>1, <1>7 DEF IInv, Started
  <2>. QED BY <1>1, <2>1, <2>2 DEF IInv, Started, StartedAt
<1>14. Handles' /\ Counters'
  BY <1>1, <1>5, <1>7, JoinsStay DEF ActsOnly, PA!attrVars
<1>15. Ending'
  BY <1>1, <1>5, EndingKept
<1>. QED BY <1>10, <1>11, <1>12, <1>13, <1>14, <1>15 DEF IInv
-----------------------------------------------------------------------------
(* The ends of functions *)

\* A function leaves its stack, and its handles are gone.
LEMMA LeaveInv ==
  ASSUME IInv, NEW p \in PA!VPs, ActsOnly(p), vp[p].pc = "user",
         vp'[p].pc \in {"get", "restore", "user"}, vp'[p].frames = PA!Pop(vp[p].frames),
         ShapeAt(p)',
         UNCHANGED <<job_list, executed, PA!attrVars, joining>>,
         state' \in [PA!Jobs -> {"new", "ready", "running", "finished"}],
         \A k \in PA!Jobs : state'[k] = "new" <=> state[k] = "new",
         handles' \in [PA!Fns -> SUBSET PA!Jobs], \A f \in PA!Fns : handles'[f] \subseteq handles[f]
  PROVE  IInv'
<1>1. /\ vp[p].frames \in Seq(PA!Fns) /\ vp[p].frames # <<>> /\ NoDup(vp[p].frames)
  BY DEF IInv, PATypeOK, Shapes, ShapeAt, Started, InFunction
<1>2. /\ vp'[p].frames \in Seq(PA!Fns) /\ NoDup(vp'[p].frames)
      /\ \A x : In(x, vp'[p].frames) => In(x, vp[p].frames)
  BY <1>1, PopFact
<1>3. \A q \in PA!VPs : Hand(q)' = Hand(q)
  BY DEF ActsOnly, Hand
<1>4. PATypeOK'
  <2>1. \A q \in PA!VPs : DOMAIN vp'[q] = Fields /\ vp'[q].pc \in Places
                          /\ vp'[q].frames \in Seq(PA!Fns)
    BY <1>2 DEF IInv, PATypeOK, ActsOnly, Places
  <2>. QED BY <2>1 DEF IInv, PATypeOK, ActsOnly, Places, PA!attrVars
<1>5. Shapes'
  BY ShapeOther DEF Shapes, ActsOnly
<1>6. Unstarted'
  BY <1>3, ConstFact, UnstartedMoves DEF IInv, Unstarted
<1>7. Started'
  <2>1. \A q \in PA!VPs : NoDup(vp'[q].frames)
    BY <1>2 DEF ActsOnly, IInv, Started
  <2>2. \A g \in PA!Fns, q \in PA!VPs : In(g, vp'[q].frames) => In(g, vp[q].frames)
    BY <1>2 DEF ActsOnly
  <2>3. StartedAt(NULL)'
    BY <2>2, ConstFact DEF IInv, Started, StartedAt, In
  <2>. QED BY <2>1, <2>2, <2>3, StartedMoves DEF IInv, Started
<1>8. Handles' /\ Counters'
  BY JoinsStay DEF ActsOnly, PA!attrVars
<1>9. Ending'
  BY EndingKept
<1>. QED BY <1>4, <1>5, <1>6, <1>7, <1>8, <1>9 DEF IInv

LEMMA ReturnInv ==
  ASSUME IInv, NEW p \in PA!VPs, PA!Return(p)
  PROVE  IInv'
<1>1. PICK f \in PA!Jobs, rest \in Seq(PA!Fns) :
         /\ f = PA!Fn(p) /\ rest = PA!Pop(vp[p].frames)
  <2>1. vp[p].pc = "user" /\ vp[p].frames \in Seq(PA!Fns) /\ vp[p].frames # <<>> /\ PA!Fn(p) # NULL
    BY DEF PA!Return, PA!At, IInv, PATypeOK, Shapes, ShapeAt, InFunction
  <2>2. PA!Fn(p) \in PA!Jobs
    BY <2>1, FnFact DEF IInv, PA!Fns
  <2>. QED BY <2>1, <2>2, PopFact
<1>2. /\ vp[p].pc = "user" /\ DOMAIN vp = PA!VPs /\ DOMAIN vp[p] = Fields
      /\ vp' = [vp EXCEPT ![p].frames = rest,
                          ![p].pc = IF rest = <<>> THEN "get"
                                    ELSE IF joining[PA!Top(rest)] # NULL THEN "restore"
                                    ELSE "user"]
      /\ state' = [state EXCEPT ![f] = IF @ = "running" THEN "finished" ELSE @]
      /\ handles' = [handles EXCEPT ![f] = {}]
      /\ UNCHANGED <<job_list, executed, PA!attrVars, joining>>
  BY <1>1 DEF PA!Return, PA!At, IInv, PATypeOK
<1>3. /\ DOMAIN vp' = PA!VPs /\ DOMAIN vp'[p] = Fields /\ vp'[p].frames = rest
      /\ vp'[p].pc = IF rest = <<>> THEN "get"
                     ELSE IF joining[PA!Top(rest)] # NULL THEN "restore" ELSE "user"
      /\ \A q \in PA!VPs \ {p} : vp'[q] = vp[q]
  BY <1>2 DEF Fields
<1>4. ActsOnly(p) /\ vp'[p].pc \in {"get", "restore", "user"}
  BY <1>3 DEF ActsOnly, Places, InFunction, Searching
<1>5. ShapeAt(p)'
  BY <1>2, <1>3 DEF ShapeAt, PA!Fn, InFunction, NoFunction
<1>6. /\ state' \in [PA!Jobs -> {"new", "ready", "running", "finished"}]
      /\ \A k \in PA!Jobs : state'[k] = "new" <=> state[k] = "new"
  BY <1>2 DEF IInv, PATypeOK
<1>7. /\ handles' \in [PA!Fns -> SUBSET PA!Jobs]
      /\ \A g \in PA!Fns : handles'[g] \subseteq handles[g]
  BY <1>2 DEF IInv, PATypeOK
<1>. QED BY <1>1, <1>2, <1>3, <1>4, <1>5, <1>6, <1>7, LeaveInv

\* main() calls terminate with no function under it.
LEMMA TerminateInv ==
  ASSUME IInv, PA!Terminate
  PROVE  IInv'
<1>1. /\ 0 \in PA!VPs /\ vp[0].pc = "user" /\ vp[0].frames = <<NULL>>
      /\ vp' = [vp EXCEPT ![0].pc = "get", ![0].frames = <<>>, ![0].current_job = NULL]
      /\ handles' = [handles EXCEPT ![NULL] = {}] /\ DOMAIN vp = PA!VPs /\ DOMAIN vp[0] = Fields
      /\ UNCHANGED <<job_list, state, executed, PA!attrVars, joining>>
  BY ConstFact DEF PA!Terminate, PA!At, IInv, PATypeOK, PA!jobVars
<1>2. /\ ActsOnly(0) /\ vp'[0].frames = <<>> /\ vp'[0].pc = "get"
  BY <1>1 DEF ActsOnly, Places, Searching, Fields
<1>3. PA!Pop(vp[0].frames) = <<>>
  BY <1>1 DEF PA!Pop
<1>4. ShapeAt(0)'
  BY <1>2 DEF ShapeAt, InFunction, NoFunction
<1>5. handles' \in [PA!Fns -> SUBSET PA!Jobs] /\ \A g \in PA!Fns : handles'[g] \subseteq handles[g]
  BY <1>1 DEF IInv, PATypeOK
<1>6. state' \in [PA!Jobs -> {"new", "ready", "running", "finished"}]
  BY <1>1 DEF IInv, PATypeOK
<1>. QED BY <1>1, <1>2, <1>3, <1>4, <1>5, <1>6, LeaveInv

-----------------------------------------------------------------------------
(* The creation of a job *)

\* The new job has one holder, and the handles passed on have room for one more.
LEMMA CreateJoins ==
  ASSUME IInv, NEW p \in PA!VPs, NEW j \in PA!Jobs, NEW H \in SUBSET PA!Jobs,
         vp[p].pc = "user", vp'[p].pc = "user", state[j] = "new",
         H \subseteq {k \in handles[PA!Fn(p)] : Cardinality(PA!Holders(k)) < Joins
                                               /\ num_joins[k] = Joins},
         handles' = [handles EXCEPT ![PA!Fn(p)] = @ \cup {j}, ![j] = H],
         \A q \in PA!VPs \ {p} : vp'[q] = vp[q],
         state' = [state EXCEPT ![j] = "ready"],
         \A k \in PA!Jobs \ {j} : executed'[k] = executed[k],
         UNCHANGED <<PA!attrVars, joining>>
  PROVE  Handles' /\ Counters' /\ handles' \in [PA!Fns -> SUBSET PA!Jobs]
<1>. DEFINE f == PA!Fn(p)
<1>1. /\ vp[p].frames # <<>> /\ f \in PA!Fns /\ In(f, vp[p].frames) /\ joining[f] = NULL
      /\ executed[j] = 0 /\ j \in PA!Fns /\ j # NULL
  <2>1. vp[p].frames # <<>> /\ joining[f] = NULL
    BY DEF IInv, Shapes, ShapeAt, InFunction
  <2>2. executed[j] = 0 /\ j # NULL
    BY ConstFact DEF IInv, PATypeOK, Started
  <2>. QED BY <2>1, <2>2, FnFact, ConstFact DEF IInv
<1>2. f # j
  BY <1>1 DEF IInv, Started, StartedAt
<1>3. /\ handles \in [PA!Fns -> SUBSET PA!Jobs] /\ joining \in [PA!Fns -> PA!Fns]
      /\ state \in [PA!Jobs -> {"new", "ready", "running", "finished"}]
      /\ PA!Holders(j) = {} /\ joining[j] = NULL /\ joining' = joining
      /\ num_joins' = num_joins /\ num_joins[j] = Joins
      /\ deleted' = deleted /\ raced' = raced
  BY <1>1 DEF IInv, PATypeOK, Handles, PA!attrVars
<1>. HIDE DEF f
<1>4. /\ handles' \in [PA!Fns -> SUBSET PA!Jobs]
      /\ handles'[f] = handles[f] \cup {j} /\ handles'[j] = H
      /\ \A g \in PA!Fns \ {f, j} : handles'[g] = handles[g]
      /\ H \subseteq handles[f]
  BY <1>1, <1>2, <1>3 DEF f
<1>5. j \notin H /\ j \notin handles[f]
  BY <1>1, <1>3, <1>4 DEF PA!Holders
<1>6. PA!Holders(j)' = {f}
  <2>1. \A g \in PA!Fns : j \in handles'[g] <=> g = f
    BY <1>1, <1>3, <1>4, <1>5 DEF PA!Holders
  <2>2. \A g \in PA!Fns : joining[g] # j
    BY <1>3 DEF PA!Holders
  <2>. QED BY <1>1, <1>3, <2>1, <2>2 DEF PA!Holders
<1>7. \A k \in H : PA!Holders(k)' \subseteq PA!Holders(k) \cup {j}
  BY <1>1, <1>3, <1>4, <1>5 DEF PA!Holders
<1>8. \A k \in PA!Jobs \ (H \cup {j}) : PA!Holders(k)' \subseteq PA!Holders(k)
  BY <1>1, <1>3, <1>4 DEF PA!Holders
<1>9. ASSUME NEW q \in PA!VPs, NEW k \in PA!Jobs,
             NEW P \in SUBSET {"loadold", "swap", "last", "delete"}
      PROVE  PA!Decrementing(q, k, P)' <=> PA!Decrementing(q, k, P)
  <2>1. CASE q = p
    BY <2>1 DEF PA!Decrementing
  <2>2. CASE q # p
    BY <1>3, <2>2 DEF PA!Decrementing, PA!Joined, PA!Fn
  <2>. QED BY <2>1, <2>2
<1>10. \A k \in PA!Jobs : PA!DecrementingAt(k, {"last", "delete"})
                         \subseteq PA!DecrementingAt(k, {"last", "delete"})'
  <2>. SUFFICES ASSUME NEW k \in PA!Jobs, NEW q \in PA!VPs, PA!Decrementing(q, k, {"last", "delete"})
                PROVE  PA!Fn(q) \in PA!DecrementingAt(k, {"last", "delete"})'
    BY DEF PA!DecrementingAt
  <2>1. PA!Decrementing(q, k, {"last", "delete"})' /\ q # p
    BY <1>9 DEF PA!Decrementing
  <2>2. PA!Fn(q)' = PA!Fn(q)
    BY <2>1 DEF PA!Fn
  <2>. QED BY <2>1, <2>2 DEF PA!DecrementingAt
<1>11. ASSUME NEW k \in PA!Jobs PROVE DeletedAt(k)'
  BY <1>3, <1>9, DeletedKept DEF IInv, Counters
<1>12. ASSUME NEW k \in PA!Jobs, NEW q \in PA!VPs, PA!Decrementing(q, k, {"loadold", "swap"})'
       PROVE  PA!Decrementing(q, k, {"loadold", "swap"}) /\ vp'[q].new = vp[q].new
  BY <1>9, <1>12 DEF PA!Decrementing
<1>13. ASSUME NEW k \in PA!Jobs, k \notin H \cup {j} PROVE CoverAt(k)'
  <2>1. PA!Coming(k)' \subseteq PA!Coming(k)
    BY <1>8, <1>10, <1>13 DEF PA!Coming
  <2>2. PATypeOK /\ CoverAt(k)
    BY DEF IInv, Counters
  <2>. QED BY <1>3, <1>12, <2>1, <2>2, CoverKept
<1>14. ASSUME NEW k \in H \cup {j}, IsFiniteSet(PA!Holders(k)'),
              Cardinality(PA!Holders(k)') <= Joins
       PROVE  CoverAt(k)'
  <2>1. k \in PA!Jobs /\ num_joins[k] = Joins
    BY <1>3, <1>4
  <2>2. PA!Coming(k)' \subseteq PA!Holders(k)'
    BY DEF PA!Coming
  <2>3. Cardinality(PA!Coming(k)') \in Nat /\ Cardinality(PA!Coming(k)') <= Joins
    BY <1>14, <2>2, FS_Subset, FS_CardinalityType, ConstFact
  <2>4. ASSUME NEW q \in PA!VPs, PA!Decrementing(q, k, {"loadold", "swap"})'
        PROVE  vp'[q].new \in Int /\ vp'[q].new < Joins /\ vp'[q].new = Joins - 1
    <3>1. PA!Decrementing(q, k, {"loadold", "swap"}) /\ vp'[q].new = vp[q].new
      BY <1>12, <2>1, <2>4
    <3>. QED BY <2>1, <3>1 DEF IInv, Counters, CoverAt
  <2>. QED BY <1>3, <2>1, <2>3, <2>4, ConstFact DEF CoverAt
<1>15. CoverAt(j)'
  <2>1. IsFiniteSet(PA!Holders(j)') /\ Cardinality(PA!Holders(j)') = 1
    BY <1>6, FS_Singleton
  <2>. QED BY <1>14, <2>1, ConstFact
<1>16. ASSUME NEW k \in H PROVE CoverAt(k)'
  <2>1. IsFiniteSet(PA!Holders(k)) /\ Cardinality(PA!Holders(k)) \in Nat
    BY ComingFact DEF IInv
  <2>2. IsFiniteSet(PA!Holders(k) \cup {j})
        /\ Cardinality(PA!Holders(k) \cup {j}) <= Cardinality(PA!Holders(k)) + 1
        /\ Cardinality(PA!Holders(k) \cup {j}) \in Nat
    BY <2>1, OneMore
  <2>3. Cardinality(PA!Holders(k)) < Joins
    OBVIOUS
  <2>4. /\ IsFiniteSet(PA!Holders(k)')
        /\ Cardinality(PA!Holders(k)') <= Cardinality(PA!Holders(k) \cup {j})
        /\ Cardinality(PA!Holders(k)') \in Nat
    BY <1>7, <2>2, FS_Subset, FS_CardinalityType
  <2>5. Cardinality(PA!Holders(k)') <= Joins
    BY <2>1, <2>2, <2>3, <2>4, ConstFact
  <2>. QED BY <1>14, <2>4, <2>5
<1>17. Counters'
  BY <1>11, <1>13, <1>15, <1>16 DEF Counters
<1>18. Handles'
  <2>1. \A k \in PA!Jobs : executed'[k] = 0 => joining'[k] = NULL
    BY <1>3 DEF IInv, Handles
  <2>2. \A k \in PA!Jobs : state'[k] = "new" => PA!Holders(k)' = {} /\ num_joins'[k] = Joins
    <3>. SUFFICES ASSUME NEW k \in PA!Jobs, state'[k] = "new"
                  PROVE  PA!Holders(k)' = {} /\ num_joins'[k] = Joins
      OBVIOUS
    <3>1. k # j /\ state[k] = "new"
      BY <1>3
    <3>2. PA!Holders(k) = {} /\ num_joins[k] = Joins
      BY <3>1 DEF IInv, Handles
    <3>3. k \notin H
      BY <1>1, <1>4, <3>2 DEF PA!Holders
    <3>. QED BY <1>3, <1>8, <3>1, <3>2, <3>3
  <2>3. \A g \in PA!Fns : joining'[g] \notin handles'[g]
    <3>. SUFFICES ASSUME NEW g \in PA!Fns PROVE joining[g] \notin handles'[g]
      BY <1>3
    <3>1. joining[g] \notin handles[g] /\ NULL \notin PA!Jobs
      BY ConstFact DEF IInv, Handles
    <3>. QED BY <1>1, <1>3, <1>4, <3>1
  <2>. QED BY <2>1, <2>2, <2>3 DEF Handles
<1>. QED BY <1>4, <1>17, <1>18
\* The new job enters the VP's list.
LEMMA CreateListInv ==
  ASSUME IInv, NEW p \in PA!VPs, NEW j \in PA!Jobs, NEW H \in SUBSET PA!Jobs, PA!Create(p, j, H),
         job_list' = [job_list EXCEPT ![p] = Append(@, j)], UNCHANGED <<vp, executed>>
  PROVE  IInv'
<1>1. /\ vp[p].pc = "user" /\ state[j] = "new" /\ DOMAIN vp = PA!VPs
      /\ H \subseteq {k \in handles[PA!Fn(p)] : Cardinality(PA!Holders(k)) < Joins
                                               /\ num_joins[k] = Joins}
      /\ handles' = [handles EXCEPT ![PA!Fn(p)] = @ \cup {j}, ![j] = H]
      /\ state' = [state EXCEPT ![j] = "ready"]
      /\ UNCHANGED <<PA!attrVars, joining>>
  BY SameCardinality DEF PA!Create, PA!At, IInv, PATypeOK
<1>2. Handles' /\ Counters' /\ handles' \in [PA!Fns -> SUBSET PA!Jobs]
  BY <1>1, CreateJoins
<1>3. /\ executed[j] = 0 /\ UnstartedAt(j) /\ job_list \in [PA!VPs -> Seq(PA!Jobs)]
      /\ \A q \in PA!VPs : NoDup(job_list[q])
      /\ state' \in [PA!Jobs -> {"new", "ready", "running", "finished"}]
      /\ state'[j] = "ready" /\ \A k \in PA!Jobs \ {j} : state'[k] = state[k]
  BY <1>1 DEF IInv, PATypeOK, Started, Unstarted
<1>4. \A q \in PA!VPs : ~In(j, job_list[q]) /\ Hand(q) # j
  BY <1>1, <1>3 DEF UnstartedAt
<1>5. PICK s \in Seq(PA!Jobs) :
         /\ job_list' = [job_list EXCEPT ![p] = s]
         /\ NoDup(s) /\ \A x : In(x, s) <=> In(x, job_list[p]) \/ x = j
  <2>. DEFINE a == Append(job_list[p], j)
  <2>1. a \in Seq(PA!Jobs) /\ NoDup(a) /\ \A x : In(x, a) <=> In(x, job_list[p]) \/ x = j
    <3>1. job_list[p] \in Seq(PA!Jobs) /\ NoDup(job_list[p]) /\ ~In(j, job_list[p])
      BY <1>3, <1>4
    <3>. QED BY <3>1, AppendFact
  <2>2. job_list' = [job_list EXCEPT ![p] = a]
    OBVIOUS
  <2>. HIDE DEF a
  <2>. QED BY <2>1, <2>2
<1>6. /\ job_list' \in [PA!VPs -> Seq(PA!Jobs)] /\ job_list'[p] = s
      /\ \A q \in PA!VPs \ {p} : job_list'[q] = job_list[q]
  BY <1>3, <1>5
<1>7. \A q \in PA!VPs : Hand(q)' = Hand(q)
  BY DEF Hand
<1>8. PATypeOK'
  BY <1>1, <1>2, <1>3, <1>6 DEF IInv, PATypeOK, PA!attrVars
<1>9. Shapes'
  <2>1. ShapeAt(p)'
    BY <1>1 DEF IInv, Shapes, ShapeAt, PA!Fn, InFunction, NoFunction
  <2>2. \A q \in PA!VPs \ {p} : ShapeAt(q)'
    BY <1>1, <1>6, ShapeOther
  <2>. QED BY <2>1, <2>2 DEF Shapes
<1>10. Unstarted'
  <2>1. \A q \in PA!VPs : NoDup(job_list'[q]) /\ Hand(q)' \in PA!Fns
    BY <1>3, <1>5, <1>6, <1>7 DEF IInv, Unstarted
  <2>2. \A k \in PA!Jobs \ {j}, q \in PA!VPs : In(k, job_list'[q]) <=> In(k, job_list[q])
    BY <1>5, <1>6
  <2>3. \A q \in PA!VPs : In(j, job_list'[q]) <=> q = p
    BY <1>4, <1>5, <1>6
  <2>4. UnstartedAt(j)'
    BY <1>3, <1>4, <1>7, <2>3 DEF UnstartedAt, In
  <2>. QED BY <1>3, <1>7, <2>1, <2>2, <2>4, UnstartedMoves DEF IInv
<1>11. Started'
  BY <1>3 DEF IInv, Started, StartedAt
<1>12. Ending'
  BY DEF IInv, Ending
<1>. QED BY <1>2, <1>8, <1>9, <1>10, <1>11, <1>12 DEF IInv

\* The new job runs at once.
LEMMA CreateInPlaceInv ==
  ASSUME IInv, NEW p \in PA!VPs, NEW j \in PA!Jobs, NEW H \in SUBSET PA!Jobs, PA!Create(p, j, H),
         vp' = [vp EXCEPT ![p].frames = Append(@, j)],
         executed' = [executed EXCEPT ![j] = @ + 1], UNCHANGED job_list
  PROVE  IInv'
<1>1. /\ vp[p].pc = "user" /\ state[j] = "new"
      /\ DOMAIN vp = PA!VPs /\ DOMAIN vp[p] = Fields
      /\ H \subseteq {k \in handles[PA!Fn(p)] : Cardinality(PA!Holders(k)) < Joins
                                               /\ num_joins[k] = Joins}
      /\ handles' = [handles EXCEPT ![PA!Fn(p)] = @ \cup {j}, ![j] = H]
      /\ state' = [state EXCEPT ![j] = "ready"]
      /\ UNCHANGED <<PA!attrVars, joining>>
  BY SameCardinality DEF PA!Create, PA!At, IInv, PATypeOK
<1>2. /\ ActsOnly(p) /\ vp'[p].frames = Append(vp[p].frames, j) /\ vp'[p].pc = "user"
  BY <1>1 DEF ActsOnly, Places, InFunction, Fields
<1>3. /\ executed \in [PA!Jobs -> {0, 1}] /\ executed[j] = 0 /\ UnstartedAt(j)
      /\ state' \in [PA!Jobs -> {"new", "ready", "running", "finished"}]
      /\ state'[j] = "ready" /\ \A k \in PA!Jobs \ {j} : state'[k] = state[k]
  BY <1>1 DEF IInv, PATypeOK, Started, Unstarted
<1>4. executed' = [executed EXCEPT ![j] = 1]
  BY <1>3
<1>5. /\ executed' \in [PA!Jobs -> {0, 1}] /\ executed'[j] = 1
      /\ \A k \in PA!Jobs \ {j} : executed'[k] = executed[k]
  BY <1>3, <1>4
<1>6. Handles' /\ Counters' /\ handles' \in [PA!Fns -> SUBSET PA!Jobs]
  BY <1>1, <1>2, <1>5, CreateJoins DEF ActsOnly
<1>7. /\ vp[p].frames \in Seq(PA!Fns) /\ j \in PA!Fns /\ j # NULL /\ NoDup(vp[p].frames)
      /\ \A q \in PA!VPs : ~In(j, vp[q].frames)
  BY <1>3, ConstFact DEF IInv, PATypeOK, Started, StartedAt
<1>8. /\ vp'[p].frames \in Seq(PA!Fns) /\ vp'[p].frames # <<>> /\ PA!Fn(p)' = j
      /\ \A x : In(x, vp'[p].frames) <=> In(x, vp[p].frames) \/ x = j
      /\ NoDup(vp'[p].frames)
  BY <1>2, <1>7, AppendFact DEF PA!Fn
<1>9. \A q \in PA!VPs : ~In(j, job_list[q]) /\ Hand(q) # j /\ Hand(q)' = Hand(q)
  BY <1>1, <1>2, <1>3 DEF UnstartedAt, ActsOnly, Hand
<1>10. PATypeOK'
  <2>1. \A q \in PA!VPs : DOMAIN vp'[q] = Fields /\ vp'[q].pc \in Places
                          /\ vp'[q].frames \in Seq(PA!Fns)
    BY <1>2, <1>8 DEF IInv, PATypeOK, ActsOnly, Places
  <2>. QED BY <1>1, <1>2, <1>3, <1>5, <1>6, <2>1
           DEF IInv, PATypeOK, ActsOnly, Places, PA!attrVars
<1>11. Shapes'
  <2>1. joining'[j] = NULL
    BY <1>1, <1>3 DEF IInv, Handles
  <2>2. ShapeAt(p)'
    BY <1>2, <1>8, <2>1 DEF ShapeAt, InFunction, NoFunction
  <2>3. \A q \in PA!VPs \ {p} : ShapeAt(q)'
    BY <1>1, <1>2, ShapeOther DEF ActsOnly
  <2>. QED BY <2>2, <2>3 DEF Shapes
<1>12. Unstarted'
  <2>1. UnstartedAt(j)'
    BY <1>5, <1>9 DEF UnstartedAt, In
  <2>2. \A q \in PA!VPs : NoDup(job_list'[q]) /\ Hand(q)' \in PA!Fns
    BY <1>9 DEF IInv, Unstarted
  <2>. QED BY <1>3, <1>5, <1>9, <2>1, <2>2, UnstartedMoves DEF IInv
<1>13. Started'
  <2>1. \A q \in PA!VPs : NoDup(vp'[q].frames)
    BY <1>2, <1>8 DEF ActsOnly, IInv, Started
  <2>2. \A g \in PA!Fns \ {j}, q \in PA!VPs : In(g, vp'[q].frames) => In(g, vp[q].frames)
    BY <1>2, <1>8 DEF ActsOnly
  <2>3. \A q \in PA!VPs : In(j, vp'[q].frames) => q = p
    BY <1>2, <1>7 DEF ActsOnly
  <2>4. StartedAt(j)'
    BY <1>5, <1>7, <2>3 DEF StartedAt, In
  <2>5. \A k \in PA!Jobs : /\ executed[k] = 1 => executed'[k] = 1
                           /\ executed'[k] = 1 => state'[k] # "new"
    BY <1>3, <1>5 DEF IInv, Started
  <2>. QED BY <2>1, <2>2, <2>4, <2>5, StartedMoves DEF IInv
<1>14. Ending'
  BY <1>1, <1>2, EndingKept
<1>. QED BY <1>6, <1>10, <1>11, <1>12, <1>13, <1>14 DEF IInv

LEMMA CreateInv ==
  ASSUME IInv, NEW p \in PA!VPs, NEW j \in PA!Jobs, NEW H \in SUBSET PA!Jobs, PA!Create(p, j, H)
  PROVE  IInv'
  BY CreateListInv, CreateInPlaceInv DEF PA!Create
-----------------------------------------------------------------------------
(* join_job and dec_join_counter *)

\* The join of one function leaves the others' alone.
LEMMA OtherJoins ==
  ASSUME IInv, NEW p \in PA!VPs, ActsOnly(p), vp[p].frames # <<>>,
         \A g \in PA!Fns \ {PA!Fn(p)} : joining'[g] = joining[g],
         NEW q \in PA!VPs \ {p}
  PROVE  /\ vp[q].frames # <<>> => joining'[PA!Fn(q)] = joining[PA!Fn(q)] /\ PA!Fn(q) # PA!Fn(p)
         /\ PA!Fn(q)' = PA!Fn(q)
         /\ \A j \in PA!Jobs, P \in SUBSET InFunction :
               PA!Decrementing(q, j, P)' <=> PA!Decrementing(q, j, P)
<1>1. vp'[q] = vp[q] /\ PA!Fn(q)' = PA!Fn(q)
  BY DEF ActsOnly, PA!Fn
<1>2. vp[q].frames # <<>> => PA!Fn(q) \in PA!Fns /\ PA!Fn(q) # PA!Fn(p)
  BY FnFact DEF IInv
<1>3. vp[q].pc \in InFunction => vp[q].frames # <<>>
  BY DEF IInv, Shapes, ShapeAt
<1>. QED BY <1>1, <1>2, <1>3 DEF PA!Decrementing, PA!Joined

\* join_job uses up the handle.
LEMMA JoinInv ==
  ASSUME IInv, NEW p \in PA!VPs, NEW j \in PA!Jobs, PA!Join(p, j)
  PROVE  IInv'
<1>. DEFINE f == PA!Fn(p)
<1>1. /\ vp[p].pc = "user" /\ j \in handles[f] /\ joining' = [joining EXCEPT ![f] = j]
      /\ handles' = [handles EXCEPT ![f] = @ \ {j}] /\ vp' = [vp EXCEPT ![p].pc = "check"]
      /\ DOMAIN vp = PA!VPs /\ DOMAIN vp[p] = Fields
      /\ UNCHANGED <<job_list, PA!jobVars, PA!attrVars>>
  BY DEF PA!Join, PA!At, PA!Goto, IInv, PATypeOK
<1>2. /\ ActsOnly(p) /\ vp'[p].frames = vp[p].frames /\ vp'[p].pc = "check"
  BY <1>1 DEF ActsOnly, Places, InFunction, Fields
<1>3. /\ vp[p].frames # <<>> /\ f \in PA!Fns /\ In(f, vp[p].frames) /\ joining[f] = NULL
  <2>1. vp[p].frames # <<>> /\ joining[f] = NULL
    BY <1>1 DEF IInv, Shapes, ShapeAt, InFunction
  <2>. QED BY <2>1, FnFact DEF IInv
<1>4. PA!Fn(p)' = f /\ Hand(p)' = Hand(p)
  BY <1>1, <1>2 DEF PA!Fn, Hand
<1>. HIDE DEF f
<1>5. /\ joining' \in [PA!Fns -> PA!Fns] /\ handles' \in [PA!Fns -> SUBSET PA!Jobs]
      /\ joining'[f] = j /\ handles'[f] = handles[f] \ {j} /\ j # NULL
      /\ \A g \in PA!Fns \ {f} : joining'[g] = joining[g] /\ handles'[g] = handles[g]
  BY <1>1, <1>3, ConstFact DEF IInv, PATypeOK
<1>6. \A q \in PA!VPs \ {p} :
         /\ vp[q].frames # <<>> => joining'[PA!Fn(q)] = joining[PA!Fn(q)]
         /\ PA!Fn(q)' = PA!Fn(q)
         /\ \A k \in PA!Jobs, P \in SUBSET InFunction :
               PA!Decrementing(q, k, P)' <=> PA!Decrementing(q, k, P)
  BY <1>2, <1>3, <1>5, OtherJoins DEF f
<1>7. PATypeOK' /\ Shapes' /\ Unstarted' /\ Started'
  <2>1. ShapeAt(p)'
    BY <1>2, <1>3, <1>4, <1>5 DEF ShapeAt, InFunction, NoFunction
  <2>2. num_joins' \in [PA!Jobs -> Int] /\ deleted' \subseteq PA!Jobs
    BY <1>1 DEF IInv, PATypeOK, PA!attrVars
  <2>. QED BY <1>1, <1>2, <1>4, <1>5, <1>6, <2>1, <2>2, QuietMove
<1>8. \A k \in PA!Jobs : PA!Holders(k)' = PA!Holders(k)
  <2>. SUFFICES ASSUME NEW k \in PA!Jobs, NEW g \in PA!Fns
                PROVE  (k \in handles'[g] \/ joining'[g] = k)
                          <=> (k \in handles[g] \/ joining[g] = k)
    BY DEF PA!Holders
  <2>. QED BY <1>1, <1>3, <1>5, ConstFact
<1>9. Handles'
  <2>1. \A k \in PA!Jobs : executed'[k] = 0 => joining'[k] = NULL
    <3>. SUFFICES ASSUME NEW k \in PA!Jobs, executed[k] = 0 PROVE joining'[k] = NULL
      BY <1>1 DEF PA!jobVars
    <3>1. k # f /\ joining[k] = NULL /\ k \in PA!Fns
      BY <1>3, ConstFact DEF IInv, Handles, Started, StartedAt
    <3>. QED BY <1>5, <3>1
  <2>2. \A k \in PA!Jobs : state'[k] = "new" => PA!Holders(k)' = {} /\ num_joins'[k] = Joins
    BY <1>1, <1>8 DEF IInv, Handles, PA!jobVars, PA!attrVars
  <2>3. \A g \in PA!Fns : joining'[g] \notin handles'[g]
    BY <1>5 DEF IInv, Handles
  <2>. QED BY <2>1, <2>2, <2>3 DEF Handles
<1>10. ASSUME NEW k \in PA!Jobs PROVE CoverAt(k)' /\ DeletedAt(k)'
  <2>1. PA!DecrementingAt(k, {"last", "delete"}) \subseteq PA!DecrementingAt(k, {"last", "delete"})'
    <3>. SUFFICES ASSUME NEW q \in PA!VPs, PA!Decrementing(q, k, {"last", "delete"})
                  PROVE  PA!Fn(q) \in PA!DecrementingAt(k, {"last", "delete"})'
      BY DEF PA!DecrementingAt
    <3>1. q # p
      BY <1>1 DEF PA!Decrementing
    <3>2. PA!Decrementing(q, k, {"last", "delete"})' /\ PA!Fn(q)' = PA!Fn(q)
      BY <1>6, <3>1 DEF InFunction
    <3>. QED BY <3>2 DEF PA!DecrementingAt
  <2>2. PA!Coming(k)' \subseteq PA!Coming(k)
    BY <1>8, <2>1 DEF PA!Coming
  <2>3. ASSUME NEW q \in PA!VPs, NEW P \in SUBSET {"loadold", "swap", "delete"},
               PA!Decrementing(q, k, P)'
        PROVE  PA!Decrementing(q, k, P) /\ vp'[q].new = vp[q].new
    <3>1. q # p
      BY <1>2, <2>3 DEF PA!Decrementing
    <3>2. P \in SUBSET InFunction
      BY DEF InFunction
    <3>. QED BY <1>2, <1>6, <2>3, <3>1, <3>2 DEF ActsOnly
  <2>4. CoverAt(k)'
    BY <1>1, <2>2, <2>3, CoverKept DEF IInv, Counters, PA!attrVars
  <2>5. DeletedAt(k)'
    BY <1>1, <2>3, DeletedKept DEF IInv, Counters, PA!attrVars
  <2>. QED BY <2>4, <2>5
<1>11. Ending'
  BY <1>1, <1>2, EndingKept
<1>. QED BY <1>7, <1>9, <1>10, <1>11 DEF IInv, Counters
JoinPlaces == {"load", "loadold", "loadnew", "swap", "last", "delete"}

\* A step of p in dec_join_counter for j: it goes on or returns to the function.
JoinStep(p, j) ==
    /\ vp[p].pc \in JoinPlaces /\ joining[PA!Fn(p)] = j /\ ActsOnly(p)
    /\ vp'[p].frames = vp[p].frames
    /\ vp[p].pc \in {"last", "delete"} => vp'[p].pc \in {"last", "delete", "user"}
    /\ \/ vp'[p].pc \in JoinPlaces /\ joining' = joining
       \/ vp'[p].pc = "user" /\ joining' = [joining EXCEPT ![PA!Fn(p)] = NULL]
    /\ num_joins' \in [PA!Jobs -> Int] /\ deleted' \subseteq PA!Jobs
    /\ raced \subseteq raced'
    /\ \A k \in PA!Jobs \ {j} : num_joins'[k] = num_joins[k] /\ (k \in deleted' <=> k \in deleted)
    /\ UNCHANGED <<job_list, PA!jobVars, handles>>

\* What every such step keeps.
LEMMA JoinStepFact ==
  ASSUME IInv, NEW p \in PA!VPs, NEW j \in PA!Jobs, JoinStep(p, j)
  PROVE  /\ PATypeOK' /\ Shapes' /\ Unstarted' /\ Started' /\ Handles' /\ Ending'
         /\ \A k \in PA!Jobs : PA!Coming(k)' \subseteq PA!Coming(k)
         /\ \A k \in PA!Jobs \ {j} : CoverAt(k)' /\ DeletedAt(k)'
         /\ PA!Fn(p)' = PA!Fn(p) /\ PA!Fn(p) \in PA!Fns
         /\ \A q \in PA!VPs \ {p} : /\ vp'[q] = vp[q]
                                    /\ PA!Decrementing(q, j, {"delete"})'
                                          <=> PA!Decrementing(q, j, {"delete"})
                                    /\ PA!Decrementing(q, j, {"loadold", "swap"})'
                                          <=> PA!Decrementing(q, j, {"loadold", "swap"})
<1>. DEFINE f == PA!Fn(p)
<1>. USE DEF JoinStep
<1>1. /\ vp[p].pc \in JoinPlaces /\ vp'[p].pc \in JoinPlaces \cup {"user"}
      /\ vp[p].frames # <<>> /\ f \in PA!Fns /\ In(f, vp[p].frames) /\ joining[f] = j
      /\ j # NULL /\ j \in PA!Fns /\ NULL \in PA!Fns /\ NULL \notin PA!Jobs
  <2>1. vp[p].frames # <<>>
    BY DEF IInv, Shapes, ShapeAt, InFunction, JoinPlaces
  <2>. QED BY <2>1, FnFact, ConstFact DEF IInv
<1>2. PA!Fn(p)' = f
  BY DEF PA!Fn
<1>3. Hand(p)' = Hand(p)
  BY <1>1 DEF Hand, JoinPlaces
<1>. HIDE DEF f
<1>4. /\ joining' \in [PA!Fns -> PA!Fns] /\ \A g \in PA!Fns \ {f} : joining'[g] = joining[g]
      /\ joining'[f] = IF vp'[p].pc = "user" THEN NULL ELSE j
  <2>1. joining \in [PA!Fns -> PA!Fns] /\ NULL \in PA!Fns /\ f \in PA!Fns /\ joining[f] = j
    BY <1>1 DEF IInv, PATypeOK
  <2>2. CASE vp'[p].pc \in JoinPlaces /\ joining' = joining
    BY <2>1, <2>2 DEF JoinPlaces
  <2>3. CASE vp'[p].pc = "user" /\ joining' = [joining EXCEPT ![f] = NULL]
    BY <2>1, <2>3
  <2>. QED BY <2>2, <2>3 DEF f
<1>5. \A q \in PA!VPs \ {p} :
         /\ vp[q].frames # <<>> => joining'[PA!Fn(q)] = joining[PA!Fn(q)] /\ PA!Fn(q) # f
         /\ PA!Fn(q)' = PA!Fn(q)
         /\ \A k \in PA!Jobs, P \in SUBSET InFunction :
               PA!Decrementing(q, k, P)' <=> PA!Decrementing(q, k, P)
  BY <1>1, <1>4, OtherJoins DEF f
<1>6. /\ {"delete"} \in SUBSET InFunction /\ {"loadold", "swap"} \in SUBSET InFunction
      /\ {"last", "delete"} \in SUBSET InFunction
  BY DEF InFunction
<1>7. PATypeOK' /\ Shapes' /\ Unstarted' /\ Started'
  <2>1. ShapeAt(p)'
    BY <1>1, <1>2, <1>4 DEF ShapeAt, InFunction, NoFunction, JoinPlaces
  <2>2. handles' \in [PA!Fns -> SUBSET PA!Jobs]
    BY DEF IInv, PATypeOK
  <2>. QED BY <1>3, <1>4, <1>5, <2>1, <2>2, QuietMove
<1>8. \A k \in PA!Jobs : /\ PA!Holders(k)' \subseteq PA!Holders(k)
                         /\ vp'[p].pc = "user" => (f \in PA!Holders(k)' => k # j)
  <2>1. handles' = handles /\ j \notin handles[f]
    BY <1>1 DEF IInv, Handles
  <2>2. \A k \in PA!Jobs : PA!Holders(k)' \subseteq PA!Holders(k)
    BY <1>1, <1>4, <2>1 DEF PA!Holders
  <2>3. vp'[p].pc = "user" => f \notin PA!Holders(j)'
    BY <1>1, <1>4, <2>1 DEF PA!Holders
  <2>. QED BY <2>2, <2>3
<1>9. Handles'
  <2>1. \A k \in PA!Jobs : executed'[k] = 0 => joining'[k] = NULL
    <3>. SUFFICES ASSUME NEW k \in PA!Jobs, executed[k] = 0 PROVE joining'[k] = NULL
      BY DEF PA!jobVars
    <3>1. k # f /\ joining[k] = NULL /\ k \in PA!Fns
      BY <1>1, ConstFact DEF IInv, Handles, Started, StartedAt
    <3>. QED BY <1>4, <3>1
  <2>2. \A k \in PA!Jobs : state'[k] = "new" => PA!Holders(k)' = {} /\ num_joins'[k] = Joins
    <3>. SUFFICES ASSUME NEW k \in PA!Jobs, state[k] = "new"
                  PROVE  PA!Holders(k)' = {} /\ num_joins'[k] = Joins
      BY DEF PA!jobVars
    <3>1. PA!Holders(k) = {} /\ num_joins[k] = Joins
      BY DEF IInv, Handles
    <3>2. k # j
      BY <1>1, <3>1 DEF PA!Holders
    <3>. QED BY <1>8, <3>1, <3>2
  <2>3. \A g \in PA!Fns : joining'[g] \notin handles'[g]
    BY <1>1, <1>4 DEF IInv, Handles, PATypeOK
  <2>. QED BY <2>1, <2>2, <2>3 DEF Handles
<1>10. ASSUME NEW k \in PA!Jobs PROVE PA!Coming(k)' \subseteq PA!Coming(k)
  <2>. SUFFICES ASSUME NEW g \in PA!Coming(k)', NEW q \in PA!VPs,
                       g = PA!Fn(q), PA!Decrementing(q, k, {"last", "delete"})
                PROVE  FALSE
    BY <1>8 DEF PA!Coming, PA!DecrementingAt
  <2>1. ~PA!Decrementing(q, k, {"last", "delete"})' \/ PA!Fn(q)' # PA!Fn(q)
    BY DEF PA!Coming, PA!DecrementingAt
  <2>2. q = p
    BY <1>5, <1>6, <2>1
  <2>3. vp[p].pc \in {"last", "delete"} /\ k = j /\ g = f
    BY <2>2 DEF PA!Decrementing, PA!Joined, f
  <2>4. CASE vp'[p].pc = "user"
    BY <1>8, <2>3, <2>4 DEF PA!Coming
  <2>5. CASE vp'[p].pc # "user"
    <3>1. PA!Decrementing(p, k, {"last", "delete"})'
      BY <1>2, <1>4, <2>3, <2>5 DEF PA!Decrementing, PA!Joined
    <3>. QED BY <1>2, <2>1, <2>2, <3>1 DEF f
  <2>. QED BY <2>4, <2>5
<1>11. ASSUME NEW k \in PA!Jobs \ {j} PROVE CoverAt(k)' /\ DeletedAt(k)'
  <2>1. \A P : ~PA!Decrementing(p, k, P)'
    BY <1>1, <1>2, <1>4 DEF PA!Decrementing, PA!Joined
  <2>2. ASSUME NEW q \in PA!VPs, PA!Decrementing(q, k, {"loadold", "swap"})'
        PROVE  PA!Decrementing(q, k, {"loadold", "swap"}) /\ vp'[q].new = vp[q].new
    BY <1>5, <1>6, <2>1, <2>2 DEF ActsOnly
  <2>3. ASSUME NEW q \in PA!VPs, PA!Decrementing(q, k, {"delete"})'
        PROVE  PA!Decrementing(q, k, {"delete"})
    BY <1>5, <1>6, <2>1, <2>3
  <2>4. PATypeOK /\ CoverAt(k) /\ DeletedAt(k)
    BY DEF IInv, Counters
  <2>5. CoverAt(k)'
    BY <1>10, <2>2, <2>4, CoverKept
  <2>6. DeletedAt(k)'
    BY <2>3, <2>4, DeletedKept
  <2>. QED BY <2>5, <2>6
<1>12. Ending'
  BY <1>1, EndingKept DEF JoinPlaces
<1>13. ASSUME NEW q \in PA!VPs \ {p}
       PROVE  /\ vp'[q] = vp[q]
              /\ PA!Decrementing(q, j, {"delete"})' <=> PA!Decrementing(q, j, {"delete"})
              /\ PA!Decrementing(q, j, {"loadold", "swap"})'
                    <=> PA!Decrementing(q, j, {"loadold", "swap"})
  BY <1>5, <1>6 DEF ActsOnly
<1>14. PA!Fn(p)' = PA!Fn(p) /\ PA!Fn(p) \in PA!Fns
  BY <1>1, <1>2 DEF f
<1>. QED BY <1>7, <1>9, <1>10, <1>11, <1>12, <1>13, <1>14
\* The counter is loaded, into what is compared or what is stored.
LEMMA LoadInv ==
  ASSUME IInv, NEW p \in PA!VPs, PA!Load(p)
  PROVE  IInv'
<1>1. PICK j : j = PA!Joined(p)
  OBVIOUS
<1>2. /\ vp[p].pc \in {"load", "loadold", "loadnew"} /\ DOMAIN vp = PA!VPs
      /\ DOMAIN vp[p] = Fields /\ joining[PA!Fn(p)] = j
      /\ UNCHANGED <<job_list, PA!jobVars, PA!attrVars, PA!userVars>>
      /\ \/ vp'[p].pc = "loadnew"
         \/ vp'[p].pc \in {"loadold", "swap"} /\ vp'[p].new = num_joins[j] - 1
         \/ vp[p].pc = "loadold" /\ vp'[p].pc = "swap" /\ vp'[p].new = vp[p].new
      /\ DOMAIN vp' = PA!VPs /\ DOMAIN vp'[p] = Fields /\ vp'[p].frames = vp[p].frames
      /\ \A q \in PA!VPs \ {p} : vp'[q] = vp[q]
  <2>1. DOMAIN vp = PA!VPs /\ DOMAIN vp[p] = Fields
    BY DEF IInv, PATypeOK
  <2>. QED BY <1>1, <2>1 DEF PA!Load, PA!LoadOld, PA!LoadNew, PA!OneLess, PA!At, Fields, PA!Joined
<1>3. ActsOnly(p) /\ vp'[p].pc \in JoinPlaces /\ vp[p].pc \in JoinPlaces
  BY <1>2 DEF ActsOnly, Places, InFunction, JoinPlaces
<1>4. j \in PA!Jobs /\ j \in PA!Fns
  <2>1. vp[p].frames # <<>> /\ joining[PA!Fn(p)] # NULL
    BY <1>2 DEF IInv, Shapes, ShapeAt, InFunction
  <2>. QED BY <1>2, <2>1, FnFact DEF IInv, PATypeOK, PA!Fns
<1>5. JoinStep(p, j)
  BY <1>2, <1>3 DEF JoinStep, PA!attrVars, PA!userVars, IInv, PATypeOK
<1>6. /\ PATypeOK' /\ Shapes' /\ Unstarted' /\ Started' /\ Handles' /\ Ending'
      /\ \A k \in PA!Jobs : PA!Coming(k)' \subseteq PA!Coming(k)
      /\ \A k \in PA!Jobs \ {j} : CoverAt(k)' /\ DeletedAt(k)'
      /\ \A q \in PA!VPs \ {p} : /\ vp'[q] = vp[q]
                                 /\ PA!Decrementing(q, j, {"delete"})'
                                       <=> PA!Decrementing(q, j, {"delete"})
                                 /\ PA!Decrementing(q, j, {"loadold", "swap"})'
                                       <=> PA!Decrementing(q, j, {"loadold", "swap"})
  BY <1>4, <1>5, JoinStepFact
<1>7. /\ CoverAt(j) /\ DeletedAt(j) /\ num_joins' = num_joins /\ num_joins[j] \in Int
      /\ raced' = raced /\ deleted' = deleted
  BY <1>2, <1>4 DEF IInv, Counters, PA!attrVars, PATypeOK
<1>8. /\ Cardinality(PA!Coming(j)) \in Nat /\ Cardinality(PA!Coming(j)) > 0 /\ PA!Coming(j) # {}
      /\ Cardinality(PA!Coming(j)') \in Nat
      /\ Cardinality(PA!Coming(j)') <= Cardinality(PA!Coming(j))
  <2>1. PA!Decrementing(p, j, {"load", "loadold", "loadnew", "swap"})
    BY <1>1, <1>2 DEF PA!Decrementing
  <2>2. Cardinality(PA!Coming(j)) > 0 /\ PA!Coming(j) # {}
    BY <1>4, <2>1, InComing DEF IInv
  <2>. QED BY <1>4, <1>6, <2>2, ComingFact, FS_Subset, FS_CardinalityType DEF IInv
<1>9. CoverAt(j)'
  <2>1. ASSUME PA!Decrementing(p, j, {"loadold", "swap"})'
        PROVE  /\ vp'[p].new \in Int /\ vp'[p].new < Joins
               /\ Cardinality(PA!Coming(j)) <= vp'[p].new + 1
               /\ num_joins[j] = Joins => vp'[p].new = Joins - 1
    <3>1. vp'[p].pc \in {"loadold", "swap"}
      BY <2>1 DEF PA!Decrementing
    <3>2. CASE vp'[p].new = num_joins[j] - 1
      BY <1>7, <1>8, <3>2, ConstFact DEF CoverAt
    <3>3. CASE vp[p].pc = "loadold" /\ vp'[p].new = vp[p].new
      <4>1. PA!Decrementing(p, j, {"loadold", "swap"})
        BY <1>1, <3>3 DEF PA!Decrementing
      <4>. QED BY <1>7, <3>3, <4>1 DEF CoverAt
    <3>. QED BY <1>2, <3>1, <3>2, <3>3
  <2>2. ASSUME NEW q \in PA!VPs, PA!Decrementing(q, j, {"loadold", "swap"})'
        PROVE  /\ vp'[q].new \in Int /\ vp'[q].new < Joins
               /\ Cardinality(PA!Coming(j)) <= vp'[q].new + 1
               /\ num_joins[j] = Joins => vp'[q].new = Joins - 1
    <3>1. CASE q = p
      BY <2>1, <2>2, <3>1
    <3>2. CASE q # p
      BY <1>6, <1>7, <2>2, <3>2 DEF CoverAt
    <3>. QED BY <3>1, <3>2
  <2>3. \A q \in PA!VPs : PA!Decrementing(q, j, {"loadold", "swap"})' =>
               /\ vp'[q].new \in Int /\ vp'[q].new < Joins
               /\ Cardinality(PA!Coming(j)') <= vp'[q].new + 1
               /\ num_joins[j] = Joins => vp'[q].new = Joins - 1
    BY <1>8, <2>2
  <2>4. num_joins[j] <= Joins /\ Cardinality(PA!Coming(j)') <= num_joins[j]
    BY <1>7, <1>8 DEF CoverAt
  <2>. QED BY <1>7, <2>3, <2>4 DEF CoverAt
<1>10. DeletedAt(j)'
  <2>1. ~PA!Decrementing(p, j, {"delete"})'
    BY <1>2 DEF PA!Decrementing
  <2>2. \A q \in PA!VPs : PA!Decrementing(q, j, {"delete"})' => PA!Decrementing(q, j, {"delete"})
    BY <1>6, <2>1
  <2>. QED BY <1>4, <1>7, <2>2, DeletedKept
<1>. QED BY <1>6, <1>9, <1>10 DEF IInv, Counters

\* A join returns to its function.
LEMMA BackFact ==
  ASSUME IInv, NEW p \in PA!VPs, PA!Back(p), vp[p].pc \in {"swap", "last", "delete"}
  PROVE  /\ ActsOnly(p) /\ vp'[p].frames = vp[p].frames /\ vp'[p].pc = "user"
         /\ joining' = [joining EXCEPT ![PA!Fn(p)] = NULL]
<1>1. DOMAIN vp = PA!VPs /\ DOMAIN vp[p] = Fields
  BY DEF IInv, PATypeOK
<1>2. vp' = [vp EXCEPT ![p].pc = "user", ![p].old = 0, ![p].new = 0]
  BY DEF PA!Back
<1>. QED BY <1>1, <1>2 DEF PA!Back, ActsOnly, Places, InFunction, Fields

LEMMA GotoFact ==
  ASSUME IInv, NEW p \in PA!VPs, NEW x \in Places, PA!Goto(p, x)
  PROVE  ActsOnly(p) /\ vp'[p].frames = vp[p].frames /\ vp'[p].pc = x
<1>1. DOMAIN vp = PA!VPs /\ DOMAIN vp[p] = Fields /\ vp' = [vp EXCEPT ![p].pc = x]
  BY DEF IInv, PATypeOK, PA!Goto
<1>. QED BY <1>1 DEF ActsOnly, Fields

\* The job of a join that is in dec_join_counter.
LEMMA JoinedFact ==
  ASSUME IInv, NEW p \in PA!VPs, vp[p].pc \in JoinPlaces
  PROVE  PA!Joined(p) \in PA!Jobs /\ joining[PA!Fn(p)] = PA!Joined(p) /\ vp[p].frames # <<>>
<1>1. vp[p].frames # <<>> /\ joining[PA!Fn(p)] # NULL
  BY DEF IInv, Shapes, ShapeAt, InFunction, JoinPlaces
<1>. QED BY <1>1, FnFact DEF IInv, PATypeOK, PA!Fns, PA!Joined

\* Steps after which the counter of j is as before and p is not about to
\* store in it.
LEMMA SameCounter ==
  ASSUME IInv, NEW p \in PA!VPs, NEW j \in PA!Jobs, JoinStep(p, j),
         num_joins'[j] = num_joins[j], vp'[p].pc \notin {"loadold", "swap"}
  PROVE  CoverAt(j)'
<1>1. /\ PATypeOK /\ CoverAt(j) /\ PA!Coming(j)' \subseteq PA!Coming(j)
      /\ \A q \in PA!VPs \ {p} : /\ vp'[q] = vp[q]
                                 /\ PA!Decrementing(q, j, {"loadold", "swap"})'
                                       <=> PA!Decrementing(q, j, {"loadold", "swap"})
  BY JoinStepFact DEF IInv, Counters
<1>2. ~PA!Decrementing(p, j, {"loadold", "swap"})'
  BY DEF PA!Decrementing
<1>3. \A q \in PA!VPs : PA!Decrementing(q, j, {"loadold", "swap"})' =>
             PA!Decrementing(q, j, {"loadold", "swap"}) /\ vp'[q].new = vp[q].new
  BY <1>1, <1>2
<1>. QED BY <1>1, <1>3, CoverKept
\* The first compare and swap: what it stores covers the other joins to come.
LEMMA SwapInv ==
  ASSUME IInv, NEW p \in PA!VPs, PA!Swap(p)
  PROVE  IInv'
<1>1. PICK j : j = PA!Joined(p)
  OBVIOUS
<1>2. /\ vp[p].pc = "swap" /\ vp[p].pc \in JoinPlaces
      /\ UNCHANGED <<job_list, PA!jobVars, deleted, handles>>
  BY DEF PA!Swap, PA!At, JoinPlaces
<1>3. j \in PA!Jobs /\ joining[PA!Fn(p)] = j /\ PA!Fn(p) \in PA!Fns
  BY <1>1, <1>2, JoinedFact, FnFact DEF IInv
<1>4. /\ num_joins \in [PA!Jobs -> Int] /\ deleted \subseteq PA!Jobs
      /\ CoverAt(j) /\ DeletedAt(j)
  BY <1>3 DEF IInv, PATypeOK, Counters
<1>5. /\ PA!Fn(p) \in PA!Coming(j) /\ Cardinality(PA!Coming(j)) > 0
      /\ IsFiniteSet(PA!Coming(j)) /\ Cardinality(PA!Coming(j)) \in Nat
      /\ PA!Decrementing(p, j, {"loadold", "swap"})
  BY <1>1, <1>2, <1>3, InComing, ComingFact DEF PA!Decrementing, IInv
<1>6. /\ vp[p].new \in Int /\ vp[p].new < Joins
      /\ Cardinality(PA!Coming(j)) <= vp[p].new + 1
  BY <1>4, <1>5 DEF CoverAt
<1>7. CASE /\ num_joins' = [num_joins EXCEPT ![j] = vp[p].new]
           /\ PA!Goto(p, "last") /\ UNCHANGED <<raced, joining>>
  <2>1. ActsOnly(p) /\ vp'[p].frames = vp[p].frames /\ vp'[p].pc = "last"
    BY <1>7, GotoFact DEF Places, InFunction
  <2>2. /\ num_joins' \in [PA!Jobs -> Int] /\ num_joins'[j] = vp[p].new
        /\ \A k \in PA!Jobs \ {j} : num_joins'[k] = num_joins[k]
    BY <1>3, <1>4, <1>6, <1>7
  <2>3. JoinStep(p, j)
    BY <1>2, <1>3, <1>4, <1>7, <2>1, <2>2 DEF JoinStep, JoinPlaces
  <2>4. /\ PATypeOK' /\ Shapes' /\ Unstarted' /\ Started' /\ Handles' /\ Ending'
        /\ PA!Coming(j)' \subseteq PA!Coming(j)
        /\ \A k \in PA!Jobs \ {j} : CoverAt(k)' /\ DeletedAt(k)'
        /\ PA!Fn(p)' = PA!Fn(p)
        /\ \A q \in PA!VPs \ {p} : /\ vp'[q] = vp[q]
                                   /\ PA!Decrementing(q, j, {"delete"})'
                                         <=> PA!Decrementing(q, j, {"delete"})
                                   /\ PA!Decrementing(q, j, {"loadold", "swap"})'
                                         <=> PA!Decrementing(q, j, {"loadold", "swap"})
    BY <1>3, <2>3, JoinStepFact
  <2>5. PA!Fn(p) \notin PA!Coming(j)'
    <3>1. PA!Decrementing(p, j, {"last", "delete"})'
      BY <1>3, <1>7, <2>1, <2>4 DEF PA!Decrementing, PA!Joined
    <3>2. PA!Fn(p)' \in PA!DecrementingAt(j, {"last", "delete"})'
      BY <3>1 DEF PA!DecrementingAt
    <3>. QED BY <2>4, <3>2 DEF PA!Coming
  <2>6. /\ Cardinality(PA!Coming(j)') \in Nat
        /\ Cardinality(PA!Coming(j)') <= Cardinality(PA!Coming(j)) - 1
    <3>1. IsFiniteSet(PA!Coming(j) \ {PA!Fn(p)})
          /\ Cardinality(PA!Coming(j) \ {PA!Fn(p)}) = Cardinality(PA!Coming(j)) - 1
      BY <1>5, FS_RemoveElement
    <3>2. PA!Coming(j)' \subseteq PA!Coming(j) \ {PA!Fn(p)}
      BY <2>4, <2>5
    <3>3. /\ Cardinality(PA!Coming(j)') <= Cardinality(PA!Coming(j) \ {PA!Fn(p)})
          /\ Cardinality(PA!Coming(j)') \in Nat
      BY <3>1, <3>2, FS_Subset, FS_CardinalityType
    <3>. QED BY <3>1, <3>3
  <2>7. CoverAt(j)'
    <3>1. ~PA!Decrementing(p, j, {"loadold", "swap"})'
      BY <2>1 DEF PA!Decrementing
    <3>2. ASSUME NEW q \in PA!VPs, PA!Decrementing(q, j, {"loadold", "swap"})'
          PROVE  /\ vp'[q].new \in Int /\ vp'[q].new < Joins
                 /\ Cardinality(PA!Coming(j)) <= vp'[q].new + 1
      BY <1>4, <2>4, <3>1, <3>2 DEF CoverAt
    <3>3. \A q \in PA!VPs : PA!Decrementing(q, j, {"loadold", "swap"})' =>
             /\ vp'[q].new \in Int /\ vp'[q].new < Joins
             /\ Cardinality(PA!Coming(j)') <= vp'[q].new + 1
             /\ num_joins'[j] = Joins => vp'[q].new = Joins - 1
      BY <1>5, <1>6, <2>2, <2>6, <3>2, ConstFact
    <3>4. num_joins'[j] <= Joins /\ Cardinality(PA!Coming(j)') <= num_joins'[j]
      BY <1>5, <1>6, <2>2, <2>6, ConstFact
    <3>. QED BY <3>3, <3>4 DEF CoverAt
  <2>8. DeletedAt(j)'
    <3>1. num_joins[j] # -1
      BY <1>4, <1>5 DEF CoverAt
    <3>2. ~PA!Decrementing(p, j, {"delete"})'
      BY <2>1 DEF PA!Decrementing
    <3>. QED BY <1>2, <1>4, <1>7, <2>4, <3>1, <3>2 DEF DeletedAt
  <2>. QED BY <2>4, <2>7, <2>8 DEF IInv, Counters
<1>8. CASE /\ raced' = raced \cup {j} /\ UNCHANGED num_joins
           /\ \/ PA!Goto(p, "delete") /\ UNCHANGED joining
              \/ PA!Back(p)
  <2>1. JoinStep(p, j) /\ vp'[p].pc \notin {"loadold", "swap"}
    <3>1. CASE PA!Goto(p, "delete") /\ UNCHANGED joining
      <4>1. ActsOnly(p) /\ vp'[p].frames = vp[p].frames /\ vp'[p].pc = "delete"
        BY <3>1, GotoFact DEF Places, InFunction
      <4>. QED BY <1>2, <1>3, <1>4, <1>8, <3>1, <4>1 DEF JoinStep, JoinPlaces
    <3>2. CASE PA!Back(p)
      <4>1. /\ ActsOnly(p) /\ vp'[p].frames = vp[p].frames /\ vp'[p].pc = "user"
            /\ joining' = [joining EXCEPT ![PA!Fn(p)] = NULL]
        BY <1>2, <3>2, BackFact
      <4>. QED BY <1>2, <1>3, <1>4, <1>8, <4>1 DEF JoinStep
    <3>. QED BY <1>8, <3>1, <3>2
  <2>2. CoverAt(j)'
    BY <1>3, <1>8, <2>1, SameCounter
  <2>3. DeletedAt(j)'
    BY <1>8 DEF DeletedAt
  <2>. QED BY <1>3, <2>1, <2>2, <2>3, JoinStepFact DEF IInv, Counters
<1>. QED BY <1>1, <1>7, <1>8 DEF PA!Swap

\* The second compare and swap: after the zero no join is to come.
LEMMA SwapLastInv ==
  ASSUME IInv, NEW p \in PA!VPs, PA!SwapLast(p)
  PROVE  IInv'
<1>1. PICK j : j = PA!Joined(p)
  OBVIOUS
<1>2. /\ vp[p].pc = "last" /\ vp[p].pc \in JoinPlaces
      /\ UNCHANGED <<job_list, PA!jobVars, deleted, raced, handles>>
  BY DEF PA!SwapLast, PA!At, JoinPlaces
<1>3. j \in PA!Jobs /\ joining[PA!Fn(p)] = j
  BY <1>1, <1>2, JoinedFact
<1>4. /\ num_joins \in [PA!Jobs -> Int] /\ deleted \subseteq PA!Jobs
      /\ CoverAt(j) /\ DeletedAt(j)
  BY <1>3 DEF IInv, PATypeOK, Counters
<1>5. CASE /\ num_joins[j] = 0 /\ num_joins' = [num_joins EXCEPT ![j] = -1]
           /\ PA!Goto(p, "delete") /\ UNCHANGED joining
  <2>1. ActsOnly(p) /\ vp'[p].frames = vp[p].frames /\ vp'[p].pc = "delete"
    BY <1>5, GotoFact DEF Places, InFunction
  <2>2. /\ num_joins' \in [PA!Jobs -> Int] /\ num_joins'[j] = -1
        /\ \A k \in PA!Jobs \ {j} : num_joins'[k] = num_joins[k]
    BY <1>3, <1>4, <1>5
  <2>3. JoinStep(p, j)
    BY <1>2, <1>3, <1>4, <1>5, <2>1, <2>2 DEF JoinStep, JoinPlaces
  <2>4. /\ PATypeOK' /\ Shapes' /\ Unstarted' /\ Started' /\ Handles' /\ Ending'
        /\ PA!Coming(j)' \subseteq PA!Coming(j)
        /\ \A k \in PA!Jobs \ {j} : CoverAt(k)' /\ DeletedAt(k)'
        /\ \A q \in PA!VPs \ {p} : /\ PA!Decrementing(q, j, {"delete"})'
                                      <=> PA!Decrementing(q, j, {"delete"})
                                   /\ PA!Decrementing(q, j, {"loadold", "swap"})'
                                         <=> PA!Decrementing(q, j, {"loadold", "swap"})
    BY <1>3, <2>3, JoinStepFact
  <2>5. PA!Coming(j) = {}
    <3>1. PA!Coming(j) # {} => Cardinality(PA!Coming(j)) <= 0 /\ Cardinality(PA!Coming(j)) \in Nat
      BY <1>3, <1>4, <1>5, ComingFact DEF CoverAt, IInv
    <3>2. IsFiniteSet(PA!Coming(j))
      BY <1>3, ComingFact DEF IInv
    <3>. QED BY <3>1, <3>2, FS_EmptySet
  <2>6. CoverAt(j)'
    <3>1. ~PA!Decrementing(p, j, {"loadold", "swap"})'
      BY <2>1 DEF PA!Decrementing
    <3>2. \A q \in PA!VPs : ~PA!Decrementing(q, j, {"loadold", "swap"})
      <4>. SUFFICES ASSUME NEW q \in PA!VPs, PA!Decrementing(q, j, {"loadold", "swap"})
                    PROVE  FALSE
        OBVIOUS
      <4>1. PA!Decrementing(q, j, {"load", "loadold", "loadnew", "swap"})
        BY DEF PA!Decrementing
      <4>. QED BY <1>3, <2>5, <4>1, InComing DEF IInv
    <3>. QED BY <2>2, <2>4, <2>5, <3>1, <3>2, ConstFact DEF CoverAt
  <2>7. DeletedAt(j)'
    <3>. SUFFICES ASSUME j \notin raced PROVE DeletedAt(j)'
      BY <1>2 DEF DeletedAt
    <3>1. /\ j \notin deleted /\ \A q \in PA!VPs : ~PA!Decrementing(q, j, {"delete"})
      BY <1>4, <1>5 DEF DeletedAt
    <3>. QED BY <1>2, <2>2, <2>4, <3>1 DEF DeletedAt
  <2>. QED BY <2>4, <2>6, <2>7 DEF IInv, Counters
<1>6. CASE PA!Back(p) /\ UNCHANGED num_joins
  <2>1. /\ ActsOnly(p) /\ vp'[p].frames = vp[p].frames /\ vp'[p].pc = "user"
        /\ joining' = [joining EXCEPT ![PA!Fn(p)] = NULL]
    BY <1>2, <1>6, BackFact
  <2>2. JoinStep(p, j)
    BY <1>2, <1>3, <1>4, <1>6, <2>1 DEF JoinStep
  <2>3. CoverAt(j)'
    BY <1>3, <1>6, <2>1, <2>2, SameCounter
  <2>4. DeletedAt(j)'
    <3>1. ~PA!Decrementing(p, j, {"delete"})'
      BY <2>1 DEF PA!Decrementing
    <3>2. \A q \in PA!VPs : PA!Decrementing(q, j, {"delete"})' => PA!Decrementing(q, j, {"delete"})
      BY <1>3, <2>2, <3>1, JoinStepFact
    <3>. QED BY <1>2, <1>3, <1>4, <1>6, <3>2, DeletedKept
  <2>. QED BY <1>3, <2>2, <2>3, <2>4, JoinStepFact DEF IInv, Counters
<1>. QED BY <1>1, <1>5, <1>6 DEF PA!SwapLast, PA!LastJoin

LEMMA DeleteInv ==
  ASSUME IInv, NEW p \in PA!VPs, PA!Delete(p)
  PROVE  IInv'
<1>1. PICK j : j = PA!Joined(p)
  OBVIOUS
<1>2. /\ vp[p].pc = "delete" /\ vp[p].pc \in JoinPlaces /\ deleted' = deleted \cup {j}
      /\ PA!Back(p) /\ UNCHANGED <<job_list, PA!jobVars, num_joins, raced, handles>>
  BY <1>1 DEF PA!Delete, PA!At, JoinPlaces
<1>3. j \in PA!Jobs /\ joining[PA!Fn(p)] = j
  BY <1>1, <1>2, JoinedFact
<1>4. num_joins \in [PA!Jobs -> Int] /\ deleted \subseteq PA!Jobs /\ DeletedAt(j)
  BY <1>3 DEF IInv, PATypeOK, Counters
<1>5. /\ ActsOnly(p) /\ vp'[p].frames = vp[p].frames /\ vp'[p].pc = "user"
      /\ joining' = [joining EXCEPT ![PA!Fn(p)] = NULL]
  BY <1>2, BackFact
<1>6. JoinStep(p, j)
  BY <1>2, <1>3, <1>4, <1>5 DEF JoinStep
<1>7. CoverAt(j)'
  BY <1>2, <1>3, <1>5, <1>6, SameCounter
<1>8. DeletedAt(j)'
  <2>1. PA!Decrementing(p, j, {"delete"}) /\ ~PA!Decrementing(p, j, {"delete"})'
    BY <1>1, <1>2, <1>5 DEF PA!Decrementing
  <2>2. \A q \in PA!VPs \ {p} :
          PA!Decrementing(q, j, {"delete"})' => PA!Decrementing(q, j, {"delete"})
    BY <1>3, <1>6, JoinStepFact
  <2>. QED BY <1>2, <1>4, <2>1, <2>2 DEF DeletedAt
<1>. QED BY <1>3, <1>6, <1>7, <1>8, JoinStepFact DEF IInv, Counters
-----------------------------------------------------------------------------
(* The theorems *)

LEMMA InitInv == PA!Init => IInv
<1>. SUFFICES ASSUME PA!Init PROVE IInv
  OBVIOUS
<1>1. /\ \A p \in PA!VPs : /\ DOMAIN vp[p] = Fields
                           /\ vp[p].pc = IF p = 0 THEN "user" ELSE "start"
                           /\ vp[p].frames = IF p = 0 THEN <<NULL>> ELSE <<>>
      /\ DOMAIN vp = PA!VPs /\ 0 \in PA!VPs
  BY ConstFact DEF PA!Init, Fields
<1>2. /\ job_list = [p \in PA!VPs |-> <<>>] /\ state = [j \in PA!Jobs |-> "new"]
      /\ num_joins = [j \in PA!Jobs |-> Joins] /\ deleted = {} /\ raced = {}
      /\ handles = [f \in PA!Fns |-> {}] /\ joining = [f \in PA!Fns |-> NULL]
      /\ executed = [j \in PA!Jobs |-> 0] /\ NULL \in PA!Fns /\ NULL \notin PA!Jobs
  BY ConstFact DEF PA!Init
<1>3. /\ <<NULL>> \in Seq(PA!Fns) /\ DOMAIN <<NULL>> = {1} /\ <<NULL>>[1] = NULL
      /\ <<NULL>> # <<>> /\ PA!Top(<<NULL>>) = NULL
  BY <1>2 DEF PA!Top
<1>4. PATypeOK
  <2>1. /\ joining \in [PA!Fns -> PA!Fns] /\ handles \in [PA!Fns -> SUBSET PA!Jobs]
        /\ executed \in [PA!Jobs -> {0, 1}] /\ num_joins \in [PA!Jobs -> Int]
        /\ state \in [PA!Jobs -> {"new", "ready", "running", "finished"}]
        /\ job_list \in [PA!VPs -> Seq(PA!Jobs)]
    BY <1>2, ConstFact, EmptySeq
  <2>2. \A p \in PA!VPs : vp[p].pc \in Places /\ vp[p].frames \in Seq(PA!Fns)
    BY <1>1, <1>3, EmptySeq DEF Places, InFunction, NoFunction
  <2>. QED BY <1>1, <1>2, <2>1, <2>2 DEF PATypeOK, Places
<1>5. Shapes
  <2>. SUFFICES ASSUME NEW p \in PA!VPs PROVE ShapeAt(p)
    BY DEF Shapes
  <2>1. vp[p].frames # <<>> => PA!Fn(p) = NULL
    BY <1>1, <1>3 DEF PA!Fn
  <2>2. CASE p = 0
    BY <1>1, <1>2, <1>3, <2>1, <2>2 DEF ShapeAt, InFunction, NoFunction
  <2>3. CASE p # 0
    BY <1>1, <1>2, <2>3 DEF ShapeAt, InFunction, NoFunction
  <2>. QED BY <2>2, <2>3
<1>6. \A p \in PA!VPs : /\ NoDup(job_list[p]) /\ NoDup(vp[p].frames) /\ Hand(p) = NULL
                        /\ \A x : ~In(x, job_list[p])
                        /\ \A x : In(x, vp[p].frames) => x = NULL /\ p = 0
  BY <1>1, <1>2, <1>3, EmptyFact DEF NoDup, In, Hand
<1>7. Unstarted
  BY <1>2, <1>6 DEF Unstarted, UnstartedAt
<1>8. Started
  <2>1. \A f \in PA!Fns : StartedAt(f)
    <3>. SUFFICES ASSUME NEW f \in PA!Fns PROVE StartedAt(f)
      OBVIOUS
    <3>1. \A p \in PA!VPs : In(f, vp[p].frames) => f = NULL /\ p = 0
      BY <1>6
    <3>. QED BY <3>1 DEF StartedAt
  <2>2. \A j \in PA!Jobs : executed[j] # 1
    BY <1>2
  <2>. QED BY <1>6, <2>1, <2>2 DEF Started
<1>9. \A j \in PA!Jobs : PA!Holders(j) = {}
  BY <1>2 DEF PA!Holders
<1>10. Handles
  <2>1. \A f \in PA!Fns : joining[f] = NULL /\ handles[f] = {}
    BY <1>2
  <2>. QED BY <1>2, <1>9, <2>1, ConstFact DEF Handles
<1>11. Counters
  <2>. SUFFICES ASSUME NEW j \in PA!Jobs PROVE CoverAt(j) /\ DeletedAt(j)
    BY DEF Counters
  <2>1. PA!Coming(j) = {}
    BY <1>9 DEF PA!Coming
  <2>2. \A p \in PA!VPs : vp[p].pc \notin JoinPlaces
    BY <1>1 DEF JoinPlaces
  <2>3. CoverAt(j)
    BY <1>2, <2>1, <2>2, ConstFact DEF CoverAt, PA!Decrementing, JoinPlaces
  <2>4. DeletedAt(j)
    BY <1>2, <2>2 DEF DeletedAt, PA!Decrementing, JoinPlaces
  <2>. QED BY <2>3, <2>4
<1>12. Ending
  BY <1>1 DEF Ending
<1>. QED BY <1>4, <1>5, <1>7, <1>8, <1>10, <1>11, <1>12 DEF IInv

LEMMA StutterInv == IInv /\ UNCHANGED PA!vars => IInv'
<1>. SUFFICES ASSUME IInv, UNCHANGED PA!vars PROVE IInv'
  OBVIOUS
<1>. USE DEF PA!vars, IInv
<1>1. PATypeOK'
  BY DEF PATypeOK
<1>2. Shapes'
  BY DEF Shapes, ShapeAt, PA!Fn
<1>3. Unstarted'
  BY DEF Unstarted, UnstartedAt, Hand
<1>4. Started'
  BY DEF Started, StartedAt
<1>5. Handles'
  BY DEF Handles, PA!Holders
<1>6. ASSUME NEW j \in PA!Jobs, NEW P
      PROVE  /\ \A p \in PA!VPs : PA!Decrementing(p, j, P)' <=> PA!Decrementing(p, j, P)
             /\ PA!DecrementingAt(j, P)' = PA!DecrementingAt(j, P)
  BY DEF PA!Decrementing, PA!DecrementingAt, PA!Joined, PA!Fn
<1>7. \A j \in PA!Jobs : PA!Coming(j)' = PA!Coming(j)
  BY <1>6 DEF PA!Coming, PA!Holders
<1>8. Counters'
  <2>. SUFFICES ASSUME NEW j \in PA!Jobs PROVE CoverAt(j)' /\ DeletedAt(j)'
    BY DEF Counters
  <2>1. PATypeOK /\ CoverAt(j) /\ DeletedAt(j)
    BY DEF Counters
  <2>2. CoverAt(j)'
    BY <1>6, <1>7, <2>1, CoverKept
  <2>3. DeletedAt(j)'
    BY <1>6, <2>1, DeletedKept
  <2>. QED BY <2>2, <2>3
<1>9. Ending'
  BY DEF Ending
<1>. QED BY <1>1, <1>2, <1>3, <1>4, <1>5, <1>8, <1>9

LEMMA NextInv == IInv /\ [PA!Next]_PA!vars => IInv'
<1>. SUFFICES ASSUME IInv, [PA!Next]_PA!vars PROVE IInv'
  OBVIOUS
<1>1. CASE PA!Terminate
  BY <1>1, TerminateInv
<1>2. CASE PA!JoinThreads
  BY <1>2, JoinThreadsInv
<1>3. ASSUME NEW p \in PA!VPs, PA!Step(p) PROVE IInv'
  <2>1. CASE PA!Begin(p)
    BY <2>1, BeginInv
  <2>2. CASE PA!GetJob(p)
    BY <2>2, GetNothingInv, GetSomethingInv
  <2>3. CASE PA!IdleAdd(p)
    BY <2>3, IdleAddInv
  <2>4. CASE PA!StealJob(p)
    BY <2>4, StealNothingInv, StealAndCallInv, StealAndHoldInv
  <2>5. CASE PA!IdleSub(p)
    BY <2>5, IdleSubNothingInv, IdleSubCallInv
  <2>6. CASE PA!Restore(p)
    BY <2>6, RestoreInv
  <2>7. CASE PA!Return(p)
    BY <2>7, ReturnInv
  <2>8. CASE PA!Check(p)
    BY <2>8, CheckInv
  <2>9. CASE PA!Load(p)
    BY <2>9, LoadInv
  <2>10. CASE PA!Swap(p)
    BY <2>10, SwapInv
  <2>11. CASE PA!SwapLast(p)
    BY <2>11, SwapLastInv
  <2>12. CASE PA!Delete(p)
    BY <2>12, DeleteInv
  <2>13. ASSUME NEW j \in PA!Jobs, PA!Join(p, j) PROVE IInv'
    BY <2>13, JoinInv
  <2>14. ASSUME NEW j \in PA!Jobs, NEW H \in SUBSET PA!Jobs, PA!Create(p, j, H) PROVE IInv'
    BY <2>14, CreateInv
  <2>. QED BY <1>3, <2>1, <2>2, <2>3, <2>4, <2>5, <2>6, <2>7, <2>8, <2>9, <2>10, <2>11,
              <2>12, <2>13, <2>14 DEF PA!Step
<1>4. CASE UNCHANGED PA!vars
  BY <1>4, StutterInv
<1>. QED BY <1>1, <1>2, <1>3, <1>4 DEF PA!Next

LEMMA Invariance == PA!Spec => []IInv
  BY InitInv, NextInv, PTL DEF PA!Spec

LEMMA CounterNeverTooLowAlone == PA!Spec => []PA!CounterCoversJoins
<1>1. IInv => PA!CounterCoversJoins
  BY SameCardinality DEF IInv, Counters, CoverAt, PA!CounterCoversJoins
<1>. QED BY <1>1, Invariance, PTL

LEMMA DeletedByLastJoinAlone == PA!Spec => []PA!UseAfterDeleteNeedsRace
<1>1. IInv => PA!UseAfterDeleteNeedsRace
  <2>. DEFINE before(j) == PA!DecrementingAt(j, {"load", "loadold", "loadnew", "swap", "last"})
  <2>. SUFFICES ASSUME IInv, NEW j \in deleted, NEW f \in PA!Holders(j) \ before(j),
                       j \notin raced
                PROVE  FALSE
    BY DEF PA!UseAfterDeleteNeedsRace
  <2>. HIDE DEF before
  <2>1. j \in PA!Jobs /\ CoverAt(j) /\ DeletedAt(j)
    BY DEF IInv, PATypeOK, Counters
  <2>2. num_joins[j] = -1 /\ \A p \in PA!VPs : ~PA!Decrementing(p, j, {"delete"})
    BY <2>1 DEF DeletedAt
  <2>3. PA!Coming(j) = {}
    BY <2>1, <2>2, ComingFact DEF CoverAt, IInv
  <2>4. PICK p \in PA!VPs : f = PA!Fn(p) /\ PA!Decrementing(p, j, {"last", "delete"})
    BY <2>3 DEF PA!Coming, PA!DecrementingAt
  <2>5. vp[p].pc = "last" /\ PA!Joined(p) = j
    BY <2>2, <2>4 DEF PA!Decrementing
  <2>6. PA!Decrementing(p, j, {"load", "loadold", "loadnew", "swap", "last"})
    BY <2>5 DEF PA!Decrementing
  <2>. QED BY <2>4, <2>6 DEF PA!DecrementingAt, before
<1>. QED BY <1>1, Invariance, PTL

LEMMA AllJobsRunAlone == PA!Spec => []PA!NothingLeftBehind
<1>1. IInv => PA!NothingLeftBehind
  <2>. SUFFICES ASSUME IInv, vp[0].pc = "done", NEW j \in PA!Jobs
                PROVE  executed[j] = IF state[j] = "new" THEN 0 ELSE 1
    BY DEF PA!NothingLeftBehind, PA!At
  <2>1. \A p \in PA!VPs : vp[p].pc \in {"left", "done"}
    BY DEF IInv, Ending
  <2>2. \A p \in PA!VPs : job_list[p] = <<>> /\ Hand(p) = NULL
    BY <2>1 DEF IInv, Shapes, ShapeAt, Hand, NoFunction
  <2>3. ~(executed[j] = 0 /\ state[j] # "new")
    BY <2>2, ConstFact, EmptyFact DEF IInv, Unstarted, UnstartedAt
  <2>. QED BY <2>3 DEF IInv, PATypeOK, Started
<1>. QED BY <1>1, Invariance, PTL

-----------------------------------------------------------------------------
(* The prototype in Prototypes *)

LEMMA OtherMachines ==
    /\ Init /\ machine = "pro_active" => PA!Init
    /\ [Next]_vars => machine' = machine
    /\ [Next]_vars /\ machine = "pro_active" => [PA!Next]_PA!vars
<1>1. Init /\ machine = "pro_active" => PA!Init BY DEF Init
<1>2. [Next]_vars => machine' = machine BY DEF Next, Event, Monitor, ProActive, vars
<1>3. ASSUME UNCHANGED vars PROVE UNCHANGED PA!vars
  BY <1>3 DEF vars, daemonVars, eventVars, monitorVars, proActiveVars,
              PA!vars, PA!attrVars, PA!userVars
<1>4. [Next]_vars /\ machine = "pro_active" => [PA!Next]_PA!vars
  BY <1>3 DEF Next, Event, Monitor, ProActive
<1> QED BY <1>1, <1>2, <1>4

LEMMA OneMachine ==
    Spec => [](machine # "pro_active") \/ ([](machine = "pro_active") /\ PA!Spec)
<1>1. Init /\ machine = "pro_active" => PA!Init BY OtherMachines
<1>2. machine # "pro_active" /\ [Next]_vars => (machine # "pro_active")' BY OtherMachines
<1>3. machine = "pro_active" /\ [Next]_vars => (machine = "pro_active")' BY OtherMachines
<1>4. machine = "pro_active" /\ [Next]_vars => [PA!Next]_PA!vars BY OtherMachines
<1>5. machine = "pro_active" \/ machine # "pro_active" OBVIOUS
<1> QED BY <1>1, <1>2, <1>3, <1>4, <1>5, PTL DEF Spec, PA!Spec

\* The compare and swaps of joins that meet only ever lose decrements: the
\* counter of a job covers all joins of it that are still to decrement it.
THEOREM CounterNeverTooLow == Spec => []CounterCoversJoins
<1>1. PA!CounterCoversJoins \/ machine # "pro_active" => CounterCoversJoins
  BY DEF CounterCoversJoins
<1> QED BY <1>1, OneMachine, CounterNeverTooLowAlone, PTL

\* A job none of whose decrements failed is deleted by its last join, after
\* which no join of it is left that could use or delete it again.
THEOREM DeletedByLastJoin == Spec => []UseAfterDeleteNeedsRace
<1>1. PA!UseAfterDeleteNeedsRace \/ machine # "pro_active" => UseAfterDeleteNeedsRace
  BY DEF UseAfterDeleteNeedsRace
<1> QED BY <1>1, OneMachine, DeletedByLastJoinAlone, PTL

\* When terminate returns every job that was created has run, once.
THEOREM AllJobsRun == Spec => []NothingLeftBehind
<1>1. PA!NothingLeftBehind \/ machine # "pro_active" => NothingLeftBehind BY DEF NothingLeftBehind
<1> QED BY <1>1, OneMachine, AllJobsRunAlone, PTL
=============================================================================
