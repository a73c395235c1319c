------------------------ MODULE VirtualProcessorProofs ------------------------
(***************************************************************************)
(* Proofs about the scheduler, for every number of VPs, every set of jobs  *)
(* and every join counter, as long as no job is run in place (Shallow).    *)
(* The last section needs no such bound: no job runs twice in any program. *)
(***************************************************************************)
EXTENDS VirtualProcessorInv, SequenceTheorems, TLAPS

-----------------------------------------------------------------------------
(* Sequences and positions *)

\* VP 0 exists and VPs are numbered.
LEMMA VPFact == N \in Nat /\ N > 0 /\ 0 \in VPs /\ VPs \subseteq Nat
  BY VPAssumption DEF VPs

\* A stack without its top.
LEMMA PopFact ==
  ASSUME NEW S, NEW s \in Seq(S), s # <<>>
  PROVE  /\ Pop(s) \in Seq(S) /\ Len(Pop(s)) = Len(s) - 1 /\ Len(s) \in Nat \ {0}
         /\ \A i \in 1 .. Len(s) - 1 : Pop(s)[i] = s[i]
         /\ Top(s) \in S /\ Len(s) \in 1 .. Len(s)
<1>1. Len(s) \in Nat /\ Len(s) > 0
  BY EmptySeq, LenProperties
<1>2. Top(s) \in S /\ \A i \in 1 .. Len(s) - 1 : s[i] \in S
  BY <1>1, ElementOfSeq DEF Top
<1>. DEFINE n == Len(s) - 1
            P == SubSeq(s, 1, n)
<1>3. n \in Nat /\ n - 1 + 1 = n /\ \A i \in 1 .. n : 1 + i - 1 = i
  BY <1>1
<1>. HIDE DEF n
<1>4. /\ P \in Seq(S)
      /\ Len(P) = IF 1 <= n THEN n - 1 + 1 ELSE 0
      /\ \A i \in 1 .. n - 1 + 1 : P[i] = s[1 + i - 1]
  BY <1>2, <1>3, SubSeqProperties DEF n
<1>5. P = Pop(s)
  BY DEF Pop, n
<1>. HIDE DEF P
<1>6. Len(P) = n
  BY <1>3, <1>4
<1>7. \A i \in 1 .. n : P[i] = s[i]
  BY <1>3, <1>4
<1>. QED BY <1>1, <1>2, <1>4, <1>5, <1>6, <1>7 DEF n

\* Popping what was pushed gives the stack back.
LEMMA PopAppend ==
  ASSUME NEW S, NEW s \in Seq(S), NEW x \in S
  PROVE  Pop(Append(s, x)) = s /\ Top(Append(s, x)) = x
<1>1. /\ Append(s, x) \in Seq(S) /\ Append(s, x) # <<>>
      /\ Len(Append(s, x)) = Len(s) + 1 /\ Len(s) \in Nat
      /\ \A i \in 1 .. Len(s) : Append(s, x)[i] = s[i]
      /\ Append(s, x)[Len(s) + 1] = x
  BY AppendProperties, LenProperties
<1>. DEFINE a == Append(s, x)
<1>. HIDE DEF a
<1>2. /\ a \in Seq(S) /\ a # <<>> /\ Len(a) = Len(s) + 1
      /\ \A i \in 1 .. Len(s) : a[i] = s[i]
      /\ a[Len(s) + 1] = x
  BY <1>1 DEF a
<1>3. /\ Pop(a) \in Seq(S) /\ Len(Pop(a)) = Len(a) - 1
      /\ \A i \in 1 .. Len(a) - 1 : Pop(a)[i] = a[i]
  BY <1>2, PopFact
<1>4. Len(Pop(a)) = Len(s) /\ \A i \in 1 .. Len(s) : Pop(a)[i] = s[i]
  BY <1>1, <1>2, <1>3
<1>5. Pop(a) = s
  BY <1>3, <1>4, SeqEqual
<1>6. Top(a) = x
  BY <1>2 DEF Top
<1>. QED BY <1>5, <1>6 DEF a

\* Pushing what was popped gives the stack back.
LEMMA AppendPop ==
  ASSUME NEW S, NEW s \in Seq(S), s # <<>>
  PROVE  Append(Pop(s), Top(s)) = s
<1>1. /\ Pop(s) \in Seq(S) /\ Len(Pop(s)) = Len(s) - 1 /\ Len(s) \in Nat \ {0}
      /\ \A i \in 1 .. Len(s) - 1 : Pop(s)[i] = s[i]
      /\ Top(s) \in S
  BY PopFact
<1>2. PICK t \in Seq(S) : t = Pop(s)
  BY <1>1
<1>3. PICK x \in S : x = Top(s)
  BY <1>1
<1>4. /\ Append(t, x) \in Seq(S) /\ Len(Append(t, x)) = Len(t) + 1
      /\ \A i \in 1 .. Len(t) : Append(t, x)[i] = t[i]
      /\ Append(t, x)[Len(t) + 1] = x
  BY AppendProperties
<1>5. Len(t) + 1 = Len(s) /\ s[Len(s)] = x /\ \A i \in 1 .. Len(s) - 1 : t[i] = s[i]
  BY <1>1, <1>2, <1>3 DEF Top
<1>6. PICK a \in Seq(S) : a = Append(t, x)
  BY <1>4
<1>7. Len(a) = Len(s) /\ \A i \in 1 .. Len(s) : a[i] = s[i]
  BY <1>1, <1>4, <1>5, <1>6
<1>8. a = s
  BY <1>7, SeqEqual
<1>. QED BY <1>2, <1>3, <1>6, <1>8

\* The stacks of a VP are sequences of functions.
LEMMA SeqTypes ==
  ASSUME TypeOK, NEW p \in VPs
  PROVE  /\ frames[p] \in Seq(Fns) /\ context_stack[p] \in Seq(Fns)
         /\ Len(frames[p]) \in Nat /\ Len(context_stack[p]) \in Nat
         /\ \A i \in 1 .. Len(frames[p]) : frames[p][i] \in Fns
<1>1. frames[p] \in Seq(Fns) /\ context_stack[p] \in Seq(Fns)
  <2>1. frames \in [VPs -> Seq(Fns)] /\ context_stack \in [VPs -> Seq(Fns)]
    BY DEF TypeOK
  <2>. QED BY <2>1
<1>2. ASSUME NEW t \in Seq(Fns)
      PROVE  Len(t) \in Nat /\ \A i \in 1 .. Len(t) : t[i] \in Fns
  BY LenProperties, ElementOfSeq
<1>. QED BY <1>1, <1>2

-----------------------------------------------------------------------------
(* Where jobs are *)

\* Nothing moves.
LEMMA StayPut ==
  ASSUME EveryJobInOnePlace,
         \A q \in VPs : frames'[q] = frames[q],
         \A j \in Jobs, q \in VPs :
            /\ j \in job_list'[q] <=> j \in job_list[q]
            /\ (InHand(q) /\ current_job[q] = j)' <=> InHand(q) /\ current_job[q] = j,
         \A j \in Jobs : state'[j] \in {"Ready", "Running"} <=>
                         state[j] \in {"Ready", "Running"}
  PROVE  EveryJobInOnePlace'
<1>1. \A j \in Jobs, q \in VPs : \A i : At(j, q, i)' <=> At(j, q, i)
  BY DEF At
<1>2. \A q \in VPs : -1 .. Len(frames'[q]) = -1 .. Len(frames[q])
  OBVIOUS
<1>3. \A j \in Jobs : NowhereElse(j)'
  BY <1>1, <1>2 DEF NowhereElse, EveryJobInOnePlace
<1>4. \A j \in Jobs : Somewhere(j)' <=> Somewhere(j)
  BY <1>1, <1>2 DEF Somewhere
<1>. QED BY <1>3, <1>4 DEF EveryJobInOnePlace

Pending(j) == state[j] \in {"Ready", "Running"}

\* EveryJobInOnePlace without the bounds on positions.
LEMMA PlaceForm ==
  ASSUME TypeOK
  PROVE  EveryJobInOnePlace <=>
           \A j \in Jobs :
             /\ \A p, q \in VPs : \A i, k \in Int :
                   At(j, p, i) /\ At(j, q, k) => p = q /\ i = k
             /\ (\E p \in VPs : \E i \in Int : At(j, p, i)) <=> Pending(j)
<1>1. \A q \in VPs : Len(frames[q]) \in Nat
  BY SeqTypes
<1>2. \A j \in Jobs, q \in VPs, i \in Int : At(j, q, i) => i \in -1 .. Len(frames[q])
  BY <1>1 DEF At
<1>3. \A j \in Jobs : Somewhere(j) <=> \E p \in VPs : \E i \in Int : At(j, p, i)
  BY <1>1, <1>2 DEF Somewhere
<1>4. \A j \in Jobs : NowhereElse(j) <=>
         \A p, q \in VPs : \A i, k \in Int :
            At(j, p, i) /\ At(j, q, k) => p = q /\ i = k
  BY <1>1, <1>2 DEF NowhereElse
<1>. QED BY <1>3, <1>4 DEF EveryJobInOnePlace, Pending

\* Every place is as before.
LEMMA SamePlaces ==
  ASSUME TypeOK, TypeOK', EveryJobInOnePlace, state' = state,
         \A j \in Jobs, q \in VPs, i \in Int : At(j, q, i)' <=> At(j, q, i)
  PROVE  EveryJobInOnePlace'
<1>1. \A j \in Jobs :
         /\ \A p, q \in VPs : \A i, k \in Int :
               At(j, p, i) /\ At(j, q, k) => p = q /\ i = k
         /\ (\E p \in VPs : \E i \in Int : At(j, p, i)) <=> Pending(j)
  BY PlaceForm
<1>2. \A j \in Jobs : Pending(j)' <=> Pending(j)
  BY DEF Pending
<1>3. \A j \in Jobs :
         /\ \A p, q \in VPs : \A i, k \in Int :
               At(j, p, i)' /\ At(j, q, k)' => p = q /\ i = k
         /\ (\E p \in VPs : \E i \in Int : At(j, p, i)') <=> Pending(j)'
  BY <1>1, <1>2
<1>4. EveryJobInOnePlace' <=>
         (\A j \in Jobs :
           /\ \A p, q \in VPs : \A i, k \in Int :
                 At(j, p, i) /\ At(j, q, k) => p = q /\ i = k
           /\ (\E p \in VPs : \E i \in Int : At(j, p, i)) <=> Pending(j))'
  BY PlaceForm, PTL
<1>. QED BY <1>3, <1>4

\* One pending job is now at some VP and position; the others stay.
LEMMA OneMoves ==
  ASSUME TypeOK, TypeOK', EveryJobInOnePlace,
         NEW j0 \in Jobs,
         \A j \in Jobs \ {j0} :
            /\ \A q \in VPs, i \in Int : At(j, q, i)' <=> At(j, q, i)
            /\ Pending(j)' <=> Pending(j),
         \E p0 \in VPs : \E i0 \in Int :
            \A q \in VPs, i \in Int : At(j0, q, i)' <=> q = p0 /\ i = i0,
         Pending(j0)'
  PROVE  EveryJobInOnePlace'
<1>1. \A j \in Jobs :
         /\ \A p, q \in VPs : \A i, k \in Int :
               At(j, p, i) /\ At(j, q, k) => p = q /\ i = k
         /\ (\E p \in VPs : \E i \in Int : At(j, p, i)) <=> Pending(j)
  BY PlaceForm
<1>2. \A j \in Jobs :
         /\ \A p, q \in VPs : \A i, k \in Int :
               At(j, p, i)' /\ At(j, q, k)' => p = q /\ i = k
         /\ (\E p \in VPs : \E i \in Int : At(j, p, i)') <=> Pending(j)'
  <2>. TAKE j \in Jobs
  <2>1. CASE j = j0
    BY <2>1
  <2>2. CASE j # j0
    BY <1>1, <2>2
  <2>. QED BY <2>1, <2>2
<1>3. EveryJobInOnePlace' <=>
         (\A j \in Jobs :
           /\ \A p, q \in VPs : \A i, k \in Int :
                 At(j, p, i) /\ At(j, q, k) => p = q /\ i = k
           /\ (\E p \in VPs : \E i \in Int : At(j, p, i)) <=> Pending(j))'
  BY PlaceForm, PTL
<1>. QED BY <1>2, <1>3

\* One job has left its place for good; the others stay.
LEMMA OneLeaves ==
  ASSUME TypeOK, TypeOK', EveryJobInOnePlace, NEW j0 \in Jobs,
         \A j \in Jobs \ {j0} :
            /\ \A q \in VPs, i \in Int : At(j, q, i)' <=> At(j, q, i)
            /\ Pending(j)' <=> Pending(j),
         \A q \in VPs, i \in Int : ~At(j0, q, i)',
         ~Pending(j0)'
  PROVE  EveryJobInOnePlace'
<1>1. \A j \in Jobs :
         /\ \A p, q \in VPs : \A i, k \in Int :
               At(j, p, i) /\ At(j, q, k) => p = q /\ i = k
         /\ (\E p \in VPs : \E i \in Int : At(j, p, i)) <=> Pending(j)
  BY PlaceForm
<1>2. \A j \in Jobs :
         /\ \A p, q \in VPs : \A i, k \in Int :
               At(j, p, i)' /\ At(j, q, k)' => p = q /\ i = k
         /\ (\E p \in VPs : \E i \in Int : At(j, p, i)') <=> Pending(j)'
  <2>. TAKE j \in Jobs
  <2>1. CASE j = j0
    BY <2>1
  <2>2. CASE j # j0
    BY <1>1, <2>2
  <2>. QED BY <2>1, <2>2
<1>3. EveryJobInOnePlace' <=>
         (\A j \in Jobs :
           /\ \A p, q \in VPs : \A i, k \in Int :
                 At(j, p, i) /\ At(j, q, k) => p = q /\ i = k
           /\ (\E p \in VPs : \E i \in Int : At(j, p, i)) <=> Pending(j))'
  BY PlaceForm, PTL
<1>. QED BY <1>2, <1>3
-----------------------------------------------------------------------------
(* A step of one VP *)

\* f is a function on q's stack or a job that q has in hand.
OnVP(f, q) == \/ \E i \in 1 .. Len(frames[q]) : frames[q][i] = f
              \/ InHand(q) /\ current_job[q] = f

LocalInv(q) == ShapeAt(q) /\ ContextAt(q) /\ HandAt(q) /\ IdleAt(q) /\ ResultAt(q)

\* What VP p leaves alone of VP q.
Untouched(q) ==
  /\ pc'[q] = pc[q] /\ frames'[q] = frames[q] /\ current_job'[q] = current_job[q]
  /\ context_stack'[q] = context_stack[q] /\ it'[q] = it[q]
  /\ job_list'[q] \subseteq job_list[q]
  /\ \A f \in Fns : OnVP(f, q) =>
        /\ joining'[f] = joining[f]
        /\ f # NULL => state'[f] = state[f] /\ result'[f] = result[f]

\* The top of a stack is one of its elements.
LEMMA TopOnVP ==
  ASSUME TypeOK, NEW q \in VPs, frames[q] # <<>>
  PROVE  /\ Fn(q) \in Fns /\ OnVP(Fn(q), q)
         /\ Len(frames[q]) \in 1 .. Len(frames[q]) /\ Fn(q) = frames[q][Len(frames[q])]
<1>1. frames[q] \in Seq(Fns)
  BY SeqTypes
<1>2. Top(frames[q]) \in Fns /\ Len(frames[q]) \in 1 .. Len(frames[q])
  BY <1>1, PopFact
<1>. QED BY <1>2 DEF OnVP, Fn, Top

\* What holds of a VP still holds when a step leaves the VP alone.
LEMMA OthersKept ==
  ASSUME TypeOK, NEW q \in VPs, LocalInv(q), Untouched(q),
         \A j \in Jobs : state[j] = "Finished" => state'[j] = "Finished"
  PROVE  LocalInv(q)'
<1>1. \A i \in 1 .. Len(frames[q]) : frames[q][i] \in Fns /\ OnVP(frames[q][i], q)
  BY SeqTypes DEF OnVP
<1>2. Fn(q)' = Fn(q)
  BY DEF Fn, Untouched
<1>3. ShapeAt(q)'
  <2>1. \A i \in 1 .. Len(frames[q]) : joining'[frames[q][i]] = joining[frames[q][i]]
    BY <1>1 DEF Untouched
  <2>. QED BY <2>1, <1>2 DEF ShapeAt, LocalInv, Untouched
<1>4. ContextAt(q)'
  BY <1>2 DEF ContextAt, LocalInv, Untouched
<1>5. HandAt(q)'
  BY DEF HandAt, LocalInv, Untouched
<1>6. IdleAt(q)'
  BY DEF IdleAt, InRunLoop, LocalInv, Untouched
<1>7. ResultAt(q)'
  <2>1. \A i \in 1 .. Len(frames[q]) :
           frames[q][i] # NULL => state'[frames[q][i]] = state[frames[q][i]]
    BY <1>1 DEF Untouched
  <2>2. pc[q] = "sub" /\ current_job[q] # NULL =>
           state'[current_job[q]] = state[current_job[q]]
    <3>1. current_job[q] \in Fns
      BY DEF TypeOK
    <3>. QED BY <3>1 DEF Untouched, OnVP, InHand
  <2>3. pc[q] = "return" => result'[Fn(q)] = result[Fn(q)]
    BY TopOnVP DEF Untouched, LocalInv, ShapeAt, InFunction
  <2>4. pc[q] \in {"read", "dec"} =>
          /\ joining'[Fn(q)] = joining[Fn(q)]
          /\ joining[Fn(q)] \in Jobs
    <3>. SUFFICES ASSUME pc[q] \in {"read", "dec"}
                  PROVE  /\ joining'[Fn(q)] = joining[Fn(q)]
                         /\ joining[Fn(q)] \in Jobs
      OBVIOUS
    <3>1. frames[q] # <<>>
      BY DEF LocalInv, ShapeAt, InFunction
    <3>2. joining[Fn(q)] # NULL
      BY <3>1, TopOnVP DEF LocalInv, ShapeAt
    <3>3. joining \in [Fns -> Fns]
      BY DEF TypeOK
    <3>. QED BY <3>1, <3>2, <3>3, TopOnVP DEF Untouched, Fns
  <2>5. pc[q] \in {"read", "dec"} => state'[joining'[Fn(q)]] = "Finished"
    BY <2>4 DEF LocalInv, ResultAt
  <2>. QED BY <1>2, <2>1, <2>2, <2>3, <2>5 DEF ResultAt, LocalInv, Untouched
<1>. QED BY <1>3, <1>4, <1>5, <1>6, <1>7 DEF LocalInv

\* To show that a step of VP p keeps the invariant it is enough to look at p,
\* at the joins and at the places of jobs.
LEMMA ActorStep ==
  ASSUME IInv, TypeOK', NEW p \in VPs, \A q \in VPs \ {p} : Untouched(q),
         \A j \in Jobs : state[j] = "Finished" => state'[j] = "Finished",
         pc[p] \notin {"start", "init", "left", "done"},
         pc'[p] \notin {"start", "init", "done"},
         LocalInv(p)', JoinersOnStack', EveryJobInOnePlace', ResultsKept'
  PROVE  IInv'
<1>1. \A q \in VPs : LocalInv(q)'
  <2>. TAKE q \in VPs
  <2>1. CASE q = p
    BY <2>1
  <2>2. CASE q # p
    BY <2>2, OthersKept DEF IInv, LocalInv
  <2>. QED BY <2>1, <2>2
<1>2. Phases'
  <2>1. 0 \in VPs /\ Phases
    BY VPFact DEF IInv
  <2>2. \A q \in VPs : q # p => pc'[q] = pc[q] /\ it'[q] = it[q]
    BY DEF Untouched
  <2>. QED BY <2>1, <2>2 DEF Phases
<1>. QED BY <1>1, <1>2 DEF IInv, LocalInv

\* Joins in progress stay on a stack when stacks only grow.
LEMMA JoinersKept ==
  ASSUME JoinersOnStack, joining' = joining,
         \A q \in VPs : \A i \in 1 .. Len(frames[q]) :
            i \in 1 .. Len(frames'[q]) /\ frames'[q][i] = frames[q][i]
  PROVE  JoinersOnStack'
BY DEF JoinersOnStack

\* A job on a VP is at a place there.
LEMMA OnVPAt ==
  ASSUME NEW j, NEW q \in VPs, OnVP(j, q)
  PROVE  \E i \in Int : At(j, q, i)
<1>1. CASE \E i \in 1 .. Len(frames[q]) : frames[q][i] = j
  BY <1>1 DEF At
<1>2. CASE InHand(q) /\ current_job[q] = j
  BY <1>2 DEF At
<1>. QED BY <1>1, <1>2 DEF OnVP

\* A job is at one place only.
LEMMA OnePlace ==
  ASSUME IInv, NEW j \in Jobs, NEW p \in VPs, NEW q \in VPs, NEW i \in Int, NEW k \in Int,
         At(j, p, i), At(j, q, k)
  PROVE  p = q /\ i = k /\ Pending(j)
BY PlaceForm DEF IInv

\* A job in p's hands, on p's stack or in a list is not at another VP.
LEMMA NotOnOther ==
  ASSUME IInv, NEW p \in VPs, NEW q \in VPs, q # p, NEW f \in Fns, OnVP(f, q)
  PROVE  ~OnVP(f, p)
<1>1. CASE f = NULL
  <2>. SUFFICES ASSUME OnVP(f, p) PROVE FALSE
    OBVIOUS
  <2>1. ASSUME NEW r \in VPs, OnVP(f, r) PROVE r = 0
    <3>1. InHand(r) => current_job[r] # NULL
      BY DEF InHand, IInv, HandAt
    <3>. QED BY <1>1, <2>1, <3>1 DEF OnVP, IInv, ShapeAt
  <2>. QED BY <2>1
<1>2. CASE f # NULL
  <2>. SUFFICES ASSUME OnVP(f, p) PROVE FALSE
    OBVIOUS
  <2>1. f \in Jobs
    BY <1>2 DEF Fns
  <2>. QED BY <2>1, OnVPAt, OnePlace
<1>. QED BY <1>1, <1>2

-----------------------------------------------------------------------------
(* The four ways in which a job changes place *)

\* From the list of v into the hands of p.
LEMMA Take ==
  ASSUME IInv, TypeOK', NEW p \in VPs, NEW v \in VPs, NEW x \in job_list[v],
         ~InHand(p), InHand(p)', current_job'[p] = x,
         \A q \in VPs : frames'[q] = frames[q],
         \A q \in VPs \ {p} : pc'[q] = pc[q] /\ current_job'[q] = current_job[q],
         \A q \in VPs \ {v} : job_list'[q] = job_list[q],
         job_list'[v] = job_list[v] \ {x}, state' = state
  PROVE  EveryJobInOnePlace'
<1>1. x \in Jobs /\ At(x, v, 0)
  BY DEF At, IInv, TypeOK
<1>2. \A q \in VPs, i \in Int : At(x, q, i) => q = v /\ i = 0
  BY <1>1, OnePlace
<1>3. \A q \in VPs \ {p} : InHand(q)' <=> InHand(q)
  BY DEF InHand
<1>4. \A j \in Jobs \ {x} : \A q \in VPs, i \in Int : At(j, q, i)' <=> At(j, q, i)
  BY <1>3 DEF At
<1>5. \A q \in VPs, i \in Int : At(x, q, i)' <=> q = p /\ i = -1
  BY <1>2, <1>3 DEF At
<1>6. Pending(x)
  BY <1>1, OnePlace
<1>7. \E p0 \in VPs : \E i0 \in Int :
         \A q \in VPs, i \in Int : At(x, q, i)' <=> q = p0 /\ i = i0
  <2>. WITNESS p \in VPs
  <2>. WITNESS -1 \in Int
  <2>. QED BY <1>5
<1>. QED BY <1>1, <1>4, <1>6, <1>7, OneMoves DEF Pending, IInv

\* From the hands of p onto its stack.
LEMMA Call ==
  ASSUME IInv, TypeOK', NEW p \in VPs, NEW x \in Jobs, current_job[p] = x,
         InHand(p), ~InHand(p)', frames'[p] = Append(frames[p], x),
         \A q \in VPs \ {p} : /\ pc'[q] = pc[q] /\ frames'[q] = frames[q]
                              /\ current_job'[q] = current_job[q],
         job_list' = job_list,
         \A j \in Jobs : Pending(j)' <=> Pending(j)
  PROVE  EveryJobInOnePlace'
<1>1. At(x, p, -1)
  BY DEF At
<1>2. \A q \in VPs, i \in Int : At(x, q, i) => q = p /\ i = -1
  BY <1>1, OnePlace
<1>3. \A q \in VPs \ {p} : InHand(q)' <=> InHand(q)
  BY DEF InHand
<1>4. PICK n \in Int :
      /\ Len(frames'[p]) = n /\ frames'[p][n] = x
      /\ \A i \in 1 .. n - 1 : frames'[p][i] = frames[p][i]
      /\ n > 0 /\ Len(frames[p]) = n - 1
  <2>1. frames[p] \in Seq(Fns) /\ x \in Fns
    BY SeqTypes DEF IInv, Fns
  <2>2. Len(frames[p]) + 1 \in Int
    BY <2>1, LenProperties
  <2>. QED BY <2>1, <2>2, AppendProperties, LenProperties
<1>5. \A j \in Jobs \ {x} : \A q \in VPs, i \in Int : At(j, q, i)' <=> At(j, q, i)
  <2>. TAKE j \in Jobs \ {x}
  <2>. TAKE q \in VPs, i \in Int
  <2>1. CASE q = p
    BY <1>4, <2>1 DEF At
  <2>2. CASE q # p
    BY <1>3, <2>2 DEF At
  <2>. QED BY <2>1, <2>2
<1>6. \A q \in VPs, i \in Int : At(x, q, i)' <=> q = p /\ i = n
  <2>. TAKE q \in VPs, i \in Int
  <2>1. CASE q = p
    BY <1>2, <1>4, <2>1 DEF At
  <2>2. CASE q # p
    BY <1>2, <1>3, <2>2 DEF At
  <2>. QED BY <2>1, <2>2
<1>7. Pending(x)'
  BY <1>1, OnePlace
<1>8. TypeOK /\ EveryJobInOnePlace
  BY DEF IInv
<1>9. \A j \in Jobs \ {x} :
         /\ \A q \in VPs, i \in Int : At(j, q, i)' <=> At(j, q, i)
         /\ Pending(j)' <=> Pending(j)
  BY <1>5
<1>10. \E p0 \in VPs : \E i0 \in Int :
          \A q \in VPs, i \in Int : At(x, q, i)' <=> q = p0 /\ i = i0
  BY <1>6
<1>. QED BY <1>7, <1>8, <1>9, <1>10, OneMoves

\* Into the list of p, when it is forked.
LEMMA Appear ==
  ASSUME IInv, TypeOK', NEW p \in VPs, NEW x \in Jobs, state[x] = "New",
         pc' = pc, frames' = frames, current_job' = current_job,
         \A q \in VPs \ {p} : job_list'[q] = job_list[q],
         job_list'[p] = job_list[p] \cup {x},
         \A j \in Jobs \ {x} : state'[j] = state[j], state'[x] = "Ready"
  PROVE  EveryJobInOnePlace'
<1>1. ~Pending(x)
  BY DEF Pending
<1>2. \A q \in VPs, i \in Int : ~At(x, q, i)
  BY <1>1, OnePlace
<1>3. \A q \in VPs : InHand(q)' <=> InHand(q)
  BY DEF InHand
<1>4. \A j \in Jobs \ {x} : \A q \in VPs, i \in Int : At(j, q, i)' <=> At(j, q, i)
  BY <1>3 DEF At
<1>5. \A q \in VPs, i \in Int : At(x, q, i)' <=> q = p /\ i = 0
  BY <1>2, <1>3 DEF At
<1>. QED BY <1>4, <1>5, OneMoves DEF Pending, IInv

\* Off the stack of p, when it has finished.
LEMMA Leave ==
  ASSUME IInv, TypeOK', NEW p \in VPs, NEW x \in Jobs, frames[p] # <<>>, Fn(p) = x,
         ~InHand(p), ~InHand(p)', frames'[p] = Pop(frames[p]),
         \A q \in VPs \ {p} : /\ pc'[q] = pc[q] /\ frames'[q] = frames[q]
                              /\ current_job'[q] = current_job[q],
         job_list' = job_list,
         \A j \in Jobs \ {x} : state'[j] = state[j], state'[x] = "Finished"
  PROVE  EveryJobInOnePlace'
<1>1. PICK n \in Nat \ {0} :
      /\ frames[p][n] = x /\ Len(frames[p]) = n /\ Len(frames'[p]) = n - 1
      /\ \A i \in 1 .. n - 1 : frames'[p][i] = frames[p][i]
  <2>1. frames[p] \in Seq(Fns)
    BY SeqTypes DEF IInv
  <2>2. /\ Len(Pop(frames[p])) = Len(frames[p]) - 1 /\ Len(frames[p]) \in Nat \ {0}
        /\ \A i \in 1 .. Len(frames[p]) - 1 : Pop(frames[p])[i] = frames[p][i]
    BY <2>1, PopFact
  <2>3. frames[p][Len(frames[p])] = x
    BY DEF Fn, Top
  <2>. QED BY <2>2, <2>3
<1>2. At(x, p, n)
  BY <1>1 DEF At
<1>3. \A q \in VPs, i \in Int : At(x, q, i) => q = p /\ i = n
  BY <1>1, <1>2, OnePlace
<1>4. \A q \in VPs \ {p} : InHand(q)' <=> InHand(q)
  BY DEF InHand
<1>5. \A j \in Jobs \ {x} : \A q \in VPs, i \in Int : At(j, q, i)' <=> At(j, q, i)
  <2>. TAKE j \in Jobs \ {x}
  <2>. TAKE q \in VPs, i \in Int
  <2>1. CASE q = p
    BY <1>1, <2>1 DEF At
  <2>2. CASE q # p
    BY <1>4, <2>2 DEF At
  <2>. QED BY <2>1, <2>2
<1>6. \A q \in VPs, i \in Int : ~At(x, q, i)'
  <2>. TAKE q \in VPs, i \in Int
  <2>1. CASE q = p
    <3>1. At(x, p, i)' => At(x, p, i) /\ i # n
      BY <1>1 DEF At
    <3>. QED BY <1>3, <2>1, <3>1
  <2>2. CASE q # p
    BY <1>3, <1>4, <2>2 DEF At
  <2>. QED BY <2>1, <2>2
<1>. QED BY <1>5, <1>6, OneLeaves DEF Pending, IInv

-----------------------------------------------------------------------------
(* Steps that change no stack, no join and no job object *)

\* ActorStep for such steps.
LEMMA QuietStep ==
  ASSUME IInv, TypeOK', NEW p \in VPs, UNCHANGED <<frames, state, joining, result>>,
         \A q \in VPs \ {p} :
            /\ pc'[q] = pc[q] /\ current_job'[q] = current_job[q]
            /\ context_stack'[q] = context_stack[q] /\ it'[q] = it[q],
         \A q \in VPs : job_list'[q] \subseteq job_list[q],
         pc[p] \notin {"start", "init", "left", "done"},
         pc'[p] \notin {"start", "init", "done"},
         ShapeAt(p)', ContextAt(p)', HandAt(p)', IdleAt(p)', ResultAt(p)',
         EveryJobInOnePlace'
  PROVE  IInv'
<1>1. \A q \in VPs \ {p} : Untouched(q)
  BY DEF Untouched
<1>2. JoinersOnStack'
  BY JoinersKept DEF IInv
<1>3. ResultsKept'
  BY DEF IInv, ResultsKept
<1>. QED BY <1>1, <1>2, <1>3, ActorStep DEF LocalInv

\* Nothing moves: the VP has no job in hand before or after.
LEMMA QuietStays ==
  ASSUME IInv, NEW p \in VPs, UNCHANGED <<frames, state, job_list>>,
         \A q \in VPs \ {p} : pc'[q] = pc[q] /\ current_job'[q] = current_job[q],
         ~InHand(p), ~InHand(p)'
  PROVE  EveryJobInOnePlace'
<1>1. \A j \in Jobs, q \in VPs :
         (InHand(q) /\ current_job[q] = j)' <=> InHand(q) /\ current_job[q] = j
  BY DEF InHand
<1>. QED BY <1>1, StayPut DEF IInv

\* The steal loop stays within vp_list and never asks its own VP.
LEMMA Scan ==
  ASSUME TypeOK, NEW p \in VPs, NEW i \in 0 .. N, ScanFrom(p, NextVictim(p, i))
  PROVE  /\ pc' \in [VPs -> PCs] /\ it' \in [VPs -> 0 .. N]
         /\ \A q \in VPs \ {p} : pc'[q] = pc[q] /\ it'[q] = it[q]
         /\ pc'[p] \in {"steal", AfterSteal(p)}
         /\ pc'[p] = "steal" => it'[p] \in VPs \ {p}
<1>1. N \in Nat \ {0} /\ p \in 0 .. N - 1
  BY VPAssumption DEF VPs
<1>2. PICK k \in 0 .. N : k = NextVictim(p, i) /\ k # p
  BY <1>1 DEF NextVictim
<1>3. pc \in [VPs -> PCs] /\ it \in [VPs -> 0 .. N]
  BY DEF TypeOK
<1>4. AfterSteal(p) \in PCs /\ AfterSteal(p) # "steal" /\ "steal" \in PCs
  BY DEF AfterSteal, PCs
<1>5. CASE k < N
  <2>1. k \in VPs /\ pc' = [pc EXCEPT ![p] = "steal"] /\ it' = [it EXCEPT ![p] = k]
    BY <1>1, <1>2, <1>5 DEF ScanFrom, VPs
  <2>. QED BY <1>2, <1>3, <1>4, <2>1
<1>6. CASE ~(k < N)
  <2>1. pc' = [pc EXCEPT ![p] = AfterSteal(p)] /\ it' = [it EXCEPT ![p] = 1]
    BY <1>2, <1>6 DEF ScanFrom
  <2>. QED BY <1>1, <1>3, <1>4, <2>1
<1>. QED BY <1>5, <1>6

\* get_job takes a job from the own list.
LEMMA GetJobInv ==
  ASSUME IInv, NEW p \in VPs, GetJob(p)
  PROVE  IInv'
<1>0. PICK x \in job_list[p] :
        /\ job_list' = [job_list EXCEPT ![p] = @ \ {x}]
        /\ current_job' = [current_job EXCEPT ![p] = x]
  BY DEF GetJob, Extracted
<1>1. /\ pc[p] = "get" /\ pc' = [pc EXCEPT ![p] = "getcas"]
      /\ UNCHANGED <<frames, context_stack, it, idle_vps, state, parent, result,
                     join_counter, deleted, forker, joining, session>>
  BY DEF GetJob, jobVars, userVars
<1>2. TypeOK /\ LocalInv(p) /\ x \in Jobs /\ x # NULL
  BY VPAssumption DEF IInv, LocalInv, TypeOK
<1>3. pc'[p] = "getcas" /\ current_job'[p] = x
  BY <1>0, <1>1, <1>2 DEF TypeOK
<1>4. TypeOK'
  BY <1>0, <1>1, <1>2 DEF TypeOK, PCs, Fns
<1>5. ShapeAt(p)'
  BY <1>1, <1>2, <1>3 DEF LocalInv, ShapeAt, InFunction, NoFunction
<1>6. ContextAt(p)'
  BY <1>1, <1>2, <1>3 DEF LocalInv, ContextAt, InFunction
<1>7. HandAt(p)' /\ IdleAt(p)'
  BY <1>2, <1>3 DEF HandAt, IdleAt, NoFunction
<1>8. ResultAt(p)'
  BY <1>1, <1>2, <1>3 DEF LocalInv, ResultAt
<1>9. EveryJobInOnePlace'
  BY <1>0, <1>1, <1>2, <1>3, <1>4, Take DEF InHand, TypeOK
<1>10. /\ \A q \in VPs \ {p} : pc'[q] = pc[q] /\ current_job'[q] = current_job[q]
       /\ \A q \in VPs : job_list'[q] \subseteq job_list[q]
  BY <1>0, <1>1, <1>2 DEF TypeOK
<1>. QED BY <1>1, <1>3, <1>4, <1>5, <1>6, <1>7, <1>8, <1>9, <1>10, QuietStep

\* steal_job takes a job from another VP's list.
LEMMA StealJobInv ==
  ASSUME IInv, NEW p \in VPs, StealJob(p)
  PROVE  IInv'
<1>0. PICK x \in job_list[it[p]] :
        /\ job_list' = [job_list EXCEPT ![it[p]] = @ \ {x}]
        /\ current_job' = [current_job EXCEPT ![p] = x]
  BY DEF StealJob, Extracted
<1>1. /\ pc[p] = "steal" /\ pc' = [pc EXCEPT ![p] = "stealcas"]
      /\ it' = [it EXCEPT ![p] = 1]
      /\ UNCHANGED <<frames, context_stack, idle_vps, state, parent, result,
                     join_counter, deleted, forker, joining, session>>
  BY DEF StealJob, jobVars, userVars
<1>2. /\ TypeOK /\ LocalInv(p) /\ it[p] \in VPs \ {p} /\ 1 \in 0 .. N
      /\ x \in Jobs /\ x # NULL
  BY <1>1, VPAssumption DEF IInv, LocalInv, TypeOK
<1>3. pc'[p] = "stealcas" /\ current_job'[p] = x
  BY <1>0, <1>1, <1>2 DEF TypeOK
<1>4. TypeOK'
  BY <1>0, <1>1, <1>2 DEF TypeOK, PCs, Fns
<1>5. ShapeAt(p)'
  BY <1>1, <1>2, <1>3 DEF LocalInv, ShapeAt, InFunction, NoFunction
<1>6. ContextAt(p)'
  BY <1>1, <1>2, <1>3 DEF LocalInv, ContextAt, InFunction
<1>7. HandAt(p)' /\ IdleAt(p)'
  <2>1. job_list'[p] = job_list[p]
    BY <1>0, <1>2 DEF TypeOK
  <2>. QED BY <1>1, <1>2, <1>3, <2>1 DEF LocalInv, HandAt, IdleAt, InRunLoop, NoFunction
<1>8. ResultAt(p)'
  BY <1>1, <1>2, <1>3 DEF LocalInv, ResultAt
<1>9. EveryJobInOnePlace'
  <2>1. PICK v \in VPs : v = it[p]
    BY <1>2
  <2>2. /\ \A q \in VPs \ {v} : job_list'[q] = job_list[q]
        /\ job_list'[v] = job_list[v] \ {x} /\ x \in job_list[v]
    BY <1>0, <1>2, <2>1 DEF TypeOK
  <2>3. \A q \in VPs \ {p} : pc'[q] = pc[q] /\ current_job'[q] = current_job[q]
    BY <1>0, <1>1, <1>2 DEF TypeOK
  <2>. QED BY <1>1, <1>3, <1>4, <2>2, <2>3, Take DEF InHand
<1>10. /\ \A q \in VPs \ {p} : /\ pc'[q] = pc[q] /\ current_job'[q] = current_job[q]
                               /\ it'[q] = it[q]
       /\ \A q \in VPs : job_list'[q] \subseteq job_list[q]
  BY <1>0, <1>1, <1>2 DEF TypeOK
<1>. QED BY <1>1, <1>3, <1>4, <1>5, <1>6, <1>7, <1>8, <1>9, <1>10, QuietStep

\* get_job finds the own list empty.
LEMMA GetNothingInv ==
  ASSUME IInv, NEW p \in VPs, GetNothing(p)
  PROVE  IInv'
<1>1. /\ pc[p] = "get" /\ job_list[p] = {}
      /\ current_job' = [current_job EXCEPT ![p] = NULL]
      /\ UNCHANGED <<frames, context_stack, job_list, idle_vps, state, parent, result,
                     join_counter, deleted, forker, joining, session>>
  BY DEF GetNothing, jobVars, userVars
<1>2. TypeOK /\ LocalInv(p) /\ N \in Nat /\ 0 \in 0 .. N
  BY VPAssumption DEF IInv, LocalInv
<1>3. /\ pc' \in [VPs -> PCs] /\ it' \in [VPs -> 0 .. N]
      /\ \A q \in VPs \ {p} : pc'[q] = pc[q] /\ it'[q] = it[q]
      /\ pc'[p] = "steal" => it'[p] \in VPs \ {p}
      /\ pc'[p] = "idle" => frames[p] = <<>>
      /\ pc'[p] \in {"steal", "restore"} => frames[p] # <<>>
      /\ pc'[p] \in {"idle", "steal", "restore"}
  <2>1. CASE InRunLoop(p)
    <3>1. pc' = [pc EXCEPT ![p] = "idle"] /\ it' = it /\ frames[p] = <<>>
      BY <2>1 DEF GetNothing, InRunLoop
    <3>2. pc \in [VPs -> PCs] /\ it \in [VPs -> 0 .. N] /\ "idle" \in PCs
      BY <1>2 DEF TypeOK, PCs
    <3>. QED BY <3>1, <3>2
  <2>2. CASE ~InRunLoop(p)
    <3>1. ScanFrom(p, NextVictim(p, 0)) /\ AfterSteal(p) = "restore"
      BY <2>2 DEF GetNothing, AfterSteal
    <3>. QED BY <1>2, <2>2, <3>1, Scan DEF InRunLoop
  <2>. QED BY <2>1, <2>2
<1>4. current_job'[p] = NULL /\ \A q \in VPs \ {p} : current_job'[q] = current_job[q]
  BY <1>1, <1>2 DEF TypeOK
<1>5. TypeOK'
  BY <1>1, <1>2, <1>3 DEF TypeOK, Fns
<1>6. ShapeAt(p)'
  BY <1>1, <1>2, <1>3 DEF LocalInv, ShapeAt, InFunction, NoFunction
<1>7. ContextAt(p)'
  BY <1>1, <1>2, <1>3 DEF LocalInv, ContextAt, InFunction
<1>8. HandAt(p)' /\ IdleAt(p)'
  BY <1>1, <1>3, <1>4 DEF HandAt, IdleAt
<1>9. ResultAt(p)'
  BY <1>1, <1>2, <1>3 DEF LocalInv, ResultAt
<1>10. EveryJobInOnePlace'
  BY <1>1, <1>3, <1>4, QuietStays DEF InHand
<1>. QED BY <1>1, <1>3, <1>4, <1>5, <1>6, <1>7, <1>8, <1>9, <1>10, QuietStep

\* run() counts the VP as idle.
LEMMA IdleAddInv ==
  ASSUME IInv, NEW p \in VPs, IdleAdd(p)
  PROVE  IInv'
<1>1. /\ pc[p] = "idle" /\ idle_vps' = idle_vps + 1
      /\ UNCHANGED <<frames, current_job, context_stack, job_list, state, parent, result,
                     join_counter, deleted, forker, joining, session>>
  BY DEF IdleAdd, jobVars, userVars
<1>2. TypeOK /\ LocalInv(p) /\ N \in Nat /\ 0 \in 0 .. N
  BY VPAssumption DEF IInv, LocalInv
<1>3. frames[p] = <<>> /\ current_job[p] = NULL /\ job_list[p] = {} /\ InRunLoop(p)
  BY <1>1, <1>2 DEF LocalInv, ShapeAt, HandAt, IdleAt, NoFunction, InRunLoop
<1>4. /\ pc' \in [VPs -> PCs] /\ it' \in [VPs -> 0 .. N]
      /\ \A q \in VPs \ {p} : pc'[q] = pc[q] /\ it'[q] = it[q]
      /\ pc'[p] = "steal" => it'[p] \in VPs \ {p}
      /\ pc'[p] \in {"left", "steal", "sub"}
  <2>1. CASE LastIdle(idle_vps + 1)
    <3>1. pc' = [pc EXCEPT ![p] = "left"] /\ it' = it
      BY <2>1 DEF IdleAdd
    <3>. QED BY <1>2, <3>1 DEF TypeOK, PCs
  <2>2. CASE ~LastIdle(idle_vps + 1)
    <3>1. ScanFrom(p, NextVictim(p, 0)) /\ AfterSteal(p) = "sub"
      BY <1>3, <2>2 DEF IdleAdd, AfterSteal
    <3>. QED BY <1>2, <3>1, Scan
  <2>. QED BY <2>1, <2>2
<1>5. TypeOK'
  <2>1. idle_vps' \in Int
    BY <1>1, <1>2 DEF TypeOK
  <2>. QED BY <1>1, <1>2, <1>4, <2>1 DEF TypeOK
<1>6. ShapeAt(p)'
  BY <1>1, <1>2, <1>3, <1>4 DEF LocalInv, ShapeAt, InFunction, NoFunction
<1>7. ContextAt(p)'
  BY <1>1, <1>2, <1>4 DEF LocalInv, ContextAt, InFunction
<1>8. HandAt(p)' /\ IdleAt(p)'
  BY <1>1, <1>3, <1>4 DEF HandAt, IdleAt
<1>9. ResultAt(p)'
  BY <1>1, <1>2, <1>3, <1>4 DEF LocalInv, ResultAt
<1>10. EveryJobInOnePlace'
  BY <1>1, <1>3, <1>4, QuietStays DEF InHand
<1>. QED BY <1>1, <1>4, <1>5, <1>6, <1>7, <1>8, <1>9, <1>10, QuietStep

\* steal_job finds another VP's list empty.
LEMMA StealNothingInv ==
  ASSUME IInv, NEW p \in VPs, StealNothing(p)
  PROVE  IInv'
<1>1. /\ pc[p] = "steal" /\ ScanFrom(p, NextVictim(p, it[p] + 1))
      /\ UNCHANGED <<frames, current_job, context_stack, job_list, idle_vps, state, parent,
                     result, join_counter, deleted, forker, joining, session>>
  BY DEF StealNothing, jobVars, userVars
<1>2. TypeOK /\ LocalInv(p) /\ current_job[p] = NULL /\ it[p] + 1 \in 0 .. N
  <2>1. TypeOK /\ LocalInv(p) /\ current_job[p] = NULL
    BY <1>1 DEF IInv, LocalInv, HandAt
  <2>2. it[p] \in VPs
    BY <1>1, <2>1 DEF TypeOK
  <2>. QED BY <2>1, <2>2, VPAssumption DEF VPs
<1>3. /\ pc' \in [VPs -> PCs] /\ it' \in [VPs -> 0 .. N]
      /\ \A q \in VPs \ {p} : pc'[q] = pc[q] /\ it'[q] = it[q]
      /\ pc'[p] = "steal" => it'[p] \in VPs \ {p}
      /\ pc'[p] \in {"steal", AfterSteal(p)}
  BY <1>1, <1>2, Scan
<1>4. /\ pc'[p] \in {"steal", "sub", "restore"}
      /\ pc'[p] = "sub" => frames[p] = <<>>
      /\ pc'[p] = "restore" => frames[p] # <<>>
  BY <1>3 DEF AfterSteal, InRunLoop
<1>5. TypeOK'
  BY <1>1, <1>2, <1>3 DEF TypeOK
<1>6. ShapeAt(p)'
  BY <1>1, <1>2, <1>4 DEF LocalInv, ShapeAt, InFunction, NoFunction
<1>7. ContextAt(p)'
  BY <1>1, <1>2, <1>4 DEF LocalInv, ContextAt, InFunction
<1>8. HandAt(p)' /\ IdleAt(p)'
  BY <1>1, <1>2, <1>4 DEF LocalInv, HandAt, IdleAt, InRunLoop, NoFunction
<1>9. ResultAt(p)'
  BY <1>1, <1>2, <1>4 DEF LocalInv, ResultAt
<1>10. EveryJobInOnePlace'
  BY <1>1, <1>2, <1>3, <1>4, QuietStays DEF InHand
<1>. QED BY <1>1, <1>3, <1>4, <1>5, <1>6, <1>7, <1>8, <1>9, <1>10, QuietStep

-----------------------------------------------------------------------------
(* Suspending and restoring a job, and the end of a join *)

\* join_job suspends the current job.
LEMMA SuspendInv ==
  ASSUME IInv, NEW p \in VPs, Suspend(p)
  PROVE  IInv'
<1>1. /\ pc[p] = "check" /\ pc' = [pc EXCEPT ![p] = "get"]
      /\ context_stack' = [context_stack EXCEPT ![p] = Append(@, current_job[p])]
      /\ UNCHANGED <<frames, current_job, it, job_list, idle_vps, state, parent,
                     result, join_counter, deleted, forker, joining, session>>
  BY DEF Suspend, jobVars, userVars
<1>2. /\ TypeOK /\ LocalInv(p) /\ frames[p] # <<>>
      /\ current_job[p] = Fn(p) /\ context_stack[p] = Pop(frames[p])
  BY <1>1 DEF IInv, LocalInv, ShapeAt, ContextAt, InFunction
<1>3. /\ pc'[p] = "get" /\ \A q \in VPs \ {p} : pc'[q] = pc[q]
      /\ \A q \in VPs \ {p} : context_stack'[q] = context_stack[q]
  BY <1>1, <1>2 DEF TypeOK
<1>4. context_stack'[p] = frames[p]
  <2>1. frames[p] \in Seq(Fns) /\ context_stack[p] \in Seq(Fns)
    BY <1>2, SeqTypes
  <2>2. Append(Pop(frames[p]), Top(frames[p])) = frames[p]
    BY <1>2, <2>1, AppendPop
  <2>3. context_stack'[p] = Append(context_stack[p], current_job[p])
    BY <1>1, <1>2 DEF TypeOK
  <2>. QED BY <1>2, <2>2, <2>3 DEF Fn
<1>5. TypeOK'
  <2>1. context_stack' \in [VPs -> Seq(Fns)]
    <3>1. context_stack \in [VPs -> Seq(Fns)] /\ context_stack'[p] \in Seq(Fns)
      BY <1>2, <1>4, SeqTypes DEF TypeOK
    <3>. QED BY <1>1, <3>1
  <2>. QED BY <1>1, <1>2, <2>1 DEF TypeOK, PCs
<1>6. ShapeAt(p)'
  BY <1>1, <1>2, <1>3 DEF LocalInv, ShapeAt, InFunction, NoFunction
<1>7. ContextAt(p)'
  BY <1>1, <1>3, <1>4 DEF ContextAt, InFunction
<1>8. HandAt(p)' /\ IdleAt(p)'
  BY <1>3 DEF HandAt, IdleAt, NoFunction
<1>9. ResultAt(p)'
  BY <1>1, <1>2, <1>3 DEF LocalInv, ResultAt
<1>10. EveryJobInOnePlace'
  BY <1>1, <1>3, QuietStays DEF InHand
<1>. QED BY <1>1, <1>3, <1>5, <1>6, <1>7, <1>8, <1>9, <1>10, QuietStep

\* The suspended job becomes current again.
LEMMA RestoreInv ==
  ASSUME IInv, NEW p \in VPs, Restore(p)
  PROVE  IInv'
<1>1. /\ pc[p] = "restore" /\ pc' = [pc EXCEPT ![p] = "check"]
      /\ current_job' = [current_job EXCEPT ![p] = Top(context_stack[p])]
      /\ context_stack' = [context_stack EXCEPT ![p] = Pop(@)]
      /\ UNCHANGED <<frames, it, job_list, idle_vps, state, parent,
                     result, join_counter, deleted, forker, joining, session>>
  BY DEF Restore, jobVars, userVars
<1>2. TypeOK /\ LocalInv(p) /\ frames[p] # <<>> /\ context_stack[p] = frames[p]
  BY <1>1 DEF IInv, LocalInv, ShapeAt, ContextAt, InFunction
<1>3. /\ pc'[p] = "check" /\ \A q \in VPs \ {p} : pc'[q] = pc[q]
      /\ \A q \in VPs \ {p} : /\ context_stack'[q] = context_stack[q]
                              /\ current_job'[q] = current_job[q]
      /\ context_stack'[p] = Pop(frames[p]) /\ current_job'[p] = Fn(p)
  BY <1>1, <1>2 DEF TypeOK, Fn
<1>4. Pop(frames[p]) \in Seq(Fns) /\ Fn(p) \in Fns
  BY <1>2, SeqTypes, PopFact, TopOnVP
<1>5. TypeOK'
  <2>1. context_stack' \in [VPs -> Seq(Fns)] /\ current_job' \in [VPs -> Fns]
    BY <1>1, <1>2, <1>4 DEF TypeOK, Fn
  <2>. QED BY <1>1, <1>2, <2>1 DEF TypeOK, PCs
<1>6. ShapeAt(p)'
  BY <1>1, <1>2, <1>3 DEF LocalInv, ShapeAt, InFunction, NoFunction
<1>7. ContextAt(p)'
  BY <1>1, <1>3 DEF ContextAt, InFunction, Fn
<1>8. HandAt(p)' /\ IdleAt(p)'
  BY <1>3 DEF HandAt, IdleAt, NoFunction
<1>9. ResultAt(p)'
  BY <1>1, <1>2, <1>3 DEF LocalInv, ResultAt
<1>10. EveryJobInOnePlace'
  BY <1>1, <1>3, QuietStays DEF InHand
<1>. QED BY <1>1, <1>3, <1>5, <1>6, <1>7, <1>8, <1>9, <1>10, QuietStep

\* join_job sees the job finished and reads its result.
LEMMA JoinCheckReadInv ==
  ASSUME IInv, NEW p \in VPs, JoinCheck(p) \/ JoinRead(p)
  PROVE  IInv'
<1>1. /\ UNCHANGED <<frames, current_job, context_stack, it, job_list, idle_vps, state, parent,
                     result, join_counter, deleted, forker, joining, session>>
      /\ \/ /\ pc[p] = "check" /\ pc' = [pc EXCEPT ![p] = "read"]
            /\ state[joining[Fn(p)]] = "Finished"
         \/ pc[p] = "read" /\ pc' = [pc EXCEPT ![p] = "dec"]
  BY DEF JoinCheck, JoinRead, CanReturn, privVars, jobVars, userVars
<1>2. TypeOK /\ LocalInv(p)
  BY DEF IInv, LocalInv
<1>3. pc'[p] \in {"read", "dec"} /\ \A q \in VPs \ {p} : pc'[q] = pc[q]
  BY <1>1, <1>2 DEF TypeOK
<1>5. TypeOK'
  <2>1. pc' \in [VPs -> PCs]
    BY <1>1, <1>2 DEF TypeOK, PCs
  <2>. QED BY <1>1, <1>2, <1>3, <2>1 DEF TypeOK
<1>6. ShapeAt(p)'
  BY <1>1, <1>2, <1>3 DEF LocalInv, ShapeAt, InFunction, NoFunction
<1>7. ContextAt(p)'
  BY <1>1, <1>2, <1>3 DEF LocalInv, ContextAt, InFunction, Fn
<1>8. HandAt(p)' /\ IdleAt(p)'
  BY <1>3 DEF HandAt, IdleAt, NoFunction
<1>9. ResultAt(p)'
  BY <1>1, <1>2, <1>3 DEF LocalInv, ResultAt, Fn
<1>10. EveryJobInOnePlace'
  BY <1>1, <1>3, QuietStays DEF InHand
<1>. QED BY <1>1, <1>3, <1>5, <1>6, <1>7, <1>8, <1>9, <1>10, QuietStep

-----------------------------------------------------------------------------
(* A VP starts the job it has in hand *)

\* The job in hand is pending, in no join, and at no other VP.
LEMMA InHandFact ==
  ASSUME IInv, NEW p \in VPs, InHand(p)
  PROVE  /\ current_job[p] \in Jobs /\ Pending(current_job[p])
         /\ joining[current_job[p]] = NULL
         /\ \A q \in VPs \ {p} : ~OnVP(current_job[p], q)
<1>. DEFINE x == current_job[p]
<1>1. x \in Jobs
  <2>1. x \in Fns /\ x # NULL
    BY DEF IInv, TypeOK, HandAt, InHand
  <2>. QED BY <2>1 DEF Fns
<1>2. At(x, p, -1)
  BY DEF At
<1>3. Pending(x)
  BY <1>1, <1>2, OnePlace
<1>4. joining[x] = NULL
  <2>1. ASSUME NEW q \in VPs, NEW i \in 1 .. Len(frames[q]), frames[q][i] = x
        PROVE  FALSE
    <3>1. At(x, q, i) /\ i \in Int /\ i > 0
      BY <2>1 DEF At
    <3>. QED BY <1>1, <1>2, <3>1, OnePlace
  <2>. QED BY <1>1, <2>1 DEF IInv, JoinersOnStack, Fns
<1>5. \A q \in VPs \ {p} : ~OnVP(x, q)
  <2>1. x \in Fns /\ OnVP(x, p)
    BY <1>1 DEF Fns, OnVP
  <2>. QED BY <2>1, NotOnOther
<1>. QED BY <1>1, <1>3, <1>4, <1>5

\* compare_and_swap_state marks the job in hand as running.
LEMMA MarkFact ==
  ASSUME IInv, NEW p \in VPs, InHand(p), MarkRunning(current_job[p])
  PROVE  /\ state' \in [Jobs -> {"New", "Ready", "Running", "Finished"}]
         /\ state'[current_job[p]] = "Running"
         /\ \A j \in Jobs \ {current_job[p]} : state'[j] = state[j]
<1>1. /\ state \in [Jobs -> {"New", "Ready", "Running", "Finished"}]
      /\ current_job[p] \in Jobs /\ state[current_job[p]] \in {"Ready", "Running"}
  BY InHandFact DEF IInv, TypeOK, Pending
<1>2. state' = [state EXCEPT ![current_job[p]] = "Running"]
  BY <1>1 DEF MarkRunning
<1>. QED BY <1>1, <1>2

\* The function of the job in hand is called.
LEMMA CallStep ==
  ASSUME IInv, NEW p \in VPs, NEW x, current_job[p] = x, InHand(p),
         pc[p] \in {"getcas", "stealcas", "sub"}, CallFunction(p, x),
         state' \in [Jobs -> {"New", "Ready", "Running", "Finished"}],
         state'[x] = "Running", \A j \in Jobs \ {x} : state'[j] = state[j],
         idle_vps' \in Int,
         UNCHANGED <<current_job, context_stack, it, job_list, parent, result,
                     join_counter, deleted, forker, joining, session>>
  PROVE  IInv'
<1>1. /\ TypeOK /\ LocalInv(p) /\ x \in Jobs /\ Pending(x) /\ joining[x] = NULL
      /\ \A q \in VPs \ {p} : ~OnVP(x, q)
      /\ x \in Fns /\ x # NULL
  BY InHandFact, VPAssumption DEF IInv, LocalInv, Fns
<1>2. frames[p] \in Seq(Fns) /\ frames \in [VPs -> Seq(Fns)] /\ Len(frames[p]) \in Nat
  BY <1>1, SeqTypes DEF TypeOK
<1>3. PICK s \in Seq(Fns) : s = Append(frames[p], x)
  BY <1>1, <1>2, AppendProperties
<1>4. /\ Len(s) = Len(frames[p]) + 1 /\ s[Len(s)] = x /\ s # <<>>
      /\ \A i \in 1 .. Len(frames[p]) : s[i] = frames[p][i]
      /\ Pop(s) = frames[p] /\ Top(s) = x
  BY <1>1, <1>2, <1>3, AppendProperties, PopAppend
<1>5. /\ frames'[p] = s /\ frames' \in [VPs -> Seq(Fns)]
      /\ pc'[p] = "user" /\ pc' \in [VPs -> PCs]
      /\ \A q \in VPs \ {p} : pc'[q] = pc[q] /\ frames'[q] = frames[q]
  BY <1>1, <1>2, <1>3 DEF CallFunction, TypeOK, PCs
<1>6. TypeOK'
  BY <1>1, <1>5 DEF TypeOK
<1>7. \A q \in VPs \ {p} : Untouched(q)
  BY <1>1, <1>5 DEF Untouched, Fns
<1>8. ShapeAt(p)'
  <2>1. joining'[s[Len(s)]] = NULL /\ s[Len(s)] # NULL
    BY <1>1, <1>4
  <2>2. ASSUME NEW i \in 1 .. Len(s), i < Len(s)
        PROVE  joining'[s[i]] # NULL /\ (s[i] = NULL => p = 0 /\ i = 1)
    <3>1. i \in 1 .. Len(frames[p]) /\ s[i] = frames[p][i]
      BY <1>2, <1>4, <2>2
    <3>2. i = Len(frames[p]) => joining[frames[p][i]] # NULL
      BY <1>1, <3>1 DEF LocalInv, ShapeAt
    <3>. QED BY <1>1, <1>2, <3>1, <3>2 DEF LocalInv, ShapeAt
  <2>3. ASSUME NEW i \in 1 .. Len(s)
        PROVE  /\ i < Len(s) => joining'[s[i]] # NULL
               /\ i = Len(s) => (joining'[s[i]] = NULL <=> pc'[p] \in {"user", "return"})
               /\ s[i] = NULL => p = 0 /\ i = 1
    BY <1>2, <1>4, <1>5, <2>1, <2>2
  <2>. QED BY <1>4, <1>5, <2>3 DEF ShapeAt, InFunction, NoFunction
<1>9. ContextAt(p)'
  BY <1>1, <1>4, <1>5 DEF LocalInv, ContextAt, InFunction, Fn
<1>10. HandAt(p)' /\ IdleAt(p)'
  BY <1>5 DEF HandAt, IdleAt, NoFunction
<1>11. ResultAt(p)'
  <2>1. ASSUME NEW i \in 1 .. Len(s), s[i] # NULL
        PROVE  state'[s[i]] = "Running"
    <3>1. CASE i = Len(s)
      BY <1>4, <3>1
    <3>2. CASE i # Len(s)
      <4>1. i \in 1 .. Len(frames[p]) /\ s[i] = frames[p][i]
        BY <1>2, <1>4, <3>2
      <4>2. state[s[i]] = "Running" /\ s[i] \in Jobs
        BY <1>1, <2>1, <4>1, SeqTypes DEF LocalInv, ResultAt, Fns
      <4>. QED BY <4>2
    <3>. QED BY <3>1, <3>2
  <2>. QED BY <1>5, <2>1 DEF ResultAt
<1>12. JoinersOnStack'
  <2>1. \A i \in 1 .. Len(frames[p]) : i \in 1 .. Len(s) /\ s[i] = frames[p][i]
    BY <1>2, <1>4
  <2>2. \A q \in VPs : \A i \in 1 .. Len(frames[q]) :
           i \in 1 .. Len(frames'[q]) /\ frames'[q][i] = frames[q][i]
    BY <1>5, <2>1
  <2>. QED BY <2>2, JoinersKept DEF IInv
<1>13. EveryJobInOnePlace'
  <2>1. ~InHand(p)'
    BY <1>5 DEF InHand
  <2>2. \A j \in Jobs : Pending(j)' <=> Pending(j)
    BY <1>1 DEF Pending
  <2>. QED BY <1>1, <1>3, <1>5, <1>6, <2>1, <2>2, Call
<1>14. /\ ResultsKept'
       /\ \A j \in Jobs : state[j] = "Finished" => state'[j] = "Finished"
  <2>1. state[x] # "Finished"
    BY <1>1 DEF Pending
  <2>. QED BY <2>1 DEF IInv, ResultsKept
<1>. QED BY <1>5, <1>6, <1>7, <1>8, <1>9, <1>10, <1>11, <1>12, <1>13, <1>14,
            ActorStep DEF LocalInv

\* get_job's compare and swap, and the call.
LEMMA GetCasInv ==
  ASSUME IInv, NEW p \in VPs, GetCas(p)
  PROVE  IInv'
<1>1. InHand(p) /\ pc[p] = "getcas" /\ idle_vps' \in Int
  BY DEF GetCas, InHand, IInv, TypeOK
<1>. QED BY <1>1, MarkFact, CallStep DEF GetCas, userVars

\* steal_job's compare and swap, and the call of a suspended VP.
LEMMA StealCasInv ==
  ASSUME IInv, NEW p \in VPs, StealCas(p)
  PROVE  IInv'
<1>1. InHand(p) /\ pc[p] = "stealcas" /\ idle_vps' \in Int
  BY DEF StealCas, InHand, IInv, TypeOK
<1>2. CASE ~InRunLoop(p)
  BY <1>1, <1>2, MarkFact, CallStep DEF StealCas, userVars
<1>3. CASE InRunLoop(p)
  <2>1. /\ pc' = [pc EXCEPT ![p] = "sub"]
        /\ UNCHANGED <<frames, current_job, context_stack, it, job_list, idle_vps, parent,
                       result, join_counter, deleted, forker, joining, session>>
    BY <1>3 DEF StealCas, userVars
  <2>2. PICK x \in Jobs : x = current_job[p]
    BY <1>1, InHandFact
  <2>3. /\ TypeOK /\ LocalInv(p) /\ frames[p] = <<>> /\ Pending(x) /\ x # NULL
        /\ \A q \in VPs \ {p} : ~OnVP(x, q)
    BY <1>1, <1>3, <2>2, InHandFact, VPAssumption DEF IInv, LocalInv, InRunLoop
  <2>4. /\ state' \in [Jobs -> {"New", "Ready", "Running", "Finished"}]
        /\ state'[x] = "Running" /\ \A j \in Jobs \ {x} : state'[j] = state[j]
    BY <1>1, <2>2, MarkFact DEF StealCas
  <2>5. pc'[p] = "sub" /\ pc' \in [VPs -> PCs] /\ \A q \in VPs \ {p} : pc'[q] = pc[q]
    BY <2>1, <2>3 DEF TypeOK, PCs
  <2>6. TypeOK'
    BY <2>1, <2>3, <2>4, <2>5 DEF TypeOK
  <2>7. \A q \in VPs \ {p} : Untouched(q)
    BY <2>1, <2>3, <2>4, <2>5 DEF Untouched, Fns
  <2>8. ShapeAt(p)' /\ ContextAt(p)' /\ HandAt(p)'
    BY <1>1, <2>1, <2>3, <2>5
       DEF LocalInv, ShapeAt, ContextAt, HandAt, InFunction, NoFunction
  <2>9. IdleAt(p)'
    BY <1>1, <1>3, <2>1, <2>3, <2>5 DEF LocalInv, IdleAt, InRunLoop
  <2>10. ResultAt(p)'
    BY <2>1, <2>2, <2>3, <2>4, <2>5 DEF ResultAt
  <2>11. JoinersOnStack'
    BY <2>1, JoinersKept DEF IInv
  <2>12. EveryJobInOnePlace'
    <3>1. \A q \in VPs : InHand(q)' <=> InHand(q)
      BY <1>1, <2>1, <2>2, <2>3, <2>5 DEF InHand
    <3>2. \A j \in Jobs : state'[j] \in {"Ready", "Running"} <=> state[j] \in {"Ready", "Running"}
      BY <2>3, <2>4 DEF Pending
    <3>. QED BY <2>1, <3>1, <3>2, StayPut DEF IInv
  <2>13. /\ ResultsKept'
         /\ \A j \in Jobs : state[j] = "Finished" => state'[j] = "Finished"
    <3>1. state[x] # "Finished"
      BY <2>3 DEF Pending
    <3>. QED BY <2>1, <2>4, <3>1 DEF IInv, ResultsKept
  <2>. QED BY <1>1, <2>5, <2>6, <2>7, <2>8, <2>9, <2>10, <2>11, <2>12, <2>13,
              ActorStep DEF LocalInv
<1>. QED BY <1>2, <1>3

\* run() counts the VP as busy again and runs what it stole.
LEMMA IdleSubInv ==
  ASSUME IInv, NEW p \in VPs, IdleSub(p)
  PROVE  IInv'
<1>1. /\ pc[p] = "sub" /\ idle_vps' \in Int
      /\ UNCHANGED <<current_job, context_stack, it, job_list, state, parent,
                     result, join_counter, deleted, forker, joining, session>>
  BY DEF IdleSub, IInv, TypeOK, jobVars, userVars
<1>2. TypeOK /\ LocalInv(p)
  BY DEF IInv, LocalInv
<1>3. CASE current_job[p] # NULL
  <2>1. PICK x : x = current_job[p]
    OBVIOUS
  <2>2. InHand(p) /\ CallFunction(p, x) /\ state[x] = "Running"
    BY <1>1, <1>2, <1>3, <2>1 DEF IdleSub, InHand, LocalInv, ResultAt
  <2>3. state' \in [Jobs -> {"New", "Ready", "Running", "Finished"}]
    BY <1>1, <1>2 DEF TypeOK
  <2>. QED BY <1>1, <2>1, <2>2, <2>3, CallStep
<1>4. CASE current_job[p] = NULL
  <2>1. pc' = [pc EXCEPT ![p] = "get"] /\ UNCHANGED frames
    BY <1>4 DEF IdleSub
  <2>2. pc'[p] = "get" /\ pc' \in [VPs -> PCs] /\ \A q \in VPs \ {p} : pc'[q] = pc[q]
    BY <1>2, <2>1 DEF TypeOK, PCs
  <2>3. TypeOK'
    BY <1>1, <1>2, <2>1, <2>2 DEF TypeOK
  <2>4. ShapeAt(p)' /\ ContextAt(p)' /\ HandAt(p)' /\ IdleAt(p)'
    BY <1>1, <1>2, <2>1, <2>2
       DEF LocalInv, ShapeAt, ContextAt, HandAt, IdleAt, InFunction, NoFunction
  <2>5. ResultAt(p)'
    BY <1>1, <1>2, <2>1, <2>2 DEF LocalInv, ResultAt
  <2>6. EveryJobInOnePlace'
    BY <1>1, <1>4, <2>1, <2>2, QuietStays DEF InHand
  <2>. QED BY <1>1, <2>1, <2>2, <2>3, <2>4, <2>5, <2>6, QuietStep
<1>. QED BY <1>3, <1>4

-----------------------------------------------------------------------------
(* Steps of a function of the program *)

\* The function on top is at no other VP; unless it is main(), it is running.
LEMMA TopFact ==
  ASSUME IInv, NEW p \in VPs, frames[p] # <<>>
  PROVE  /\ Fn(p) \in Fns /\ \A q \in VPs \ {p} : ~OnVP(Fn(p), q)
         /\ Fn(p) # NULL => Fn(p) \in Jobs /\ state[Fn(p)] = "Running"
<1>1. TypeOK /\ ResultAt(p)
  BY DEF IInv
<1>2. /\ Fn(p) \in Fns /\ OnVP(Fn(p), p) /\ Len(frames[p]) \in 1 .. Len(frames[p])
      /\ Fn(p) = frames[p][Len(frames[p])]
  BY <1>1, TopOnVP
<1>3. \A q \in VPs \ {p} : ~OnVP(Fn(p), q)
  BY <1>2, NotOnOther
<1>4. Fn(p) # NULL => Fn(p) \in Jobs /\ state[Fn(p)] = "Running"
  BY <1>1, <1>2 DEF ResultAt, Fns
<1>. QED BY <1>2, <1>3, <1>4

\* fork_job puts the job in the list.
LEMMA ForkInv ==
  ASSUME IInv, Shallow, NEW p \in VPs, NEW x \in Jobs, Fork(p, x)
  PROVE  IInv'
<1>1. ~(Len(context_stack[p]) > ContextLimit)
  <2>1. Len(context_stack[p]) <= ContextLimit /\ Len(context_stack[p]) \in Nat
    BY SeqTypes DEF Shallow, IInv
  <2>. QED BY <2>1, VPAssumption
<1>2. /\ pc[p] = "user" /\ state[x] = "New"
      /\ state' = [state EXCEPT ![x] = "Ready"]
      /\ parent' = [parent EXCEPT ![x] = current_job[p]]
      /\ forker' = [forker EXCEPT ![x] = Fn(p)]
      /\ job_list' = [job_list EXCEPT ![p] = @ \cup {x}]
      /\ UNCHANGED <<pc, frames, current_job, context_stack, it, idle_vps, result,
                     join_counter, deleted, joining, session>>
  BY <1>1 DEF Fork
<1>3. TypeOK /\ LocalInv(p) /\ frames[p] # <<>>
  BY <1>2 DEF IInv, LocalInv, ShapeAt, InFunction
<1>4. TypeOK'
  <2>1. Fn(p) \in Fns
    BY <1>3, TopFact
  <2>2. forker' \in [Jobs -> Fns]
    BY <1>2, <1>3, <2>1 DEF TypeOK
  <2>3. parent' \in [Jobs -> Fns] /\ job_list' \in [VPs -> SUBSET Jobs]
    BY <1>2, <1>3 DEF TypeOK
  <2>4. state' \in [Jobs -> {"New", "Ready", "Running", "Finished"}]
    BY <1>2, <1>3 DEF TypeOK
  <2>. QED BY <1>2, <1>3, <2>2, <2>3, <2>4 DEF TypeOK
<1>5. state'[x] = "Ready" /\ \A j \in Jobs \ {x} : state'[j] = state[j]
  BY <1>2, <1>3 DEF TypeOK
<1>6. \A q \in VPs : ~OnVP(x, q)
  <2>. SUFFICES ASSUME NEW q \in VPs, OnVP(x, q) PROVE FALSE
    OBVIOUS
  <2>1. \E i \in Int : At(x, q, i)
    BY OnVPAt
  <2>2. Pending(x)
    BY <2>1, OnePlace
  <2>. QED BY <1>2, <2>2 DEF Pending
<1>7. job_list'[p] = job_list[p] \cup {x} /\ \A q \in VPs \ {p} : job_list'[q] = job_list[q]
  BY <1>2, <1>3 DEF TypeOK
<1>8. \A q \in VPs \ {p} : Untouched(q)
  BY <1>2, <1>5, <1>6, <1>7 DEF Untouched, Fns
<1>9. ShapeAt(p)' /\ ContextAt(p)' /\ HandAt(p)' /\ IdleAt(p)'
  BY <1>2, <1>3
     DEF LocalInv, ShapeAt, ContextAt, HandAt, IdleAt, InFunction, NoFunction, Fn
<1>10. ResultAt(p)'
  <2>1. \A i \in 1 .. Len(frames[p]) : frames[p][i] # NULL => state'[frames[p][i]] = "Running"
    BY <1>3, <1>5, <1>6, SeqTypes DEF LocalInv, ResultAt, OnVP, Fns
  <2>. QED BY <1>2, <2>1 DEF ResultAt
<1>11. JoinersOnStack'
  BY <1>2, JoinersKept DEF IInv
<1>12. EveryJobInOnePlace'
  BY <1>2, <1>4, <1>5, <1>7, Appear
<1>13. /\ ResultsKept'
       /\ \A j \in Jobs : state[j] = "Finished" => state'[j] = "Finished"
  BY <1>2, <1>5 DEF IInv, ResultsKept
<1>. QED BY <1>2, <1>4, <1>8, <1>9, <1>10, <1>11, <1>12, <1>13, ActorStep DEF LocalInv

\* A function calls join.
LEMMA JoinBeginInv ==
  ASSUME IInv, NEW p \in VPs, NEW x \in Jobs, JoinBegin(p, x)
  PROVE  IInv'
<1>1. /\ pc[p] = "user" /\ pc' = [pc EXCEPT ![p] = "check"]
      /\ joining' = [joining EXCEPT ![Fn(p)] = x]
      /\ UNCHANGED <<frames, current_job, context_stack, it, job_list, idle_vps, state,
                     parent, result, join_counter, deleted, forker, session>>
  BY DEF JoinBegin, privVars, jobVars
<1>2. TypeOK /\ LocalInv(p) /\ frames[p] # <<>> /\ x # NULL /\ x \in Fns
  BY <1>1, VPAssumption DEF IInv, LocalInv, ShapeAt, InFunction, Fns
<1>3. PICK f \in Fns : f = Fn(p) /\ \A q \in VPs \ {p} : ~OnVP(f, q)
  BY <1>2, TopFact
<1>4. /\ pc'[p] = "check" /\ pc' \in [VPs -> PCs] /\ \A q \in VPs \ {p} : pc'[q] = pc[q]
      /\ joining'[f] = x /\ joining' \in [Fns -> Fns]
      /\ \A g \in Fns \ {f} : joining'[g] = joining[g]
  BY <1>1, <1>2, <1>3 DEF TypeOK, PCs
<1>5. TypeOK'
  BY <1>1, <1>2, <1>4 DEF TypeOK
<1>6. \A q \in VPs \ {p} : Untouched(q)
  BY <1>1, <1>3, <1>4 DEF Untouched
<1>7. ShapeAt(p)'
  <2>1. \A i \in 1 .. Len(frames[p]) : frames[p][i] \in Fns
    BY <1>2, SeqTypes
  <2>2. frames[p][Len(frames[p])] = f
    BY <1>3 DEF Fn, Top
  <2>3. ASSUME NEW i \in 1 .. Len(frames[p])
        PROVE  /\ joining'[frames[p][i]] # NULL
               /\ frames[p][i] = NULL => p = 0 /\ i = 1
    <3>1. i < Len(frames[p]) \/ i = Len(frames[p])
      BY <1>2, SeqTypes
    <3>. QED BY <1>2, <1>4, <2>1, <2>2, <3>1 DEF LocalInv, ShapeAt
  <2>. QED BY <1>1, <1>2, <1>4, <2>3 DEF ShapeAt, InFunction, NoFunction
<1>8. ContextAt(p)' /\ HandAt(p)' /\ IdleAt(p)'
  BY <1>1, <1>2, <1>4
     DEF LocalInv, ContextAt, HandAt, IdleAt, InFunction, NoFunction, Fn
<1>9. ResultAt(p)'
  BY <1>1, <1>2, <1>4 DEF LocalInv, ResultAt
<1>10. JoinersOnStack'
  <2>1. Len(frames[p]) \in 1 .. Len(frames[p]) /\ frames[p][Len(frames[p])] = f
    BY <1>2, <1>3, TopOnVP
  <2>2. ASSUME NEW g \in Fns, joining'[g] # NULL
        PROVE  \E q \in VPs : \E i \in 1 .. Len(frames[q]) : frames[q][i] = g
    <3>1. CASE g = f
      BY <2>1, <3>1
    <3>2. CASE g # f
      BY <1>4, <2>2, <3>2 DEF IInv, JoinersOnStack
    <3>. QED BY <3>1, <3>2
  <2>. QED BY <1>1, <2>2 DEF JoinersOnStack
<1>11. EveryJobInOnePlace'
  BY <1>1, <1>4, QuietStays DEF InHand
<1>12. ResultsKept'
  BY <1>1 DEF IInv, ResultsKept
<1>. QED BY <1>1, <1>4, <1>5, <1>6, <1>7, <1>8, <1>9, <1>10, <1>11, <1>12,
            ActorStep DEF LocalInv

\* join_job counts the join and returns.
LEMMA JoinReturnInv ==
  ASSUME IInv, NEW p \in VPs, NEW zero, JoinReturn(p, zero)
  PROVE  IInv'
<1>1. /\ pc[p] = "dec" /\ pc' = [pc EXCEPT ![p] = "user"]
      /\ join_counter' = [join_counter EXCEPT ![joining[Fn(p)]] = (@ - 1) % 65536]
      /\ deleted' \in {deleted, deleted \cup {joining[Fn(p)]}}
      /\ joining' = [joining EXCEPT ![Fn(p)] = NULL]
      /\ UNCHANGED <<frames, current_job, context_stack, it, job_list, idle_vps, state,
                     parent, result, forker, session>>
  BY DEF JoinReturn, privVars
<1>2. TypeOK /\ LocalInv(p) /\ frames[p] # <<>>
  BY <1>1 DEF IInv, LocalInv, ShapeAt, InFunction
<1>3. PICK f \in Fns : f = Fn(p) /\ \A q \in VPs \ {p} : ~OnVP(f, q)
  BY <1>2, TopFact
<1>4. /\ pc'[p] = "user" /\ pc' \in [VPs -> PCs] /\ \A q \in VPs \ {p} : pc'[q] = pc[q]
      /\ joining'[f] = NULL /\ joining' \in [Fns -> Fns]
      /\ \A g \in Fns \ {f} : joining'[g] = joining[g]
  BY <1>1, <1>2, <1>3 DEF TypeOK, PCs, Fns
<1>5. TypeOK'
  <2>1. joining[Fn(p)] \in Jobs
    <3>1. joining[Fn(p)] # NULL
      BY <1>1, <1>2, TopOnVP DEF LocalInv, ShapeAt
    <3>. QED BY <1>2, <1>3, <3>1 DEF TypeOK, Fns
  <2>2. join_counter' \in [Jobs -> Uint16]
    <3>1. \A c \in Uint16 : (c - 1) % 65536 \in Uint16
      <4>1. \A a \in Int : a % 65536 \in Uint16
        BY SMTT(30) DEF Uint16
      <4>2. \A c \in Uint16 : c - 1 \in Int
        BY SMTT(30) DEF Uint16
      <4>. QED BY <4>1, <4>2
    <3>2. join_counter \in [Jobs -> Uint16]
      BY <1>2 DEF TypeOK
    <3>. QED BY <1>1, <2>1, <3>1, <3>2
  <2>3. deleted' \in SUBSET Jobs
    BY <1>1, <1>2, <2>1 DEF TypeOK
  <2>. QED BY <1>1, <1>2, <1>4, <2>2, <2>3 DEF TypeOK
<1>6. \A q \in VPs \ {p} : Untouched(q)
  BY <1>1, <1>3, <1>4 DEF Untouched
<1>7. ShapeAt(p)'
  <2>1. \A i \in 1 .. Len(frames[p]) : frames[p][i] \in Fns
    BY <1>2, SeqTypes
  <2>2. frames[p][Len(frames[p])] = f /\ Len(frames[p]) \in 1 .. Len(frames[p])
    BY <1>2, <1>3, TopOnVP
  <2>3. ASSUME NEW i \in 1 .. Len(frames[p]), i < Len(frames[p])
        PROVE  frames[p][i] # f
    <3>. SUFFICES ASSUME frames[p][i] = f PROVE FALSE
      OBVIOUS
    <3>0. Len(frames[p]) \in Int /\ i \in Int
      BY <1>2, SeqTypes
    <3>1. CASE f = NULL
      BY <1>2, <2>2, <2>3, <3>0, <3>1 DEF LocalInv, ShapeAt
    <3>2. CASE f # NULL
      <4>1. f \in Jobs /\ At(f, p, i) /\ At(f, p, Len(frames[p]))
        BY <2>2, <3>2 DEF Fns, At
      <4>. QED BY <2>3, <3>0, <4>1, OnePlace
    <3>. QED BY <3>1, <3>2
  <2>4. ASSUME NEW i \in 1 .. Len(frames[p])
        PROVE  /\ i < Len(frames[p]) => joining'[frames[p][i]] # NULL
               /\ i = Len(frames[p]) => joining'[frames[p][i]] = NULL
               /\ frames[p][i] = NULL => p = 0 /\ i = 1
    BY <1>2, <1>4, <2>1, <2>2, <2>3 DEF LocalInv, ShapeAt
  <2>. QED BY <1>1, <1>2, <1>4, <2>4 DEF ShapeAt, InFunction, NoFunction
<1>8. ContextAt(p)' /\ HandAt(p)' /\ IdleAt(p)'
  BY <1>1, <1>2, <1>4
     DEF LocalInv, ContextAt, HandAt, IdleAt, InFunction, NoFunction, Fn
<1>9. ResultAt(p)'
  BY <1>1, <1>2, <1>4 DEF LocalInv, ResultAt
<1>10. JoinersOnStack'
  <2>1. \A g \in Fns : joining'[g] # NULL => joining[g] # NULL
    BY <1>4
  <2>. QED BY <1>1, <2>1 DEF IInv, JoinersOnStack
<1>11. EveryJobInOnePlace'
  BY <1>1, <1>4, QuietStays DEF InHand
<1>12. ResultsKept'
  BY <1>1 DEF IInv, ResultsKept
<1>. QED BY <1>1, <1>4, <1>5, <1>6, <1>7, <1>8, <1>9, <1>10, <1>11, <1>12,
            ActorStep DEF LocalInv

\* A function calls _exit, or returns and its value is stored.
LEMMA ExitOrReturnInv ==
  ASSUME IInv, NEW p \in VPs, ExitValue(p) \/ Return(p)
  PROVE  IInv'
<1>1. pc[p] = "user" /\ TypeOK /\ LocalInv(p)
  BY DEF ExitValue, Return, IInv, LocalInv
<1>2. current_job[p] = Fn(p) /\ frames[p] # <<>>
  BY <1>1 DEF LocalInv, ShapeAt, ContextAt, InFunction
<1>3. Fn(p) # NULL
  BY <1>2 DEF ExitValue, Return
<1>4. PICK x \in Jobs : /\ x = Fn(p) /\ state[x] = "Running"
                        /\ \A q \in VPs \ {p} : ~OnVP(x, q)
  BY <1>2, <1>3, TopFact
<1>5. /\ UNCHANGED <<frames, current_job, context_stack, it, job_list, idle_vps, state,
                     parent, join_counter, deleted, joining, session>>
      /\ pc' \in [VPs -> PCs] /\ \A q \in VPs \ {p} : pc'[q] = pc[q]
      /\ result' \in [Jobs -> {"Unset", "Exit", "Return"}]
      /\ \A j \in Jobs \ {x} : result'[j] = result[j]
      /\ forker' = forker
      /\ pc'[p] \in {"user", "return"}
      /\ pc'[p] = "return" => result'[x] # "Unset"
      /\ result[x] # "Unset" => result'[x] # "Unset"
  <2>1. CASE ExitValue(p)
    <3>1. /\ result' = [result EXCEPT ![x] = "Exit"] /\ pc' = pc
          /\ UNCHANGED <<frames, current_job, context_stack, it, job_list, idle_vps, state,
                         parent, join_counter, deleted, forker, joining, session>>
      BY <1>2, <1>4, <2>1 DEF ExitValue, privVars, userVars
    <3>. QED BY <1>1, <3>1 DEF TypeOK
  <2>2. CASE Return(p)
    <3>1. /\ result' = [result EXCEPT ![x] = "Return"] /\ pc' = [pc EXCEPT ![p] = "return"]
          /\ UNCHANGED <<frames, current_job, context_stack, it, job_list, idle_vps, state,
                         parent, join_counter, deleted, forker, joining, session>>
      BY <1>4, <2>2 DEF Return, privVars, userVars
    <3>. QED BY <1>1, <3>1 DEF TypeOK, PCs, Fns
  <2>. QED BY <2>1, <2>2
<1>6. TypeOK'
  BY <1>1, <1>5 DEF TypeOK
<1>7. \A q \in VPs \ {p} : Untouched(q)
  BY <1>4, <1>5 DEF Untouched, Fns
<1>8. ShapeAt(p)'
  BY <1>1, <1>2, <1>3, <1>5 DEF LocalInv, ShapeAt, InFunction, NoFunction, Fn
<1>9. ContextAt(p)' /\ HandAt(p)' /\ IdleAt(p)'
  BY <1>1, <1>5
     DEF LocalInv, ContextAt, HandAt, IdleAt, InFunction, NoFunction, Fn
<1>10. ResultAt(p)'
  BY <1>1, <1>4, <1>5 DEF LocalInv, ResultAt, Fn
<1>11. JoinersOnStack'
  BY <1>5, JoinersKept DEF IInv
<1>12. EveryJobInOnePlace'
  BY <1>1, <1>5, QuietStays DEF InHand
<1>13. ResultsKept'
  BY <1>4, <1>5 DEF IInv, ResultsKept
<1>. QED BY <1>1, <1>5, <1>6, <1>7, <1>8, <1>9, <1>10, <1>11, <1>12, <1>13,
            ActorStep DEF LocalInv

\* The job is marked finished and leaves the stack.
LEMMA FinishInv ==
  ASSUME IInv, NEW p \in VPs, Finish(p)
  PROVE  IInv'
<1>1. pc[p] = "return" /\ TypeOK /\ LocalInv(p)
  BY DEF Finish, IInv, LocalInv
<1>2. /\ current_job[p] = Fn(p) /\ frames[p] # <<>> /\ Fn(p) # NULL
      /\ context_stack[p] = Pop(frames[p]) /\ result[Fn(p)] # "Unset"
  BY <1>1 DEF LocalInv, ShapeAt, ContextAt, ResultAt, InFunction
<1>3. PICK x \in Jobs : /\ x = Fn(p) /\ state[x] = "Running"
                        /\ \A q \in VPs \ {p} : ~OnVP(x, q)
  BY <1>2, TopFact
<1>4. PICK rest \in Seq(Fns) :
      /\ rest = Pop(frames[p]) /\ Len(rest) = Len(frames[p]) - 1
      /\ Len(rest) \in Nat /\ Len(frames[p]) \in Nat
      /\ \A i \in 1 .. Len(rest) : rest[i] = frames[p][i]
  <2>1. frames[p] \in Seq(Fns)
    BY <1>1, SeqTypes
  <2>2. /\ Pop(frames[p]) \in Seq(Fns) /\ Len(Pop(frames[p])) = Len(frames[p]) - 1
        /\ Len(frames[p]) \in Nat \ {0}
        /\ \A i \in 1 .. Len(frames[p]) - 1 : Pop(frames[p])[i] = frames[p][i]
    BY <1>2, <2>1, PopFact
  <2>. QED BY <2>2
<1>5. /\ state' = [state EXCEPT ![x] = "Finished"]
      /\ frames' = [frames EXCEPT ![p] = rest]
      /\ pc' = [pc EXCEPT ![p] =
                  IF rest = <<>> THEN "get"
                  ELSE IF joining[Top(rest)] # NULL THEN "restore" ELSE "user"]
      /\ UNCHANGED <<current_job, context_stack, it, job_list, idle_vps, parent,
                     result, join_counter, deleted, forker, joining, session>>
  BY <1>1, <1>3, <1>4 DEF Finish, MarkFinished, userVars, TypeOK
<1>6. rest # <<>> => /\ Len(rest) \in 1 .. Len(rest) /\ Top(rest) = rest[Len(rest)]
  BY PopFact DEF Top
<1>7. \A i \in 1 .. Len(rest) : /\ joining[rest[i]] # NULL
                                /\ rest[i] = NULL => p = 0 /\ i = 1
                                /\ rest[i] # NULL => state[rest[i]] = "Running"
  <2>. TAKE i \in 1 .. Len(rest)
  <2>1. i \in 1 .. Len(frames[p]) /\ i < Len(frames[p]) /\ rest[i] = frames[p][i]
    BY <1>4
  <2>. QED BY <1>1, <2>1 DEF LocalInv, ShapeAt, ResultAt
<1>8. /\ pc'[p] = IF rest = <<>> THEN "get" ELSE "restore"
      /\ pc' \in [VPs -> PCs] /\ \A q \in VPs \ {p} : pc'[q] = pc[q]
  BY <1>1, <1>5, <1>6, <1>7 DEF TypeOK, PCs
<1>9. /\ frames' \in [VPs -> Seq(Fns)] /\ frames'[p] = rest
      /\ \A q \in VPs \ {p} : frames'[q] = frames[q]
      /\ state' \in [Jobs -> {"New", "Ready", "Running", "Finished"}]
      /\ state'[x] = "Finished" /\ \A j \in Jobs \ {x} : state'[j] = state[j]
  BY <1>1, <1>5 DEF TypeOK
<1>10. TypeOK'
  BY <1>1, <1>5, <1>8, <1>9 DEF TypeOK
<1>11. \A q \in VPs \ {p} : Untouched(q)
  BY <1>3, <1>5, <1>8, <1>9 DEF Untouched, Fns
<1>12. \A i \in 1 .. Len(rest) : rest[i] # x
  <2>. SUFFICES ASSUME NEW i \in 1 .. Len(rest), rest[i] = x PROVE FALSE
    OBVIOUS
  <2>1. At(x, p, i) /\ At(x, p, Len(frames[p])) /\ i # Len(frames[p])
    <3>1. /\ i \in 1 .. Len(frames[p]) /\ frames[p][i] = x /\ i # Len(frames[p])
          /\ Len(frames[p]) \in 1 .. Len(frames[p])
      BY <1>4
    <3>2. frames[p][Len(frames[p])] = x
      BY <1>3 DEF Fn, Top
    <3>. QED BY <3>1, <3>2 DEF At
  <2>. QED BY <1>4, <2>1, OnePlace
<1>13. ShapeAt(p)'
  BY <1>5, <1>7, <1>8, <1>9 DEF ShapeAt, InFunction, NoFunction
<1>14. ContextAt(p)' /\ HandAt(p)' /\ IdleAt(p)'
  BY <1>2, <1>4, <1>5, <1>8, <1>9 DEF ContextAt, HandAt, IdleAt, InFunction, NoFunction
<1>15. ResultAt(p)'
  <2>1. \A i \in 1 .. Len(rest) : rest[i] # NULL => state'[rest[i]] = "Running"
    <3>1. \A i \in 1 .. Len(rest) : rest[i] \in Fns
      BY <1>4, ElementOfSeq
    <3>. QED BY <1>7, <1>9, <1>12, <3>1 DEF Fns
  <2>. QED BY <1>8, <1>9, <2>1 DEF ResultAt
<1>16. JoinersOnStack'
  <2>1. joining[x] = NULL
    BY <1>1, <1>2, <1>3, TopOnVP DEF LocalInv, ShapeAt
  <2>2. ASSUME NEW g \in Fns, joining[g] # NULL
        PROVE  \E q \in VPs : \E i \in 1 .. Len(frames'[q]) : frames'[q][i] = g
    <3>1. PICK q \in VPs : \E i \in 1 .. Len(frames[q]) : frames[q][i] = g
      BY <2>2 DEF IInv, JoinersOnStack
    <3>2. CASE q # p
      BY <1>9, <3>1, <3>2
    <3>3. CASE q = p
      <4>1. frames[p][Len(frames[p])] = x
        BY <1>3 DEF Fn, Top
      <4>2. \E i \in 1 .. Len(rest) : rest[i] = g
        BY <1>4, <2>1, <2>2, <3>1, <3>3, <4>1
      <4>. QED BY <1>9, <4>2
    <3>. QED BY <3>2, <3>3
  <2>. QED BY <1>5, <2>2 DEF JoinersOnStack
<1>17. EveryJobInOnePlace'
  <2>1. ~InHand(p) /\ ~InHand(p)'
    BY <1>1, <1>8 DEF InHand
  <2>. QED BY <1>2, <1>3, <1>4, <1>5, <1>8, <1>9, <1>10, <2>1, Leave
<1>18. /\ ResultsKept'
       /\ \A j \in Jobs : state[j] = "Finished" => state'[j] = "Finished"
  BY <1>2, <1>3, <1>5, <1>9 DEF IInv, ResultsKept
<1>. QED BY <1>1, <1>8, <1>10, <1>11, <1>13, <1>14, <1>15, <1>16, <1>17, <1>18,
            ActorStep DEF LocalInv

-----------------------------------------------------------------------------
(* init and terminate *)

\* init creates the thread of a VP.
LEMMA CreateThreadInv ==
  ASSUME IInv, CreateThread
  PROVE  IInv'
<1>1. /\ pc[0] = "init" /\ it[0] < N
      /\ pc' = [pc EXCEPT ![it[0]] = "get"]
      /\ it' = [it EXCEPT ![0] = @ + 1]
      /\ UNCHANGED <<frames, current_job, context_stack, job_list, idle_vps, state, parent,
                     result, join_counter, deleted, forker, joining, session>>
  BY DEF CreateThread, jobVars, userVars
<1>2. TypeOK /\ 0 \in VPs /\ N \in Nat /\ Phases
  BY VPFact DEF IInv
<1>3. PICK v \in VPs : /\ v = it[0] /\ v >= 1 /\ v + 1 \in 0 .. N /\ pc[v] = "start"
                       /\ \A q \in VPs : q >= v => pc[q] = "start"
  <2>1. it[0] \in 0 .. N /\ it[0] >= 1
    BY <1>1, <1>2 DEF TypeOK, Phases
  <2>2. it[0] \in VPs /\ it[0] + 1 \in 0 .. N
    BY <1>1, <1>2, <2>1 DEF VPs
  <2>. QED BY <1>1, <1>2, <2>1, <2>2 DEF Phases
<1>4. /\ pc'[v] = "get" /\ pc' \in [VPs -> PCs] /\ \A q \in VPs \ {v} : pc'[q] = pc[q]
      /\ it' \in [VPs -> 0 .. N] /\ it'[0] = v + 1 /\ \A q \in VPs \ {0} : it'[q] = it[q]
  BY <1>1, <1>2, <1>3 DEF TypeOK, PCs
<1>5. TypeOK'
  <2>1. ASSUME NEW q \in VPs, pc'[q] = "steal" PROVE it'[q] \in VPs \ {q}
    <3>1. q # 0 /\ q # v
      BY <1>1, <1>3, <1>4, <2>1
    <3>. QED BY <1>2, <1>4, <2>1, <3>1 DEF TypeOK
  <2>. QED BY <1>1, <1>2, <1>4, <2>1 DEF TypeOK
<1>6. \A q \in VPs : LocalInv(q)'
  <2>. TAKE q \in VPs
  <2>0. LocalInv(q)
    BY DEF IInv, LocalInv
  <2>1. CASE q = v
    <3>1. pc[v] = "start" /\ frames[v] = <<>> /\ frames[v] = context_stack[v] /\ Len(frames[v]) = 0
      BY <1>3, <2>0, <2>1 DEF LocalInv, ShapeAt, ContextAt, InFunction, NoFunction
    <3>2. ShapeAt(v)' /\ ContextAt(v)' /\ HandAt(v)' /\ IdleAt(v)' /\ ResultAt(v)'
      BY <1>1, <1>4, <3>1
         DEF ShapeAt, ContextAt, HandAt, IdleAt, ResultAt, InFunction, NoFunction
    <3>. QED BY <2>1, <3>2 DEF LocalInv
  <2>2. CASE q # v
    <3>1. pc'[q] = pc[q]
      BY <1>4, <2>2
    <3>. QED BY <1>1, <2>0, <3>1
         DEF LocalInv, ShapeAt, ContextAt, HandAt, IdleAt, ResultAt, InRunLoop, Fn
  <2>. QED BY <2>1, <2>2
<1>7. EveryJobInOnePlace'
  <2>1. ~InHand(v) /\ ~InHand(v)'
    BY <1>3, <1>4 DEF InHand
  <2>. QED BY <1>1, <1>4, <2>1, QuietStays
<1>8. JoinersOnStack' /\ ResultsKept'
  BY <1>1, JoinersKept DEF IInv, ResultsKept
<1>9. Phases'
  <2>1. v # 0 /\ v \in Nat /\ \A q \in VPs : q \in Nat
    BY <1>3, VPFact
  <2>. QED BY <1>1, <1>2, <1>3, <1>4, <2>1 DEF Phases
<1>. QED BY <1>5, <1>6, <1>7, <1>8, <1>9 DEF IInv, LocalInv

\* init returns to main().
LEMMA StartMainInv ==
  ASSUME IInv, StartMain
  PROVE  IInv'
<1>1. /\ pc[0] = "init" /\ pc' = [pc EXCEPT ![0] = "user"]
      /\ frames' = [frames EXCEPT ![0] = <<NULL>>]
      /\ UNCHANGED <<current_job, context_stack, it, job_list, idle_vps, state, parent,
                     result, join_counter, deleted, forker, joining, session>>
  BY DEF StartMain, jobVars, userVars
<1>2. TypeOK /\ 0 \in VPs /\ LocalInv(0) /\ Phases
  BY VPFact DEF IInv, LocalInv
<1>3. frames[0] = <<>> /\ current_job[0] = NULL /\ context_stack[0] = <<>>
  BY <1>1, <1>2 DEF LocalInv, ShapeAt, ContextAt, HandAt, InFunction, NoFunction
<1>4. PICK s \in Seq(Fns) : /\ s = <<NULL>> /\ Len(s) = 1 /\ s[1] = NULL /\ s # <<>>
                            /\ Pop(s) = <<>> /\ Top(s) = NULL
  <2>1. <<NULL>> \in Seq(Fns) /\ Len(<<NULL>>) = 1 /\ <<NULL>> # <<>> /\ NULL \in Fns
    BY DEF Fns
  <2>2. Append(<<>>, NULL) = <<NULL>> /\ <<>> \in Seq(Fns)
    OBVIOUS
  <2>3. Pop(Append(<<>>, NULL)) = <<>> /\ Top(Append(<<>>, NULL)) = NULL
    BY <2>1, <2>2, PopAppend
  <2>. QED BY <2>1, <2>2, <2>3
<1>5. /\ pc'[0] = "user" /\ pc' \in [VPs -> PCs]
      /\ frames'[0] = s /\ frames' \in [VPs -> Seq(Fns)]
      /\ \A q \in VPs \ {0} : pc'[q] = pc[q] /\ frames'[q] = frames[q]
  BY <1>1, <1>2, <1>4 DEF TypeOK, PCs
<1>6. TypeOK'
  BY <1>1, <1>2, <1>5 DEF TypeOK
<1>7. joining[NULL] = NULL
  <2>1. ASSUME NEW q \in VPs, NEW i \in 1 .. Len(frames[q]), frames[q][i] = NULL
        PROVE  FALSE
    <3>1. q = 0
      BY <2>1 DEF IInv, ShapeAt
    <3>. QED BY <1>3, <3>1
  <2>. QED BY <2>1 DEF IInv, JoinersOnStack, Fns
<1>8. \A q \in VPs : LocalInv(q)'
  <2>. TAKE q \in VPs
  <2>1. CASE q = 0
    <3>1. ShapeAt(0)'
      BY <1>1, <1>4, <1>5, <1>7 DEF ShapeAt, InFunction, NoFunction
    <3>2. ContextAt(0)' /\ HandAt(0)' /\ IdleAt(0)'
      BY <1>1, <1>3, <1>4, <1>5
         DEF ContextAt, HandAt, IdleAt, InFunction, NoFunction, Fn
    <3>3. ResultAt(0)'
      BY <1>4, <1>5 DEF ResultAt
    <3>. QED BY <2>1, <3>1, <3>2, <3>3 DEF LocalInv
  <2>2. CASE q # 0
    <3>1. Untouched(q)
      BY <1>1, <1>5, <2>2 DEF Untouched
    <3>. QED BY <1>1, <1>2, <3>1, OthersKept DEF IInv, LocalInv
  <2>. QED BY <2>1, <2>2
<1>9. JoinersOnStack'
  <2>1. \A q \in VPs : \A i \in 1 .. Len(frames[q]) :
           i \in 1 .. Len(frames'[q]) /\ frames'[q][i] = frames[q][i]
    BY <1>3, <1>5
  <2>. QED BY <1>1, <2>1, JoinersKept DEF IInv
<1>10. EveryJobInOnePlace'
  <2>1. \A q \in VPs : InHand(q)' <=> InHand(q)
    BY <1>1, <1>5 DEF InHand
  <2>2. \A j \in Jobs, q \in VPs, i \in Int : At(j, q, i)' <=> At(j, q, i)
    <3>. TAKE j \in Jobs, q \in VPs, i \in Int
    <3>1. CASE q = 0
      BY <1>1, <1>3, <1>4, <1>5, <2>1, <3>1, VPAssumption DEF At
    <3>2. CASE q # 0
      BY <1>1, <1>5, <2>1, <3>2 DEF At
    <3>. QED BY <3>1, <3>2
  <2>. QED BY <1>1, <1>2, <1>6, <2>2, SamePlaces DEF IInv
<1>11. ResultsKept'
  BY <1>1 DEF IInv, ResultsKept
<1>12. Phases'
  BY <1>2, <1>5 DEF Phases
<1>. QED BY <1>6, <1>8, <1>9, <1>10, <1>11, <1>12 DEF IInv, LocalInv

\* main() calls terminate.
LEMMA TerminateInv ==
  ASSUME IInv, Terminate
  PROVE  IInv'
<1>1. /\ pc[0] = "user" /\ frames[0] = <<NULL>> /\ pc' = [pc EXCEPT ![0] = "get"]
      /\ frames' = [frames EXCEPT ![0] = <<>>]
      /\ current_job' = [current_job EXCEPT ![0] = NULL]
      /\ UNCHANGED <<context_stack, it, job_list, idle_vps, state, parent,
                     result, join_counter, deleted, forker, joining, session>>
  BY DEF Terminate, jobVars, userVars
<1>2. TypeOK /\ 0 \in VPs /\ LocalInv(0) /\ Len(frames[0]) = 1 /\ frames[0][1] = NULL
  BY <1>1, VPFact DEF IInv, LocalInv
<1>3. joining[NULL] = NULL /\ Fn(0) = NULL
  <2>1. Fn(0) = frames[0][1] /\ frames[0] # <<>>
    BY <1>1, <1>2 DEF Fn, Top
  <2>. QED BY <1>1, <1>2, <2>1 DEF LocalInv, ShapeAt
<1>4. context_stack[0] = <<>>
  <2>1. Append(<<>>, NULL) = <<NULL>> /\ <<>> \in Seq(Fns) /\ NULL \in Fns
    BY DEF Fns
  <2>2. Pop(Append(<<>>, NULL)) = <<>>
    BY <2>1, PopAppend
  <2>3. context_stack[0] = Pop(frames[0])
    BY <1>1, <1>2 DEF LocalInv, ContextAt, InFunction
  <2>. QED BY <1>1, <2>1, <2>2, <2>3
<1>5. /\ pc'[0] = "get" /\ pc' \in [VPs -> PCs]
      /\ frames'[0] = <<>> /\ frames' \in [VPs -> Seq(Fns)]
      /\ current_job'[0] = NULL /\ current_job' \in [VPs -> Fns]
      /\ \A q \in VPs \ {0} : /\ pc'[q] = pc[q] /\ frames'[q] = frames[q]
                              /\ current_job'[q] = current_job[q]
  BY <1>1, <1>2 DEF TypeOK, PCs, Fns
<1>6. TypeOK'
  BY <1>1, <1>2, <1>5 DEF TypeOK
<1>7. \A q \in VPs \ {0} : Untouched(q)
  BY <1>1, <1>5 DEF Untouched
<1>8. LocalInv(0)'
  BY <1>1, <1>4, <1>5
     DEF LocalInv, ShapeAt, ContextAt, HandAt, IdleAt, ResultAt, InFunction, NoFunction
<1>9. JoinersOnStack'
  <2>1. ASSUME NEW g \in Fns, joining[g] # NULL
        PROVE  \E q \in VPs : \E i \in 1 .. Len(frames'[q]) : frames'[q][i] = g
    <3>1. PICK q \in VPs : \E i \in 1 .. Len(frames[q]) : frames[q][i] = g
      BY <2>1 DEF IInv, JoinersOnStack
    <3>2. q # 0
      BY <1>2, <1>3, <2>1, <3>1
    <3>. QED BY <1>5, <3>1, <3>2
  <2>. QED BY <1>1, <2>1 DEF JoinersOnStack
<1>10. EveryJobInOnePlace'
  <2>1. \A q \in VPs : InHand(q)' <=> InHand(q)
    BY <1>1, <1>5 DEF InHand
  <2>2. \A j \in Jobs, q \in VPs, i \in Int : At(j, q, i)' <=> At(j, q, i)
    <3>. TAKE j \in Jobs, q \in VPs, i \in Int
    <3>1. CASE q = 0
      <4>1. ~InHand(0)
        BY <1>1 DEF InHand
      <4>. QED BY <1>1, <1>2, <1>5, <2>1, <3>1, <4>1, VPAssumption DEF At
    <3>2. CASE q # 0
      BY <1>1, <1>5, <2>1, <3>2 DEF At
    <3>. QED BY <3>1, <3>2
  <2>. QED BY <1>1, <1>2, <1>6, <2>2, SamePlaces DEF IInv
<1>11. ResultsKept'
  BY <1>1 DEF IInv, ResultsKept
<1>. QED BY <1>1, <1>2, <1>5, <1>6, <1>7, <1>8, <1>9, <1>10, <1>11, ActorStep

\* terminate has joined every thread.
LEMMA JoinThreadsInv ==
  ASSUME IInv, JoinThreads
  PROVE  IInv'
<1>1. /\ \A q \in VPs : pc[q] = "left"
      /\ pc' = [pc EXCEPT ![0] = "done"]
      /\ UNCHANGED <<frames, current_job, context_stack, it, job_list, idle_vps, state, parent,
                     result, join_counter, deleted, forker, joining, session>>
  BY DEF JoinThreads, privVars, jobVars, userVars
<1>2. TypeOK /\ 0 \in VPs
  BY VPFact DEF IInv
<1>3. /\ pc'[0] = "done" /\ pc' \in [VPs -> PCs]
      /\ \A q \in VPs \ {0} : pc'[q] = "left"
  BY <1>1, <1>2 DEF TypeOK, PCs
<1>4. TypeOK'
  BY <1>1, <1>2, <1>3 DEF TypeOK
<1>5. \A q \in VPs : LocalInv(q)'
  <2>. TAKE q \in VPs
  <2>1. LocalInv(q) /\ pc[q] = "left" /\ pc'[q] \in {"left", "done"}
    BY <1>1, <1>3 DEF IInv, LocalInv
  <2>. QED BY <1>1, <2>1
       DEF LocalInv, ShapeAt, ContextAt, HandAt, IdleAt, ResultAt, InFunction, NoFunction
<1>6. EveryJobInOnePlace'
  <2>1. \A q \in VPs \ {0} : pc'[q] = pc[q]
    BY <1>1, <1>3
  <2>2. ~InHand(0) /\ ~InHand(0)'
    BY <1>1, <1>2, <1>3 DEF InHand
  <2>. QED BY <1>1, <1>2, <2>1, <2>2, QuietStays
<1>7. JoinersOnStack' /\ ResultsKept'
  BY <1>1, JoinersKept DEF IInv, ResultsKept
<1>8. Phases'
  BY <1>3 DEF Phases
<1>. QED BY <1>4, <1>5, <1>6, <1>7, <1>8 DEF IInv, LocalInv

\* After the last pthread_join nothing is in a list, a hand or a stack.
LEMMA DoneFact ==
  ASSUME IInv, pc[0] = "done"
  PROVE  /\ \A q \in VPs : frames[q] = <<>> /\ job_list[q] = {} /\ ~InHand(q)
         /\ \A j \in Jobs : state[j] \in {"New", "Finished"}
         /\ \A f \in Fns : joining[f] = NULL
<1>1. \A q \in VPs : pc[q] \in {"left", "done"}
  BY DEF IInv, Phases
<1>2. \A q \in VPs : frames[q] = <<>> /\ job_list[q] = {} /\ ~InHand(q)
  BY <1>1 DEF IInv, ShapeAt, IdleAt, InHand, NoFunction
<1>3. \A q \in VPs : Len(frames[q]) = 0
  BY <1>2
<1>4. \A j \in Jobs, q \in VPs, i \in Int : ~At(j, q, i)
  BY <1>2, <1>3 DEF At
<1>5. \A j \in Jobs : ~Pending(j)
  BY <1>4, PlaceForm DEF IInv
<1>6. \A j \in Jobs : state[j] \in {"New", "Finished"}
  BY <1>5 DEF IInv, TypeOK, Pending
<1>7. \A f \in Fns : joining[f] = NULL
  BY <1>3 DEF IInv, JoinersOnStack
<1>. QED BY <1>2, <1>6, <1>7

\* The program calls init again.
LEMMA ReinitInv ==
  ASSUME IInv, Reinit
  PROVE  IInv'
<1>1. /\ pc[0] = "done" /\ session < Sessions /\ session' = session + 1
      /\ pc' = [p \in VPs |-> IF p = 0 THEN "init" ELSE "start"]
      /\ frames' = [p \in VPs |-> <<>>]
      /\ current_job' = [p \in VPs |-> NULL]
      /\ context_stack' = [p \in VPs |-> <<>>]
      /\ it' = [p \in VPs |-> 1]
      /\ job_list' = [p \in VPs |-> {}]
      /\ UNCHANGED <<idle_vps, state, parent, result, join_counter, deleted, forker, joining>>
  BY DEF Reinit, jobVars, userVars
<1>2. TypeOK /\ 0 \in VPs /\ N \in Nat \ {0} /\ Sessions \in Nat
  BY VPFact, VPAssumption DEF IInv
<1>3. \A q \in VPs : /\ pc'[q] = IF q = 0 THEN "init" ELSE "start"
                     /\ frames'[q] = <<>> /\ Len(frames'[q]) = 0 /\ current_job'[q] = NULL
                     /\ context_stack'[q] = <<>> /\ it'[q] = 1 /\ job_list'[q] = {}
  BY <1>1
<1>4. TypeOK'
  <2>1. <<>> \in Seq(Fns) /\ NULL \in Fns /\ 1 \in 0 .. N /\ {} \in SUBSET Jobs
    BY <1>2 DEF Fns
  <2>2. /\ pc' \in [VPs -> PCs] /\ frames' \in [VPs -> Seq(Fns)]
        /\ current_job' \in [VPs -> Fns] /\ context_stack' \in [VPs -> Seq(Fns)]
        /\ it' \in [VPs -> 0 .. N] /\ job_list' \in [VPs -> SUBSET Jobs]
    BY <1>1, <2>1 DEF PCs
  <2>3. \A q \in VPs : pc'[q] # "steal"
    BY <1>3
  <2>4. session' \in 1 .. Sessions
    BY <1>1, <1>2 DEF TypeOK
  <2>. QED BY <1>1, <1>2, <2>2, <2>3, <2>4 DEF TypeOK
<1>5. \A q \in VPs : LocalInv(q)'
  BY <1>3 DEF LocalInv, ShapeAt, ContextAt, HandAt, IdleAt, ResultAt, InFunction, NoFunction
<1>6. EveryJobInOnePlace'
  <2>1. \A q \in VPs : ~InHand(q)'
    BY <1>3 DEF InHand
  <2>2. \A j \in Jobs, q \in VPs, i \in Int : ~At(j, q, i)'
    BY <1>3, <2>1 DEF At
  <2>3. \A q \in VPs : ~InHand(q) /\ frames[q] = <<>> /\ job_list[q] = {}
    BY <1>1, DoneFact
  <2>4. \A j \in Jobs, q \in VPs, i \in Int : ~At(j, q, i)
    <3>1. \A q \in VPs : Len(frames[q]) = 0
      BY <2>3
    <3>. QED BY <2>3, <3>1 DEF At
  <2>. QED BY <1>1, <1>2, <1>4, <2>2, <2>4, SamePlaces DEF IInv
<1>7. JoinersOnStack' /\ ResultsKept'
  BY <1>1, DoneFact DEF IInv, JoinersOnStack, ResultsKept
<1>8. Phases'
  <2>1. \A q \in VPs : q \in Nat /\ (q >= 1 => q # 0)
    BY VPFact
  <2>. QED BY <1>2, <1>3, <2>1 DEF Phases
<1>. QED BY <1>4, <1>5, <1>6, <1>7, <1>8 DEF IInv, LocalInv

\* The first call of init.
LEMMA InitInv ==
  ASSUME Init
  PROVE  IInv
<1>1. 0 \in VPs /\ N \in Nat \ {0} /\ Sessions \in Nat \ {0}
  BY VPFact, VPAssumption
<1>2. \A q \in VPs : /\ pc[q] = IF q = 0 THEN "init" ELSE "start"
                     /\ frames[q] = <<>> /\ Len(frames[q]) = 0 /\ current_job[q] = NULL
                     /\ context_stack[q] = <<>> /\ it[q] = 1 /\ job_list[q] = {}
  BY DEF Init
<1>3. TypeOK
  <2>1. <<>> \in Seq(Fns) /\ NULL \in Fns /\ 1 \in 0 .. N /\ {} \in SUBSET Jobs
    BY <1>1 DEF Fns
  <2>2. /\ pc \in [VPs -> PCs] /\ frames \in [VPs -> Seq(Fns)]
        /\ current_job \in [VPs -> Fns] /\ context_stack \in [VPs -> Seq(Fns)]
        /\ it \in [VPs -> 0 .. N] /\ job_list \in [VPs -> SUBSET Jobs]
    BY <2>1 DEF Init, PCs
  <2>3. \A q \in VPs : pc[q] # "steal"
    BY <1>2
  <2>4. /\ state \in [Jobs -> {"New", "Ready", "Running", "Finished"}]
        /\ parent \in [Jobs -> Fns] /\ result \in [Jobs -> {"Unset", "Exit", "Return"}]
        /\ forker \in [Jobs -> Fns] /\ joining \in [Fns -> Fns]
    BY <2>1 DEF Init
  <2>5. join_counter \in [Jobs -> Uint16] /\ session \in 1 .. Sessions /\ idle_vps \in Int
    BY <1>1, VPAssumption DEF Init
  <2>6. deleted \in SUBSET Jobs
    BY DEF Init
  <2>. QED BY <2>2, <2>3, <2>4, <2>5, <2>6 DEF TypeOK
<1>4. \A q \in VPs : LocalInv(q)
  BY <1>2 DEF LocalInv, ShapeAt, ContextAt, HandAt, IdleAt, ResultAt, InFunction, NoFunction
<1>5. EveryJobInOnePlace
  <2>1. \A q \in VPs : ~InHand(q)
    BY <1>2 DEF InHand
  <2>2. \A j \in Jobs, q \in VPs, i \in Int : ~At(j, q, i)
    BY <1>2, <2>1 DEF At
  <2>3. \A j \in Jobs : ~Pending(j)
    BY DEF Init, Pending
  <2>. QED BY <1>3, <2>2, <2>3, PlaceForm
<1>6. JoinersOnStack /\ ResultsKept
  BY DEF Init, JoinersOnStack, ResultsKept
<1>7. Phases
  <2>1. \A q \in VPs : q \in Nat /\ (q >= 1 => q # 0)
    BY VPFact
  <2>. QED BY <1>1, <1>2, <2>1 DEF Phases
<1>. QED BY <1>3, <1>4, <1>5, <1>6, <1>7 DEF IInv, LocalInv

\* Nothing changes.
LEMMA StutterInv ==
  ASSUME IInv, UNCHANGED vars
  PROVE  IInv'
BY DEF vars, IInv, TypeOK, ShapeAt, ContextAt, HandAt, IdleAt, ResultAt, JoinersOnStack,
       EveryJobInOnePlace, Somewhere, NowhereElse, At, InHand, ResultsKept, Phases,
       InRunLoop, Fn

-----------------------------------------------------------------------------
(* The theorems *)

\* Every step of every VP, of the program and of init and terminate keeps the
\* invariant, as long as fork_job puts jobs in the list.
LEMMA NextInv ==
  ASSUME IInv, Shallow, [Next]_vars
  PROVE  IInv'
<1>1. ASSUME NEW p \in VPs, Runtime(p) PROVE IInv'
  <2>1. CASE GetJob(p)           BY <2>1, GetJobInv
  <2>2. CASE GetNothing(p)       BY <2>2, GetNothingInv
  <2>3. CASE GetCas(p)           BY <2>3, GetCasInv
  <2>4. CASE IdleAdd(p)          BY <2>4, IdleAddInv
  <2>5. CASE StealJob(p)         BY <2>5, StealJobInv
  <2>6. CASE StealNothing(p)     BY <2>6, StealNothingInv
  <2>7. CASE StealCas(p)         BY <2>7, StealCasInv
  <2>8. CASE IdleSub(p)          BY <2>8, IdleSubInv
  <2>9. CASE Suspend(p)          BY <2>9, SuspendInv
  <2>10. CASE Restore(p)         BY <2>10, RestoreInv
  <2>11. CASE JoinCheck(p) \/ JoinRead(p)
    BY <2>11, JoinCheckReadInv
  <2>12. CASE \E zero \in BOOLEAN : JoinReturn(p, zero)
    BY <2>12, JoinReturnInv
  <2>13. CASE Finish(p)          BY <2>13, FinishInv
  <2>. QED BY <1>1, <2>1, <2>2, <2>3, <2>4, <2>5, <2>6, <2>7, <2>8, <2>9, <2>10,
              <2>11, <2>12, <2>13 DEF Runtime
<1>2. ASSUME NEW p \in VPs, Program(p) PROVE IInv'
  <2>1. CASE \E x \in Jobs : Fork(p, x)
    BY <2>1, ForkInv
  <2>2. CASE \E x \in Jobs : JoinBegin(p, x)
    BY <2>2, JoinBeginInv
  <2>3. CASE ExitValue(p) \/ Return(p)
    BY <2>3, ExitOrReturnInv
  <2>. QED BY <1>2, <2>1, <2>2, <2>3 DEF Program
<1>3. CASE LifeCycle
  BY <1>3, CreateThreadInv, StartMainInv, TerminateInv, JoinThreadsInv DEF LifeCycle
<1>4. CASE Reinit
  BY <1>4, ReinitInv
<1>5. CASE Ended \/ UNCHANGED vars
  BY <1>5, StutterInv DEF Ended
<1>. QED BY <1>1, <1>2, <1>3, <1>4, <1>5 DEF Next

\* The inductive invariant holds in every execution in which no VP suspends
\* more joins than fork_job's limit, for any number of VPs, jobs and sessions
\* of init and terminate.
THEOREM SchedulerInvariant == Spec /\ []Shallow => []IInv
<1>1. Init => IInv
  BY InitInv
<1>2. IInv /\ Shallow /\ [Next]_vars => IInv'
  BY NextInv
<1>. QED BY <1>1, <1>2, PTL DEF Spec

\* get_job, steal_job, the suspensions and fork_job never lose a job or let two
\* VPs have it: from fork to the end of its function it is in one place.
THEOREM JobsInOnePlace == Spec /\ []Shallow => []EveryJobInOnePlace
<1>1. IInv => EveryJobInOnePlace
  BY DEF IInv
<1>. QED BY <1>1, SchedulerInvariant, PTL

\* current_job and context_stack follow the C stack of the VP through any
\* nesting of suspend_current_job_and_run_another.
THEOREM ContextsMatch == Spec /\ []Shallow => []ContextMatchesStack
<1>1. IInv => ContextMatchesStack
  BY DEF IInv, ContextAt, ContextMatchesStack, InFunction
<1>. QED BY <1>1, SchedulerInvariant, PTL

\* A VP that leaves run() leaves no job in its list, and terminate returns
\* only when every forked job has finished.
THEOREM TerminationClean == Spec /\ []Shallow => []NothingLeftBehind
<1>1. IInv => NothingLeftBehind
  <2>. SUFFICES ASSUME IInv PROVE NothingLeftBehind
    OBVIOUS
  <2>1. \A p \in VPs : pc[p] = "left" => job_list[p] = {} /\ InRunLoop(p)
    BY DEF IInv, ShapeAt, IdleAt, NoFunction, InRunLoop
  <2>. QED BY <2>1, DoneFact DEF NothingLeftBehind
<1>. QED BY <1>1, SchedulerInvariant, PTL

\* A function's own stores into its result come before its job is Finished.
LEMMA ResultStep ==
  ASSUME IInv, [Next]_vars, NEW j \in Jobs, state[j] = "Finished"
  PROVE  result'[j] = result[j]
<1>1. CASE \E p \in VPs : ExitValue(p) \/ Return(p)
  <2>1. PICK p \in VPs : ExitValue(p) \/ Return(p)
    BY <1>1
  <2>2. pc[p] = "user" /\ TypeOK /\ ShapeAt(p) /\ ContextAt(p)
    BY <2>1 DEF ExitValue, Return, IInv
  <2>3. frames[p] # <<>> /\ current_job[p] = Fn(p)
    BY <2>2 DEF ShapeAt, ContextAt, InFunction
  <2>4. Fn(p) # NULL => Fn(p) \in Jobs /\ state[Fn(p)] = "Running"
    BY <2>3, TopFact
  <2>5. Fn(p) # NULL /\ \E v : result' = [result EXCEPT ![Fn(p)] = v]
    BY <2>1, <2>3 DEF ExitValue, Return
  <2>. QED BY <2>2, <2>4, <2>5 DEF TypeOK
<1>2. CASE \E p \in VPs : GetJob(p) \/ GetNothing(p) \/ GetCas(p) \/ IdleAdd(p)
                        \/ StealJob(p) \/ StealNothing(p) \/ StealCas(p) \/ IdleSub(p)
  BY <1>2 DEF GetJob, GetNothing, GetCas, IdleAdd, StealJob, StealNothing, StealCas,
              IdleSub, jobVars
<1>3. CASE \E p \in VPs : \/ Suspend(p) \/ Restore(p) \/ JoinCheck(p) \/ JoinRead(p)
                        \/ \E zero \in BOOLEAN : JoinReturn(p, zero)
                        \/ Finish(p)
  BY <1>3 DEF Suspend, Restore, JoinCheck, JoinRead, JoinReturn, Finish, jobVars
<1>4. CASE \E p \in VPs, k \in Jobs : Fork(p, k) \/ JoinBegin(p, k)
  BY <1>4 DEF Fork, JoinBegin, jobVars
<1>5. CASE LifeCycle \/ Reinit \/ UNCHANGED vars
  BY <1>5 DEF LifeCycle, CreateThread, StartMain, Terminate, JoinThreads, Reinit, jobVars, vars
<1>. QED BY <1>1, <1>2, <1>3, <1>4, <1>5 DEF Next, Runtime, Program, Ended

\* A join reads the result of a finished job only, and whoever ran the job and
\* whatever it stored, that result is in place and does not change any more.
THEOREM JoinsReadResults == Spec /\ []Shallow => JoinReadsFinalResult
<1>1. IInv /\ [Next]_vars =>
        [/\ \A p \in VPs : pc[p] \in {"read", "dec"} => state[joining[Fn(p)]] = "Finished"
         /\ \A j \in Jobs : state[j] = "Finished" =>
               result[j] # "Unset" /\ result'[j] = result[j]]_vars
  <2>1. IInv => \A p \in VPs : pc[p] \in {"read", "dec"} =>
                   state[joining[Fn(p)]] = "Finished"
    BY DEF IInv, ResultAt
  <2>2. IInv => \A j \in Jobs : state[j] = "Finished" => result[j] # "Unset"
    BY DEF IInv, ResultsKept
  <2>. QED BY <2>1, <2>2, ResultStep
<1>. QED BY <1>1, SchedulerInvariant, PTL DEF Spec, JoinReadsFinalResult
-----------------------------------------------------------------------------
(* Every program, whatever fork_job runs in place *)

\* The job m, and no other, comes to position i of VP p and is nowhere else
\* then; it was somewhere before, or is forked now.
Arrives(m, p, i) ==
  \A j \in Jobs :
    /\ \A q \in VPs, k \in Int :
          At(j, q, k)' => IF j = m THEN q = p /\ k = i ELSE At(j, q, k)
    /\ j = m => state'[j] # "New" /\ (state[j] = "New" \/ Somewhere(j))
    /\ state'[j] = "New" => state[j] = "New"

\* Such a step keeps every job in one place.
LEMMA OnceStep ==
  ASSUME NoJobTwice, OnceTypes, OnceTypes', NEW m, NEW p, NEW i, Arrives(m, p, i)
  PROVE  NoJobTwice' /\ NoComeback
<1>0. \A j \in Jobs :
        /\ \A q \in VPs, k \in Int :
              At(j, q, k)' => IF j = m THEN q = p /\ k = i ELSE At(j, q, k)
        /\ j = m => state'[j] # "New" /\ (state[j] = "New" \/ Somewhere(j))
        /\ state'[j] = "New" => state[j] = "New"
  BY DEF Arrives
<1>1. \A q \in VPs : Len(frames[q]) \in Nat /\ Len(frames'[q]) \in Nat
  BY LenProperties DEF OnceTypes
<1>2. \A j \in Jobs, q \in VPs, k \in Int : At(j, q, k) => k \in -1 .. Len(frames[q])
  BY <1>1 DEF At
<1>3. \A q \in VPs : \A k \in -1 .. Len(frames'[q]) : k \in Int
  BY <1>1
<1>4. \A j \in Jobs : NowhereElse(j) /\ (state[j] = "New" => ~Somewhere(j))
  BY DEF NoJobTwice
<1>5. ASSUME NEW j \in Jobs, j # m
      PROVE  \A q \in VPs, k \in Int : At(j, q, k)' => At(j, q, k) /\ k \in -1 .. Len(frames[q])
  BY <1>0, <1>2, <1>5
<1>6. ASSUME NEW j \in Jobs
      PROVE  NowhereElse(j)'
  <2>1. CASE j = m
    BY <1>0, <1>3, <2>1 DEF NowhereElse
  <2>2. CASE j # m
    BY <1>3, <1>4, <1>5, <2>2 DEF NowhereElse
  <2>. QED BY <2>1, <2>2
<1>7. ASSUME NEW j \in Jobs, Somewhere(j)'
      PROVE  (Somewhere(j) \/ state[j] = "New") /\ state'[j] # "New"
  <2>1. CASE j = m
    BY <1>0, <1>7, <2>1
  <2>2. CASE j # m
    <3>1. Somewhere(j)
      BY <1>3, <1>5, <1>7, <2>2 DEF Somewhere
    <3>. QED BY <1>0, <1>4, <3>1
  <2>. QED BY <2>1, <2>2
<1>. QED BY <1>6, <1>7 DEF NoJobTwice, NoComeback

\* No job comes to a place.
LEMMA OnceQuiet ==
  ASSUME NoJobTwice, OnceTypes, OnceTypes',
         \A j \in Jobs, q \in VPs, k \in Int : At(j, q, k)' => At(j, q, k),
         \A j \in Jobs : state'[j] = "New" => state[j] = "New"
  PROVE  NoJobTwice' /\ NoComeback
<1>1. NULL \notin Jobs
  BY VPAssumption
<1>2. Arrives(NULL, 0, 0)
  BY <1>1 DEF Arrives
<1>. QED BY <1>2, OnceStep

\* Only VP p's thread takes a step: the others stand as before.
LEMMA OnceOthers ==
  ASSUME OnceInv, NEW p \in VPs,
         \A q \in VPs \ {p} : /\ pc'[q] = pc[q] /\ it'[q] = it[q]
                              /\ frames'[q] = frames[q]
                              /\ current_job'[q] = current_job[q],
         ThreadAt(p)'
  PROVE  \A q \in VPs : ThreadAt(q)'
<1>1. ASSUME NEW q \in VPs \ {p}
      PROVE  ThreadAt(q)'
  <2>1. ThreadAt(q)
    BY DEF OnceInv
  <2>. QED BY <2>1 DEF ThreadAt, InHand
<1>. QED BY <1>1

\* VP p moves within its own code and gains no job.
LEMMA OncePlain ==
  ASSUME OnceInv, NEW p \in VPs, NEW c, NEW b \in PCs,
         pc' = [pc EXCEPT ![p] = b],
         current_job' = [current_job EXCEPT ![p] = c],
         it' \in [VPs -> Nat], \A q \in VPs \ {p} : it'[q] = it[q],
         b = "steal" => it'[p] \in VPs,
         frames' = frames, job_list' = job_list, state' = state,
         b \in InFunction \cup {"restore"} => frames[p] # <<>>,
         b \in {"idle", "steal"} => c = NULL,
         b \notin {"getcas", "stealcas"}, b = "sub" => c = NULL
  PROVE  OnceInv' /\ NoComeback
<1>1. OnceTypes /\ NoJobTwice
  BY DEF OnceInv
<1>2. /\ pc'[p] = b /\ current_job'[p] = c
      /\ \A q \in VPs \ {p} : pc'[q] = pc[q] /\ current_job'[q] = current_job[q]
  BY <1>1 DEF OnceTypes
<1>3. current_job' = [q \in VPs |-> current_job'[q]]
  BY <1>1 DEF OnceTypes
<1>4. OnceTypes'
  BY <1>1, <1>3 DEF OnceTypes
<1>5. ~InHand(p)' /\ ThreadAt(p)'
  BY <1>2 DEF InHand, ThreadAt
<1>6. \A q \in VPs : ThreadAt(q)'
  BY <1>2, <1>5, OnceOthers
<1>7. \A j \in Jobs, q \in VPs, k \in Int : At(j, q, k)' => At(j, q, k)
  BY <1>2, <1>5 DEF At, InHand
<1>. QED BY <1>1, <1>4, <1>6, <1>7, OnceQuiet DEF OnceInv

\* The steal loop: the next VP to ask is a VP, and the end of the loop leads
\* back to the function below, if there is one.
LEMMA OnceScan ==
  ASSUME OnceInv, NEW p \in VPs, NEW k \in Nat, ScanFrom(p, NextVictim(p, k)),
         current_job' = [current_job EXCEPT ![p] = NULL],
         frames' = frames, job_list' = job_list, state' = state
  PROVE  OnceInv' /\ NoComeback
<1>1. PICK h \in Nat : h = NextVictim(p, k)
  BY VPFact DEF NextVictim
<1>2. pc \in [VPs -> PCs] /\ it \in [VPs -> Nat] /\ N \in Nat
  BY VPFact DEF OnceInv, OnceTypes
<1>3. CASE h < N
  <2>1. pc' = [pc EXCEPT ![p] = "steal"] /\ it' = [it EXCEPT ![p] = h] /\ h \in VPs
    BY <1>1, <1>2, <1>3 DEF ScanFrom, VPs
  <2>. QED BY <1>2, <2>1, OncePlain DEF PCs, InFunction
<1>4. CASE ~(h < N)
  <2>1. pc' = [pc EXCEPT ![p] = AfterSteal(p)] /\ it' = [it EXCEPT ![p] = 1]
    BY <1>1, <1>4 DEF ScanFrom
  <2>2. CASE InRunLoop(p)
    BY <1>2, <2>1, <2>2, OncePlain DEF PCs, InFunction, AfterSteal
  <2>3. CASE ~InRunLoop(p)
    BY <1>2, <2>1, <2>3, OncePlain DEF PCs, InFunction, AfterSteal, InRunLoop
  <2>. QED BY <2>2, <2>3
<1>. QED BY <1>3, <1>4

\* The steps of run(), join_job and the functions that move no job.
LEMMA OncePlainActions ==
  ASSUME OnceInv, NEW p \in VPs,
         \/ GetNothing(p) \/ IdleAdd(p) \/ StealNothing(p)
         \/ (IdleSub(p) /\ current_job[p] = NULL)
         \/ Suspend(p) \/ Restore(p) \/ JoinCheck(p) \/ JoinRead(p)
         \/ \E zero \in BOOLEAN : JoinReturn(p, zero)
         \/ \E j \in Jobs : JoinBegin(p, j)
         \/ ExitValue(p) \/ Return(p)
  PROVE  OnceInv' /\ NoComeback
<1>1. /\ OnceTypes /\ ThreadAt(p) /\ 0 \in Nat
      /\ it \in [VPs -> Nat] /\ pc \in [VPs -> PCs]
  BY DEF OnceInv, OnceTypes
<1>2. /\ current_job = [current_job EXCEPT ![p] = current_job[p]]
      /\ pc = [pc EXCEPT ![p] = pc[p]]
  BY <1>1 DEF OnceTypes
<1>3. CASE GetNothing(p)
  <2>1. /\ current_job' = [current_job EXCEPT ![p] = NULL]
        /\ frames' = frames /\ job_list' = job_list /\ state' = state
    BY <1>3 DEF GetNothing, jobVars
  <2>2. CASE InRunLoop(p)
    <3>1. pc' = [pc EXCEPT ![p] = "idle"] /\ it' = it
      BY <1>3, <2>2 DEF GetNothing
    <3>. QED BY <1>1, <2>1, <3>1, OncePlain DEF PCs, InFunction
  <2>3. CASE ~InRunLoop(p)
    BY <1>1, <1>3, <2>1, <2>3, OnceScan DEF GetNothing
  <2>. QED BY <2>2, <2>3
<1>4. CASE IdleAdd(p)
  <2>1. /\ current_job' = [current_job EXCEPT ![p] = NULL]
        /\ frames' = frames /\ job_list' = job_list /\ state' = state
    BY <1>1, <1>2, <1>4 DEF IdleAdd, jobVars, ThreadAt
  <2>2. CASE LastIdle(idle_vps + 1)
    <3>1. pc' = [pc EXCEPT ![p] = "left"] /\ it' = it
      BY <1>4, <2>2 DEF IdleAdd
    <3>. QED BY <1>1, <2>1, <3>1, OncePlain DEF PCs, InFunction
  <2>3. CASE ~LastIdle(idle_vps + 1)
    BY <1>1, <1>4, <2>1, <2>3, OnceScan DEF IdleAdd
  <2>. QED BY <2>2, <2>3
<1>5. CASE StealNothing(p)
  <2>1. /\ current_job' = [current_job EXCEPT ![p] = NULL]
        /\ frames' = frames /\ job_list' = job_list /\ state' = state
    BY <1>1, <1>2, <1>5 DEF StealNothing, jobVars, ThreadAt
  <2>2. it[p] + 1 \in Nat /\ ScanFrom(p, NextVictim(p, it[p] + 1))
    BY <1>1, <1>5 DEF StealNothing
  <2>. QED BY <2>1, <2>2, OnceScan
<1>6. ASSUME NEW b \in PCs, pc' = [pc EXCEPT ![p] = b],
             NEW c, current_job' = [current_job EXCEPT ![p] = c],
             it' = it, frames' = frames, job_list' = job_list, state' = state,
             b \in {"get", "check", "user", "read", "dec", "return"},
             b = "get" \/ frames[p] # <<>>
      PROVE  OnceInv' /\ NoComeback
  <2>1. /\ it' \in [VPs -> Nat] /\ \A q \in VPs \ {p} : it'[q] = it[q]
        /\ b \notin {"steal", "idle", "getcas", "stealcas", "sub", "restore"}
        /\ b \in InFunction \cup {"restore"} => frames[p] # <<>>
    BY <1>1, <1>6 DEF InFunction
  <2>. QED BY <1>6, <2>1, OncePlain
<1>7. CASE IdleSub(p) /\ current_job[p] = NULL
  BY <1>2, <1>6, <1>7 DEF IdleSub, PCs, jobVars
<1>8. CASE Suspend(p)
  BY <1>2, <1>6, <1>8 DEF Suspend, PCs, jobVars
<1>9. CASE Restore(p)
  <2>1. /\ pc[p] = "restore" /\ pc' = [pc EXCEPT ![p] = "check"] /\ it' = it
        /\ current_job' = [current_job EXCEPT ![p] = Top(context_stack[p])]
        /\ frames' = frames /\ job_list' = job_list /\ state' = state
    BY <1>9 DEF Restore, jobVars
  <2>2. frames[p] # <<>>
    BY <1>1, <2>1 DEF ThreadAt
  <2>. QED BY <1>6, <2>1, <2>2 DEF PCs
<1>10. CASE JoinCheck(p) \/ JoinRead(p)
  BY <1>1, <1>2, <1>6, <1>10 DEF JoinCheck, JoinRead, PCs, jobVars, privVars, ThreadAt, InFunction
<1>11. CASE \E zero \in BOOLEAN : JoinReturn(p, zero)
  BY <1>1, <1>2, <1>6, <1>11 DEF JoinReturn, PCs, privVars, ThreadAt, InFunction
<1>12. CASE \E j \in Jobs : JoinBegin(p, j)
  BY <1>1, <1>2, <1>6, <1>12 DEF JoinBegin, PCs, jobVars, privVars, ThreadAt, InFunction
<1>13. CASE ExitValue(p)
  <2>1. /\ pc[p] = "user" /\ pc' = [pc EXCEPT ![p] = "user"]
        /\ current_job' = [current_job EXCEPT ![p] = current_job[p]]
        /\ it' = it /\ frames' = frames /\ job_list' = job_list /\ state' = state
    BY <1>2, <1>13 DEF ExitValue, privVars
  <2>. QED BY <1>1, <1>6, <2>1 DEF PCs, ThreadAt, InFunction
<1>14. CASE Return(p)
  BY <1>1, <1>2, <1>6, <1>14 DEF Return, PCs, privVars, ThreadAt, InFunction
<1>. QED BY <1>3, <1>4, <1>5, <1>7, <1>8, <1>9, <1>10, <1>11, <1>12, <1>13, <1>14

\* get_job and steal_job: a job goes from the list of VP r to the hand of VP p.
LEMMA OnceTake ==
  ASSUME OnceInv, NEW p \in VPs, NEW r \in VPs, NEW j0 \in job_list[r],
         NEW b \in {"getcas", "stealcas"},
         job_list' = [job_list EXCEPT ![r] = Extracted(@, j0)],
         current_job' = [current_job EXCEPT ![p] = j0],
         pc' = [pc EXCEPT ![p] = b],
         it' \in [VPs -> Nat], \A q \in VPs \ {p} : it'[q] = it[q],
         frames' = frames, state' = state
  PROVE  OnceInv' /\ NoComeback
<1>1. OnceTypes /\ NoJobTwice
  BY DEF OnceInv
<1>2. j0 \in Jobs
  BY <1>1 DEF OnceTypes
<1>3. /\ pc'[p] = b /\ current_job'[p] = j0
      /\ \A q \in VPs \ {p} : pc'[q] = pc[q] /\ current_job'[q] = current_job[q]
      /\ \A q \in VPs : job_list'[q] = IF q = r THEN job_list[r] \ {j0} ELSE job_list[q]
  BY <1>1 DEF OnceTypes, Extracted
<1>4. OnceTypes'
  <2>1. current_job' = [q \in VPs |-> current_job'[q]]
    BY <1>1 DEF OnceTypes
  <2>2. job_list' \in [VPs -> SUBSET Jobs] /\ pc' \in [VPs -> PCs]
    BY <1>1 DEF OnceTypes, Extracted, PCs
  <2>. QED BY <1>1, <2>1, <2>2 DEF OnceTypes
<1>5. ThreadAt(p)'
  BY <1>2, <1>3 DEF ThreadAt, InFunction
<1>6. \A q \in VPs : ThreadAt(q)'
  BY <1>3, <1>5, OnceOthers
<1>7. At(j0, r, 0)
  BY DEF At
<1>8. \A j \in Jobs, q \in VPs, k \in Int :
         At(j, q, k)' => At(j, q, k) \/ (j = j0 /\ q = p /\ k = -1)
  BY <1>3 DEF At, InHand
<1>9. \A q \in VPs, k \in Int : At(j0, q, k) => q = r /\ k = 0
  <2>1. NowhereElse(j0)
    BY <1>1, <1>2 DEF NoJobTwice
  <2>2. \A q \in VPs : Len(frames[q]) \in Nat
    BY <1>1, LenProperties DEF OnceTypes
  <2>3. \A q \in VPs, k \in Int : At(j0, q, k) => k \in -1 .. Len(frames[q])
    BY <2>2 DEF At
  <2>. QED BY <1>7, <2>1, <2>3 DEF NowhereElse
<1>10. ~At(j0, r, 0)'
  BY <1>3 DEF At
<1>11. \A q \in VPs, k \in Int : At(j0, q, k)' => q = p /\ k = -1
  BY <1>2, <1>8, <1>9, <1>10
<1>12. Somewhere(j0) /\ state'[j0] # "New"
  <2>1. 0 \in -1 .. Len(frames[r])
    BY <1>1, LenProperties DEF OnceTypes
  <2>2. Somewhere(j0)
    BY <1>7, <2>1 DEF Somewhere
  <2>. QED BY <1>1, <1>2, <2>2 DEF NoJobTwice
<1>13. Arrives(j0, p, -1)
  BY <1>8, <1>11, <1>12 DEF Arrives
<1>14. NoJobTwice' /\ NoComeback
  BY <1>1, <1>4, <1>13, OnceStep
<1>. QED BY <1>4, <1>6, <1>14 DEF OnceInv

\* get_job and steal_job on their own: the list of p itself, or of a victim.
LEMMA OnceTakeActions ==
  ASSUME OnceInv, NEW p \in VPs, GetJob(p) \/ StealJob(p)
  PROVE  OnceInv' /\ NoComeback
<1>1. /\ ThreadAt(p) /\ pc \in [VPs -> PCs] /\ it \in [VPs -> Nat]
  BY DEF OnceInv, OnceTypes
<1>2. CASE GetJob(p)
  <2>1. PICK j0 \in job_list[p] :
          /\ job_list' = [job_list EXCEPT ![p] = Extracted(@, j0)]
          /\ current_job' = [current_job EXCEPT ![p] = j0]
    BY <1>2 DEF GetJob
  <2>2. /\ pc' = [pc EXCEPT ![p] = "getcas"] /\ it' = it
        /\ frames' = frames /\ state' = state
    BY <1>2 DEF GetJob, jobVars
  <2>3. it' \in [VPs -> Nat] /\ \A q \in VPs \ {p} : it'[q] = it[q]
    BY <1>1, <2>2
  <2>. QED BY <2>1, <2>2, <2>3, OnceTake
<1>3. CASE StealJob(p)
  <2>1. PICK j0 \in job_list[it[p]] :
          /\ job_list' = [job_list EXCEPT ![it[p]] = Extracted(@, j0)]
          /\ current_job' = [current_job EXCEPT ![p] = j0]
    BY <1>3 DEF StealJob
  <2>2. /\ pc' = [pc EXCEPT ![p] = "stealcas"] /\ it' = [it EXCEPT ![p] = 1]
        /\ frames' = frames /\ state' = state /\ it[p] \in VPs
    BY <1>1, <1>3 DEF StealJob, jobVars, ThreadAt
  <2>3. it' \in [VPs -> Nat] /\ \A q \in VPs \ {p} : it'[q] = it[q]
    BY <1>1, <2>2
  <2>. QED BY <2>1, <2>2, <2>3, OnceTake
<1>. QED BY <1>2, <1>3

\* A job in hand is somewhere, so it was forked.
LEMMA OnceInHand ==
  ASSUME OnceInv, NEW p \in VPs, InHand(p)
  PROVE  /\ current_job[p] \in Jobs /\ At(current_job[p], p, -1)
         /\ Somewhere(current_job[p]) /\ state[current_job[p]] # "New"
         /\ \A q \in VPs, k \in Int : At(current_job[p], q, k) => q = p /\ k = -1
<1>. DEFINE x == current_job[p]
<1>1. x \in Jobs /\ OnceTypes /\ NoJobTwice
  BY DEF OnceInv, ThreadAt
<1>2. At(x, p, -1)
  BY DEF At
<1>3. \A q \in VPs : Len(frames[q]) \in Nat
  BY <1>1, LenProperties DEF OnceTypes
<1>4. Somewhere(x)
  <2>1. -1 \in -1 .. Len(frames[p])
    BY <1>3
  <2>. QED BY <1>2, <2>1 DEF Somewhere
<1>5. NowhereElse(x) /\ state[x] # "New"
  BY <1>1, <1>4 DEF NoJobTwice
<1>6. \A q \in VPs, k \in Int : At(x, q, k) => k \in -1 .. Len(frames[q])
  BY <1>3 DEF At
<1>7. \A q \in VPs, k \in Int : At(x, q, k) => q = p /\ k = -1
  BY <1>2, <1>3, <1>5, <1>6 DEF NowhereElse
<1>. QED BY <1>1, <1>2, <1>4, <1>5, <1>7

\* A compare and swap to Running: no state becomes New, none that was is kept
\* from it.
LEMMA OnceMark ==
  ASSUME OnceTypes, NEW x, MarkRunning(x) \/ MarkFinished(x)
  PROVE  /\ state' \in [Jobs -> {"New", "Ready", "Running", "Finished"}]
         /\ \A j \in Jobs : state'[j] = "New" <=> state[j] = "New"
  BY DEF OnceTypes, MarkRunning, MarkFinished

\* The function of the job x is called on p's stack; it was in p's hand, or is
\* forked now.
LEMMA OnceCall ==
  ASSUME OnceInv, NEW p \in VPs, NEW x \in Jobs, CallFunction(p, x),
         current_job' = current_job, it' = it, job_list' = job_list,
         state' \in [Jobs -> {"New", "Ready", "Running", "Finished"}],
         \A j \in Jobs : state'[j] = "New" => state[j] = "New",
         state'[x] # "New", state[x] = "New" \/ Somewhere(x),
         \A q \in VPs, k \in Int : At(x, q, k) => q = p /\ k = -1
  PROVE  OnceInv' /\ NoComeback
<1>1. OnceTypes /\ NoJobTwice
  BY DEF OnceInv
<1>2. frames[p] \in Seq(Fns) /\ x \in Fns
  BY <1>1 DEF OnceTypes, Fns
<1>3. PICK s \in Seq(Fns) : s = Append(frames[p], x)
  BY <1>2, AppendProperties
<1>4. /\ Len(s) = Len(frames[p]) + 1 /\ s[Len(s)] = x /\ s # <<>>
      /\ \A i \in 1 .. Len(frames[p]) : s[i] = frames[p][i]
      /\ Len(frames[p]) \in Nat
  BY <1>2, <1>3, AppendProperties, LenProperties
<1>5. /\ frames'[p] = s /\ frames' \in [VPs -> Seq(Fns)]
      /\ pc'[p] = "user" /\ pc' \in [VPs -> PCs]
      /\ \A q \in VPs \ {p} : pc'[q] = pc[q] /\ frames'[q] = frames[q]
  BY <1>1, <1>3 DEF CallFunction, OnceTypes, PCs
<1>6. OnceTypes'
  BY <1>1, <1>5 DEF OnceTypes
<1>7. ~InHand(p)' /\ ThreadAt(p)'
  BY <1>4, <1>5 DEF InHand, ThreadAt
<1>8. \A q \in VPs : ThreadAt(q)'
  BY <1>5, <1>7, OnceOthers
<1>9. ASSUME NEW j \in Jobs, NEW q \in VPs, NEW k \in Int, At(j, q, k)'
      PROVE  IF j = x THEN q = p /\ k = Len(s) ELSE At(j, q, k)
  <2>1. CASE q # p
    <3>1. At(j, q, k)
      BY <1>5, <1>9, <2>1 DEF At, InHand
    <3>. QED BY <2>1, <3>1
  <2>2. CASE q = p
    <3>1. (k = 0 /\ j \in job_list[p]) \/ (k \in 1 .. Len(s) /\ s[k] = j)
      BY <1>5, <1>7, <1>9, <2>2 DEF At
    <3>2. CASE k = Len(s) /\ s[k] = j
      BY <1>4, <2>2, <3>2
    <3>3. CASE ~(k = Len(s) /\ s[k] = j)
      <4>1. k >= 0 /\ ((k = 0 /\ j \in job_list[p]) \/ (k \in 1 .. Len(frames[p]) /\ frames[p][k] = j))
        BY <1>4, <3>1, <3>3
      <4>2. At(j, p, k)
        BY <4>1 DEF At
      <4>. QED BY <2>2, <4>1, <4>2
    <3>. QED BY <3>2, <3>3
  <2>. QED BY <2>1, <2>2
<1>10. Arrives(x, p, Len(s))
  BY <1>9 DEF Arrives
<1>. QED BY <1>1, <1>6, <1>8, <1>10, OnceStep DEF OnceInv

\* The compare and swap of the taker, and the call of the job's function.
LEMMA OnceCallActions ==
  ASSUME OnceInv, NEW p \in VPs,
         \/ GetCas(p)
         \/ (StealCas(p) /\ ~InRunLoop(p))
         \/ (IdleSub(p) /\ current_job[p] # NULL)
  PROVE  OnceInv' /\ NoComeback
<1>. DEFINE x == current_job[p]
<1>1. InHand(p)
  BY DEF GetCas, StealCas, IdleSub, InHand
<1>2. /\ x \in Jobs /\ Somewhere(x) /\ state[x] # "New" /\ OnceTypes
      /\ \A q \in VPs, k \in Int : At(x, q, k) => q = p /\ k = -1
  BY <1>1, OnceInHand DEF OnceInv
<1>3. CallFunction(p, x) /\ current_job' = current_job /\ it' = it /\ job_list' = job_list
  BY DEF GetCas, StealCas, IdleSub
<1>4. MarkRunning(x) \/ state' = state
  BY DEF GetCas, StealCas, IdleSub, jobVars
<1>5. /\ state' \in [Jobs -> {"New", "Ready", "Running", "Finished"}]
      /\ \A j \in Jobs : state'[j] = "New" <=> state[j] = "New"
  <2>1. CASE MarkRunning(x)
    BY <1>2, <2>1, OnceMark
  <2>2. CASE state' = state
    BY <1>2, <2>2 DEF OnceTypes
  <2>. QED BY <1>4, <2>1, <2>2
<1>. QED BY <1>2, <1>3, <1>5, OnceCall

\* A thief in run() keeps the job in hand until it is no longer idle.
LEMMA OnceStealCas ==
  ASSUME OnceInv, NEW p \in VPs, StealCas(p), InRunLoop(p)
  PROVE  OnceInv' /\ NoComeback
<1>1. OnceTypes /\ NoJobTwice /\ pc[p] = "stealcas" /\ InHand(p) /\ current_job[p] \in Jobs
  BY DEF OnceInv, StealCas, InHand, ThreadAt
<1>2. /\ pc'[p] = "sub" /\ pc' \in [VPs -> PCs]
      /\ \A q \in VPs \ {p} : pc'[q] = pc[q]
      /\ frames' = frames /\ current_job' = current_job /\ it' = it /\ job_list' = job_list
      /\ MarkRunning(current_job[p])
  BY <1>1 DEF StealCas, OnceTypes, PCs
<1>3. /\ state' \in [Jobs -> {"New", "Ready", "Running", "Finished"}]
      /\ \A j \in Jobs : state'[j] = "New" <=> state[j] = "New"
  BY <1>1, <1>2, OnceMark
<1>4. OnceTypes'
  BY <1>1, <1>2, <1>3 DEF OnceTypes
<1>5. ThreadAt(p)'
  BY <1>1, <1>2 DEF ThreadAt, InFunction
<1>6. \A q \in VPs : ThreadAt(q)'
  BY <1>2, <1>5, OnceOthers
<1>7. \A q \in VPs : InHand(q)' => InHand(q)
  BY <1>1, <1>2 DEF InHand
<1>8. \A j \in Jobs, q \in VPs, k \in Int : At(j, q, k)' => At(j, q, k)
  BY <1>2, <1>7 DEF At
<1>. QED BY <1>1, <1>3, <1>4, <1>6, <1>8, OnceQuiet DEF OnceInv

\* fork_job: the new job enters the list, or its function is called in place.
LEMMA OnceFork ==
  ASSUME OnceInv, NEW p \in VPs, NEW x \in Jobs, Fork(p, x)
  PROVE  OnceInv' /\ NoComeback
<1>1. /\ OnceTypes /\ NoJobTwice /\ pc[p] = "user" /\ state[x] = "New" /\ ThreadAt(p)
      /\ state' = [state EXCEPT ![x] = "Ready"] /\ current_job' = current_job /\ it' = it
  BY DEF OnceInv, Fork
<1>2. /\ state' \in [Jobs -> {"New", "Ready", "Running", "Finished"}] /\ state'[x] # "New"
      /\ \A j \in Jobs : state'[j] = "New" => state[j] = "New"
  BY <1>1 DEF OnceTypes
<1>3. ~Somewhere(x)
  BY <1>1 DEF NoJobTwice
<1>4. \A q \in VPs, k \in Int : ~At(x, q, k)
  <2>1. \A q \in VPs : Len(frames[q]) \in Nat
    BY <1>1, LenProperties DEF OnceTypes
  <2>2. \A q \in VPs, k \in Int : At(x, q, k) => k \in -1 .. Len(frames[q])
    BY <2>1 DEF At
  <2>. QED BY <1>3, <2>2 DEF Somewhere
<1>5. CASE Len(context_stack[p]) > ContextLimit
  <2>1. CallFunction(p, x) /\ job_list' = job_list
    BY <1>5 DEF Fork
  <2>. QED BY <1>1, <1>2, <1>4, <2>1, OnceCall
<1>6. CASE ~(Len(context_stack[p]) > ContextLimit)
  <2>1. /\ job_list' = [job_list EXCEPT ![p] = @ \cup {x}] /\ pc' = pc /\ frames' = frames
    BY <1>6 DEF Fork
  <2>2. /\ job_list' \in [VPs -> SUBSET Jobs] /\ job_list'[p] = job_list[p] \cup {x}
        /\ \A q \in VPs \ {p} : job_list'[q] = job_list[q]
    BY <1>1, <2>1 DEF OnceTypes
  <2>3. OnceTypes'
    BY <1>1, <1>2, <2>1, <2>2 DEF OnceTypes
  <2>4. ThreadAt(p)'
    BY <1>1, <2>1 DEF ThreadAt, InHand
  <2>5. \A q \in VPs : ThreadAt(q)'
    BY <1>1, <2>1, <2>4, OnceOthers
  <2>6. ASSUME NEW j \in Jobs, NEW q \in VPs, NEW k \in Int, At(j, q, k)'
        PROVE  At(j, q, k) \/ (j = x /\ q = p /\ k = 0)
    BY <1>1, <2>1, <2>2, <2>6 DEF At, InHand
  <2>7. Arrives(x, p, 0)
    <3>1. ASSUME NEW j \in Jobs, NEW q \in VPs, NEW k \in Int, At(j, q, k)'
          PROVE  IF j = x THEN q = p /\ k = 0 ELSE At(j, q, k)
      BY <1>4, <2>6, <3>1
    <3>. QED BY <1>1, <1>2, <3>1 DEF Arrives
  <2>. QED BY <1>1, <2>3, <2>5, <2>7, OnceStep DEF OnceInv
<1>. QED BY <1>5, <1>6

\* The function on top of the stack returned: its job leaves the stack.
LEMMA OnceFinish ==
  ASSUME OnceInv, NEW p \in VPs, Finish(p)
  PROVE  OnceInv' /\ NoComeback
<1>1. /\ OnceTypes /\ NoJobTwice /\ pc[p] = "return" /\ ThreadAt(p) /\ MarkFinished(Fn(p))
      /\ current_job' = current_job /\ it' = it /\ job_list' = job_list
  BY DEF OnceInv, Finish
<1>2. frames[p] \in Seq(Fns) /\ frames[p] # <<>>
  BY <1>1 DEF OnceTypes, ThreadAt, InFunction
<1>3. PICK rest \in Seq(Fns) :
        /\ rest = Pop(frames[p]) /\ Len(rest) = Len(frames[p]) - 1
        /\ Len(rest) \in Nat /\ Len(frames[p]) \in Nat
        /\ \A i \in 1 .. Len(rest) : rest[i] = frames[p][i]
  <2>1. /\ Pop(frames[p]) \in Seq(Fns) /\ Len(Pop(frames[p])) = Len(frames[p]) - 1
        /\ Len(frames[p]) \in Nat \ {0}
        /\ \A i \in 1 .. Len(frames[p]) - 1 : Pop(frames[p])[i] = frames[p][i]
    BY <1>2, PopFact
  <2>. QED BY <2>1
<1>4. /\ frames' = [frames EXCEPT ![p] = rest]
      /\ pc' = [pc EXCEPT ![p] =
                  IF rest = <<>> THEN "get"
                  ELSE IF joining[Top(rest)] # NULL THEN "restore" ELSE "user"]
  BY <1>3 DEF Finish
<1>5. /\ frames' \in [VPs -> Seq(Fns)] /\ frames'[p] = rest
      /\ \A q \in VPs \ {p} : frames'[q] = frames[q] /\ pc'[q] = pc[q]
      /\ pc' \in [VPs -> PCs] /\ pc'[p] \in {"get", "restore", "user"}
      /\ pc'[p] \in {"restore", "user"} => rest # <<>>
  BY <1>1, <1>4 DEF OnceTypes, PCs
<1>6. /\ state' \in [Jobs -> {"New", "Ready", "Running", "Finished"}]
      /\ \A j \in Jobs : state'[j] = "New" <=> state[j] = "New"
  BY <1>1, OnceMark
<1>7. OnceTypes'
  BY <1>1, <1>5, <1>6 DEF OnceTypes
<1>8. ~InHand(p)' /\ ThreadAt(p)'
  BY <1>5 DEF InHand, ThreadAt, InFunction
<1>9. \A q \in VPs : ThreadAt(q)'
  BY <1>1, <1>5, <1>8, OnceOthers
<1>10. ASSUME NEW j \in Jobs, NEW q \in VPs, NEW k \in Int, At(j, q, k)'
       PROVE  At(j, q, k)
  <2>1. CASE q # p
    BY <1>1, <1>5, <1>10, <2>1 DEF At, InHand
  <2>2. CASE q = p
    <3>1. (k = 0 /\ j \in job_list[p]) \/ (k \in 1 .. Len(rest) /\ rest[k] = j)
      BY <1>1, <1>5, <1>8, <1>10, <2>2 DEF At
    <3>. QED BY <1>3, <2>2, <3>1 DEF At
  <2>. QED BY <2>1, <2>2
<1>. QED BY <1>1, <1>6, <1>7, <1>9, <1>10, OnceQuiet DEF OnceInv

\* init and terminate: threads are created and end, main() runs and calls
\* terminate; none of them moves a job.
LEMMA OnceLifeCycle ==
  ASSUME OnceInv, LifeCycle
  PROVE  OnceInv' /\ NoComeback
<1>1. OnceTypes /\ NoJobTwice /\ 0 \in VPs /\ N \in Nat /\ NULL \notin Jobs /\ NULL \in Fns
  BY VPFact, VPAssumption DEF OnceInv, Fns
<1>2. \A q \in VPs : ThreadAt(q)
  BY DEF OnceInv
<1>3. state' = state /\ job_list' = job_list
  BY DEF LifeCycle, CreateThread, StartMain, Terminate, JoinThreads, jobVars
<1>4. CASE CreateThread
  <2>1. /\ pc' = [pc EXCEPT ![it[0]] = "get"] /\ it' = [it EXCEPT ![0] = @ + 1] /\ pc[0] = "init"
        /\ frames' = frames /\ current_job' = current_job
    BY <1>4 DEF CreateThread
  <2>2. /\ pc' \in [VPs -> PCs] /\ it' \in [VPs -> Nat]
        /\ \A q \in VPs : pc'[q] = pc[q] \/ pc'[q] = "get"
        /\ \A q \in VPs \ {0} : it'[q] = it[q]
    <3>1. pc \in [VPs -> PCs] /\ it \in [VPs -> Nat] /\ "get" \in PCs
      BY <1>1 DEF OnceTypes, PCs
    <3>2. pc' \in [VPs -> PCs] /\ \A q \in VPs : pc'[q] = pc[q] \/ pc'[q] = "get"
      BY <2>1, <3>1
    <3>3. it' \in [VPs -> Nat] /\ \A q \in VPs \ {0} : it'[q] = it[q]
      BY <1>1, <2>1, <3>1
    <3>. QED BY <3>2, <3>3
  <2>3. OnceTypes'
    BY <1>1, <1>3, <2>1, <2>2 DEF OnceTypes
  <2>4. \A q \in VPs : InHand(q)' => InHand(q)
    BY <2>1, <2>2 DEF InHand
  <2>5. \A q \in VPs : ThreadAt(q)'
    <3>1. ASSUME NEW q \in VPs
          PROVE  ThreadAt(q)'
      <4>1. pc'[q] = "steal" => it'[q] = it[q]
        BY <2>1, <2>2
      <4>. QED BY <1>2, <2>1, <2>2, <2>4, <4>1 DEF ThreadAt, InFunction
    <3>. QED BY <3>1
  <2>6. \A j \in Jobs, q \in VPs, k \in Int : At(j, q, k)' => At(j, q, k)
    BY <1>3, <2>1, <2>4 DEF At
  <2>. QED BY <1>1, <1>3, <2>3, <2>5, <2>6, OnceQuiet DEF OnceInv
<1>5. ASSUME NEW s \in Seq(Fns), s = <<NULL>> \/ s = <<>>, NEW b \in PCs, NEW c,
             frames' = [frames EXCEPT ![0] = s], pc' = [pc EXCEPT ![0] = b], it' = it,
             current_job' = [current_job EXCEPT ![0] = c],
             b \in {"user", "get", "done"}, b = "user" => s # <<>>
      PROVE  OnceInv' /\ NoComeback
  <2>1. /\ frames' \in [VPs -> Seq(Fns)] /\ frames'[0] = s /\ pc' \in [VPs -> PCs] /\ pc'[0] = b
        /\ \A q \in VPs \ {0} : /\ frames'[q] = frames[q] /\ pc'[q] = pc[q]
                                /\ current_job'[q] = current_job[q]
        /\ current_job' = [q \in VPs |-> current_job'[q]]
    BY <1>1, <1>5 DEF OnceTypes
  <2>2. OnceTypes'
    BY <1>1, <1>3, <1>5, <2>1 DEF OnceTypes
  <2>3. ~InHand(0)' /\ ThreadAt(0)'
    BY <1>5, <2>1 DEF InHand, ThreadAt, InFunction
  <2>4. \A q \in VPs : ThreadAt(q)'
    BY <1>1, <1>5, <2>1, <2>3, OnceOthers
  <2>5. \A i \in 1 .. Len(s) : s[i] \notin Jobs
    BY <1>1, <1>5
  <2>6. ASSUME NEW j \in Jobs, NEW q \in VPs, NEW k \in Int, At(j, q, k)'
        PROVE  At(j, q, k)
    <3>1. CASE q # 0
      BY <1>3, <2>1, <2>6, <3>1 DEF At, InHand
    <3>2. CASE q = 0
      BY <1>3, <2>1, <2>3, <2>5, <2>6, <3>2 DEF At
    <3>. QED BY <3>1, <3>2
  <2>. QED BY <1>1, <1>3, <2>2, <2>4, <2>6, OnceQuiet DEF OnceInv
<1>6. <<NULL>> \in Seq(Fns) /\ <<>> \in Seq(Fns) /\ <<NULL>> # <<>>
  BY <1>1
<1>7. current_job = [current_job EXCEPT ![0] = current_job[0]]
  BY <1>1 DEF OnceTypes
<1>8. CASE StartMain
  BY <1>5, <1>6, <1>7, <1>8 DEF StartMain, PCs
<1>9. CASE Terminate
  BY <1>5, <1>6, <1>9 DEF Terminate, PCs
<1>10. CASE JoinThreads
  <2>1. /\ pc' = [pc EXCEPT ![0] = "done"] /\ pc[0] = "left" /\ it' = it
        /\ frames' = frames /\ current_job' = current_job
    BY <1>1, <1>10 DEF JoinThreads, privVars
  <2>2. current_job' = [current_job EXCEPT ![0] = current_job[0]]
    BY <1>7, <2>1
  <2>3. it' \in [VPs -> Nat] /\ \A q \in VPs \ {0} : it'[q] = it[q]
    BY <1>1, <2>1 DEF OnceTypes
  <2>. QED BY <1>1, <1>3, <2>1, <2>2, <2>3, OncePlain DEF PCs, InFunction
<1>. QED BY <1>4, <1>8, <1>9, <1>10 DEF LifeCycle

\* A session starts without jobs.
LEMMA OnceEmpty ==
  ASSUME pc \in [VPs -> {"init", "start"}], frames = [p \in VPs |-> <<>>],
         current_job = [p \in VPs |-> NULL], it = [p \in VPs |-> 1],
         job_list = [p \in VPs |-> {}],
         state \in [Jobs -> {"New", "Ready", "Running", "Finished"}]
  PROVE  OnceInv
<1>1. <<>> \in Seq(Fns)
  OBVIOUS
<1>2. OnceTypes
  BY <1>1 DEF OnceTypes, PCs
<1>3. \A p \in VPs : ~InHand(p) /\ ThreadAt(p)
  BY DEF InHand, ThreadAt, InFunction
<1>4. \A j \in Jobs, q \in VPs, k \in Int : ~At(j, q, k)
  BY <1>3 DEF At
<1>5. \A q \in VPs : \A k \in -1 .. Len(frames[q]) : k \in Int
  BY <1>2, LenProperties DEF OnceTypes
<1>6. \A j \in Jobs : ~Somewhere(j) /\ NowhereElse(j)
  BY <1>4, <1>5 DEF Somewhere, NowhereElse
<1>. QED BY <1>2, <1>3, <1>6 DEF OnceInv, NoJobTwice

\* The first session of the program.
LEMMA OnceInit == Init => OnceInv
<1>. SUFFICES ASSUME Init PROVE OnceInv
  OBVIOUS
<1>1. pc \in [VPs -> {"init", "start"}]
  BY DEF Init
<1>. QED BY <1>1, OnceEmpty DEF Init

\* init again, after terminate.
LEMMA OnceReinit ==
  ASSUME OnceInv, Reinit
  PROVE  OnceInv' /\ NoComeback
<1>1. pc' \in [VPs -> {"init", "start"}]
  BY DEF Reinit
<1>2. state' \in [Jobs -> {"New", "Ready", "Running", "Finished"}]
  BY DEF Reinit, OnceInv, OnceTypes, jobVars
<1>3. /\ frames' = [p \in VPs |-> <<>>] /\ current_job' = [p \in VPs |-> NULL]
      /\ it' = [p \in VPs |-> 1] /\ job_list' = [p \in VPs |-> {}]
  BY DEF Reinit
<1>4. OnceTypes'
  <2>1. <<>> \in Seq(Fns)
    OBVIOUS
  <2>. QED BY <1>1, <1>2, <1>3, <2>1 DEF OnceTypes, PCs
<1>5. \A p \in VPs : ~InHand(p)' /\ ThreadAt(p)'
  BY <1>1, <1>3 DEF InHand, ThreadAt, InFunction
<1>6. \A j \in Jobs, q \in VPs, k \in Int : ~At(j, q, k)'
  BY <1>3, <1>5 DEF At
<1>7. OnceTypes /\ NoJobTwice /\ state' = state
  BY DEF OnceInv, Reinit, jobVars
<1>. QED BY <1>4, <1>5, <1>6, <1>7, OnceQuiet DEF OnceInv

\* Nothing happens.
LEMMA OnceStutter ==
  ASSUME OnceInv, UNCHANGED vars
  PROVE  OnceInv' /\ NoComeback
<1>1. OnceTypes /\ NoJobTwice /\ \A p \in VPs : ThreadAt(p)
  BY DEF OnceInv
<1>2. OnceTypes' /\ state' = state
  BY <1>1 DEF OnceTypes, vars
<1>3. \A p \in VPs : ThreadAt(p)'
  BY <1>1 DEF ThreadAt, InHand, vars
<1>4. \A j \in Jobs, q \in VPs, k \in Int : At(j, q, k)' => At(j, q, k)
  BY DEF At, InHand, vars
<1>. QED BY <1>1, <1>2, <1>3, <1>4, OnceQuiet DEF OnceInv

\* Every step of the scheduler keeps the invariant and brings no job back.
LEMMA OnceNext ==
  ASSUME OnceInv, [Next]_vars
  PROVE  OnceInv' /\ NoComeback
<1>1. ASSUME NEW p \in VPs, Runtime(p)
      PROVE  OnceInv' /\ NoComeback
  <2>1. CASE GetJob(p) \/ StealJob(p)
    BY <2>1, OnceTakeActions
  <2>2. CASE GetCas(p)
    BY <2>2, OnceCallActions
  <2>3. CASE StealCas(p)
    BY <2>3, OnceCallActions, OnceStealCas
  <2>4. CASE IdleSub(p)
    BY <2>4, OnceCallActions, OncePlainActions
  <2>5. CASE Finish(p)
    BY <2>5, OnceFinish
  <2>6. CASE \/ GetNothing(p) \/ IdleAdd(p) \/ StealNothing(p)
             \/ Suspend(p) \/ Restore(p) \/ JoinCheck(p) \/ JoinRead(p)
             \/ \E zero \in BOOLEAN : JoinReturn(p, zero)
    BY <2>6, OncePlainActions
  <2>. QED BY <1>1, <2>1, <2>2, <2>3, <2>4, <2>5, <2>6 DEF Runtime
<1>2. ASSUME NEW p \in VPs, Program(p)
      PROVE  OnceInv' /\ NoComeback
  BY <1>2, OnceFork, OncePlainActions DEF Program
<1>3. CASE LifeCycle
  BY <1>3, OnceLifeCycle
<1>4. CASE Reinit
  BY <1>4, OnceReinit
<1>5. CASE Ended \/ UNCHANGED vars
  BY <1>5, OnceStutter DEF Ended
<1>. QED BY <1>1, <1>2, <1>3, <1>4, <1>5 DEF Next

\* Whatever the depth of its suspensions, and with every job that fork_job runs
\* in place, the scheduler never has a job twice: no two VPs get or steal the
\* same job, no list keeps a job that was taken, and none that is done comes
\* back, so that the function of a job is called at most once.
THEOREM NoJobRunsTwice == Spec => []NoJobTwice /\ [][NoComeback]_vars
<1>1. Init => OnceInv
  BY OnceInit
<1>2. OnceInv /\ [Next]_vars => OnceInv' /\ NoComeback
  BY OnceNext
<1>3. OnceInv => NoJobTwice
  BY DEF OnceInv
<1>. QED BY <1>1, <1>2, <1>3, PTL DEF Spec
=============================================================================
