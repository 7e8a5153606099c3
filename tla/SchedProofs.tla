----------------------------- MODULE SchedProofs ----------------------------
(***************************************************************************)
(* Every thread stays in one place, for any number of CPUs and threads.    *)
(* First what list operations do to a family of lists, then what happens   *)
(* to the states of threads as they move, then the actions of thread.c     *)
(* that move threads.                                                      *)
(***************************************************************************)
EXTENDS ThreadsInv, ThreadListProofs

(* The list l is the one of kind kn that belongs to i. *)
Fills(l, kn, i, k, x) ==
  l \in Seq(Thread) /\ NoDup(l) /\ \A t \in Thread : t \in Members(l) <=> k[t] = kn /\ x[t] = i

(* Between two placings, only threads of T enter or leave lists of kind kn; or,
   of those lists, only the one of i changes. *)
Unmoved(T, kn, k, x, k2, x2) ==
  \A t \in Thread \ T : (k2[t] = kn <=> k[t] = kn) /\ (k[t] = kn => x2[t] = x[t])
OnlyListOf(i, I, kn, k, x, k2, x2) ==
  \A t \in Thread : \A j \in I \ {i} : k2[t] = kn /\ x2[t] = j <=> k[t] = kn /\ x[t] = j

(* A family nobody enters or leaves. *)
LEMMA ListsStay ==
  ASSUME NEW f, NEW I, NEW kn, NEW k, NEW x, NEW k2, NEW x2, Listed(f, I, kn, k, x),
         Unmoved({}, kn, k, x, k2, x2)
  PROVE  Listed(f, I, kn, k2, x2)
BY Zenon DEF Listed, Unmoved

(* A thread goes to the end of a list. *)
LEMMA ListsArrive ==
  ASSUME NEW f, NEW I, NEW kn \in Kinds, NEW k, NEW x, PlaceType(k, x), Listed(f, I, kn, k, x),
         NEW t \in Thread, k[t] # kn, NEW i \in I, I \subseteq Cpu \cup Wchan
  PROVE  Listed([f EXCEPT ![i] = threadlist_addtail(f[i], t)], I, kn,
                [k EXCEPT ![t] = kn], [x EXCEPT ![t] = i])
<1> DEFINE l == threadlist_addtail(f[i], t)
           g == [f EXCEPT ![i] = l]
<1>1. /\ f[i] \in Seq(Thread) /\ t \notin Members(f[i]) /\ NoDup(f[i])
  BY Zenon DEF Listed
<1>2. l \in Seq(Thread) /\ Members(l) = Members(f[i]) \cup {t} /\ NoDup(l)
  BY <1>1, AddTail
<1> HIDE DEF l
<1>3. g \in [I -> Seq(Thread)] /\ g[i] = l /\ \A j \in I \ {i} : g[j] = f[j]
  BY Zenon, <1>2 DEF Listed
<1> HIDE DEF g
<1>4. ASSUME NEW j \in I
      PROVE  /\ NoDup(g[j])
             /\ \A u \in Thread : u \in Members(g[j]) <=>
                  [k EXCEPT ![t] = kn][u] = kn /\ [x EXCEPT ![t] = i][u] = j
  <2>1. CASE j = i
    BY <1>1, <1>2, <1>3, <2>1 DEF Listed, PlaceType
  <2>2. CASE j # i
    BY <1>3, <2>2 DEF Listed, PlaceType
  <2> QED
    BY Zenon, <2>1, <2>2
<1>5. Listed(g, I, kn, [k EXCEPT ![t] = kn], [x EXCEPT ![t] = i])
  BY Zenon, <1>3, <1>4 DEF Listed
<1> QED
  BY Zenon, <1>5 DEF g, l

(* The first thread of a list leaves it for a list of another kind. *)
LEMMA ListsLeave ==
  ASSUME NEW f, NEW I, NEW kn \in Kinds, NEW k, NEW x, PlaceType(k, x), Listed(f, I, kn, k, x),
         NEW i \in I, f[i] # <<>>, NEW k2 \in [Thread -> Kinds], NEW x2,
         k2[threadlist_head(f[i])] # kn,
         Unmoved({threadlist_head(f[i])}, kn, k, x, k2, x2)
  PROVE  /\ Listed([f EXCEPT ![i] = threadlist_remhead(f[i])], I, kn, k2, x2)
         /\ threadlist_head(f[i]) \in Thread
         /\ k[threadlist_head(f[i])] = kn /\ x[threadlist_head(f[i])] = i
<1> DEFINE l == threadlist_remhead(f[i])
           h == threadlist_head(f[i])
           g == [f EXCEPT ![i] = l]
<1>1. /\ f[i] \in Seq(Thread) /\ NoDup(f[i]) /\ f[i] # <<>>
  BY Zenon DEF Listed
<1>2. /\ l \in Seq(Thread) /\ Members(f[i]) = Members(l) \cup {h} /\ NoDup(l)
      /\ h \in Thread /\ h \in Members(f[i]) /\ h \notin Members(l)
  BY Zenon, <1>1, RemHead
<1>3. k[h] = kn /\ x[h] = i
  BY Zenon, <1>2 DEF Listed
<1>4. /\ k2[h] # kn
      /\ \A u \in Thread \ {h} : (k2[u] = kn <=> k[u] = kn) /\ (k[u] = kn => x2[u] = x[u])
  BY Zenon DEF Unmoved
<1> HIDE DEF l, h
<1>5. g \in [I -> Seq(Thread)] /\ g[i] = l /\ \A j \in I \ {i} : g[j] = f[j]
  BY <1>2 DEF Listed
<1> HIDE DEF g
<1>6. ASSUME NEW j \in I
      PROVE  NoDup(g[j]) /\ \A u \in Thread : u \in Members(g[j]) <=> k2[u] = kn /\ x2[u] = j
  <2>1. CASE j = i
    BY <1>2, <1>3, <1>4, <1>5, <2>1 DEF Listed
  <2>2. CASE j # i
    BY <1>2, <1>3, <1>4, <1>5, <2>2 DEF Listed
  <2> QED
    BY Zenon, <2>1, <2>2
<1>7. Listed(g, I, kn, k2, x2)
  BY Zenon, <1>5, <1>6 DEF Listed
<1> QED
  BY Zenon, <1>2, <1>3, <1>7 DEF g, l, h

(* One list of a family is replaced. *)
LEMMA ListsSet ==
  ASSUME NEW f, NEW I, NEW kn, NEW k, NEW x, NEW k2, NEW x2, Listed(f, I, kn, k, x),
         NEW i \in I, NEW l, Fills(l, kn, i, k2, x2),
         OnlyListOf(i, I, kn, k, x, k2, x2)
  PROVE  Listed([f EXCEPT ![i] = l], I, kn, k2, x2)
<1> DEFINE g == [f EXCEPT ![i] = l]
<1>1. g \in [I -> Seq(Thread)] /\ g[i] = l /\ \A j \in I \ {i} : g[j] = f[j]
  BY Zenon DEF Listed, Fills
<1> HIDE DEF g
<1>2. ASSUME NEW j \in I
      PROVE  NoDup(g[j]) /\ \A u \in Thread : u \in Members(g[j]) <=> k2[u] = kn /\ x2[u] = j
  <2>1. CASE j = i
    BY Zenon, <1>1, <2>1 DEF Fills
  <2>2. CASE j # i
    BY <1>1, <2>2 DEF Listed, OnlyListOf
  <2> QED
    BY Zenon, <2>1, <2>2
<1>3. Listed(g, I, kn, k2, x2)
  BY Zenon, <1>1, <1>2 DEF Listed
<1> QED
  BY Zenon, <1>3 DEF g

-----------------------------------------------------------------------------
(* Threads move between lists on which their state may be. *)
Shift(k, x, k2, x2) ==
  \A t \in Thread : \/ k2[t] = k[t] /\ x2[t] = x[t]
                    \/ k[t] = "wchan" /\ k2[t] = "hand"
                    \/ k[t] = "runqueue" /\ k2[t] = "victims" /\ x2[t] = x[t]
                    \/ k[t] = "victims" /\ k2[t] = "runqueue" /\ x2[t] = x[t]

(* Such a move changes nothing else. *)
LEMMA Rehome ==
  ASSUME NEW st, NEW tc, NEW cur, NEW idl, NEW ch, NEW k, NEW x, States(st, tc, cur, idl, ch, k, x),
         NEW k2, NEW x2, Shift(k, x, k2, x2)
  PROVE  States(st, tc, cur, idl, ch, k2, x2)
<1>1. ASSUME NEW t \in Thread
      PROVE  /\ k2[t] \in {"runqueue", "victims"} => st[t] = "S_READY"
             /\ k2[t] \in {"wchan", "hand"} => st[t] = "S_SLEEP"
             /\ k2[t] = "zombies" => st[t] = "S_ZOMBIE"
             /\ k2[t] = "none" <=> k[t] = "none"
             /\ k2[t] \in {"runqueue", "victims", "zombies"} => tc[t] = x2[t]
  BY DEF States, Shift
<1> QED
  BY <1>1 DEF States

(* A thread woken becomes ready on its CPU. *)
LEMMA Woken ==
  ASSUME NEW st, NEW tc, NEW cur, NEW idl, NEW ch, NEW k, NEW x, PlaceType(k, x),
         States(st, tc, cur, idl, ch, k, x),
         NEW t \in Thread, k[t] = "hand"
  PROVE  States([st EXCEPT ![t] = "S_READY"], tc, cur, idl, ch,
                [k EXCEPT ![t] = "runqueue"], [x EXCEPT ![t] = tc[t]])
BY DEF States, PlaceType, TStates, Kinds

(* A new thread becomes ready on its CPU and is no longer new. *)
LEMMA Started ==
  ASSUME NEW st, NEW tc, NEW cur, NEW idl, NEW ch, NEW k, NEW x, PlaceType(k, x),
         States(st, tc, cur, idl, ch, k, x),
         NEW p \in Thread, NEW t \in Thread, ch[p] = t
  PROVE  States([st EXCEPT ![t] = "S_READY"], tc, cur, idl, [ch EXCEPT ![p] = NONE],
                [k EXCEPT ![t] = "runqueue"], [x EXCEPT ![t] = tc[t]])
BY SchedAssumption DEF States, PlaceType, TStates, Kinds

(* thread_fork makes a thread. *)
LEMMA Created ==
  ASSUME NEW st, NEW tc, NEW cur, NEW idl, NEW ch, NEW k, NEW x, PlaceType(k, x),
         States(st, tc, cur, idl, ch, k, x),
         NEW p \in Thread, ch[p] = NONE, NEW t \in Thread, st[t] = "none", NEW c \in Cpu
  PROVE  States([st EXCEPT ![t] = "S_READY"], [tc EXCEPT ![t] = c], cur, idl,
                [ch EXCEPT ![p] = t], k, x)
BY SchedAssumption DEF States, PlaceType, TStates, Kinds

(* The current thread of a CPU stops running: it is queued, sleeps or dies. *)
LEMMA Stopped ==
  ASSUME NEW st, NEW tc, NEW cur, NEW idl, NEW ch, NEW k, NEW x, PlaceType(k, x),
         States(st, tc, cur, idl, ch, k, x), NEW c \in Cpu, c \notin idl, NEW s, NEW kn, NEW i,
         \/ s = "S_READY" /\ kn = "runqueue" /\ i = c
         \/ s = "S_SLEEP" /\ kn = "wchan"
         \/ s = "S_ZOMBIE" /\ kn = "zombies" /\ i = c
  PROVE  States([st EXCEPT ![cur[c]] = s], tc, cur, idl \cup {c}, ch,
                [k EXCEPT ![cur[c]] = kn], [x EXCEPT ![cur[c]] = i])
BY SchedAssumption DEF States, PlaceType, TStates, Kinds

(* An idling CPU runs the thread t of its run queue, which destroys its zombies. *)
LEMMA Dispatched ==
  ASSUME NEW st, NEW tc, NEW cur, NEW idl, NEW ch, NEW k, NEW x, PlaceType(k, x),
         States(st, tc, cur, idl, ch, k, x), NEW c \in idl,
         NEW zs, \A u \in Thread : u \in Members(zs) <=> k[u] = "zombies" /\ x[u] = c,
         NEW t \in Thread, k[t] = "runqueue", x[t] = c,
         NEW k2, \A u \in Thread : k2[u] = IF u = t \/ (k[u] = "zombies" /\ x[u] = c) THEN "none" ELSE k[u]
  PROVE  States([exorcise(st, zs) EXCEPT ![t] = "S_RUN"], tc, [cur EXCEPT ![c] = t], idl \ {c}, ch,
                k2, x)
<1> DEFINE st2 == [exorcise(st, zs) EXCEPT ![t] = "S_RUN"]
<1>1. /\ \A u \in Thread : st2[u] = IF u = t THEN "S_RUN"
                                    ELSE IF k[u] = "zombies" /\ x[u] = c THEN "none" ELSE st[u]
      /\ st2 \in [Thread -> TStates]
  BY DEF exorcise, States, TStates
<1> HIDE DEF st2
<1>2. States(st2, tc, [cur EXCEPT ![c] = t], idl \ {c}, ch, k2, x)
  BY <1>1 DEF States, PlaceType, TStates, Kinds
<1> QED
  BY Zenon, <1>2 DEF st2

(* A ready thread that is current nowhere goes to another CPU. *)
LEMMA Sent ==
  ASSUME NEW st, NEW tc, NEW cur, NEW idl, NEW ch, NEW k, NEW x, PlaceType(k, x),
         States(st, tc, cur, idl, ch, k, x), NEW t \in Thread, k[t] = "victims",
         cur[x[t]] # t, NEW d \in Cpu
  PROVE  /\ States(st, [tc EXCEPT ![t] = d], cur, idl, ch,
                   [k EXCEPT ![t] = "runqueue"], [x EXCEPT ![t] = d])
         /\ \A c \in Cpu : cur[c] # t
<1>1. tc[t] = x[t] /\ st[t] = "S_READY" /\ \A c \in Cpu : cur[c] # t
  BY DEF States
<1> QED
  BY <1>1 DEF States, PlaceType, TStates, Kinds
-----------------------------------------------------------------------------
(* Steps that touch no list and no thread. *)
LEMMA PlaceFrame ==
  ASSUME PlaceInv, Victims' = Victims,
         UNCHANGED <<t_state, t_cpu, c_curthread, c_isidle, c_runqueue, c_zombies, hand, wc_threads, child>>
  PROVE  PlaceInv'
<1>1. Idle' = Idle
  BY Zenon DEF Idle
<1> QED
  BY Zenon, <1>1 DEF PlaceInv

LEMMA Same ==
  ASSUME NEW I, NEW S, NEW f \in [I -> S], NEW i \in I
  PROVE  [f EXCEPT ![i] = f[i]] = f
BY Zenon

(* The end of thread_switch: with the old thread put away, the CPU idles or runs
   the next thread. *)
LEMMA DispatchPlace ==
  ASSUME NEW c \in Cpu, NEW rq, NEW st, NEW zs, NEW k, NEW x,
         c_isidle \in [Cpu -> BOOLEAN], c_runqueue \in [Cpu -> Seq(Thread)],
         c_zombies \in [Cpu -> Seq(Thread)],
         Lists([c_runqueue EXCEPT ![c] = rq], [c_zombies EXCEPT ![c] = zs], hand, Victims, wc_threads', k, x),
         States(st, t_cpu, c_curthread, Idle \cup {c}, child, k, x),
         Dispatch(c, rq, st, zs), t_cpu' = t_cpu, hand' = hand, child' = child, Victims' = Victims
  PROVE  PlaceInv'
<1> DEFINE r == [c_runqueue EXCEPT ![c] = rq]
           z == [c_zombies EXCEPT ![c] = zs]
<1>1. r[c] = rq /\ z[c] = zs
  BY Zenon
<1>2. CASE threadlist_isempty(rq)
  <2>1. Idle' = Idle \cup {c}
    BY Zenon, <1>2 DEF Idle, Dispatch
  <2>2. c_runqueue' = r /\ c_zombies' = z /\ t_state' = st /\ c_curthread' = c_curthread
    BY Zenon, <1>2 DEF Dispatch
  <2> HIDE DEF r, z
  <2> QED
    BY Zenon, <2>1, <2>2 DEF PlaceInv, r, z
<1>3. CASE ~threadlist_isempty(rq)
  <2> DEFINE t == threadlist_head(rq)
             k2 == [u \in Thread |-> IF u = t \/ (k[u] = "zombies" /\ x[u] = c) THEN "none" ELSE k[u]]
  <2>1. Idle' = (Idle \cup {c}) \ {c}
    BY Zenon, <1>3 DEF Idle, Dispatch
  <2>2. /\ c_runqueue' = [c_runqueue EXCEPT ![c] = threadlist_remhead(rq)]
        /\ c_curthread' = [c_curthread EXCEPT ![c] = t]
        /\ t_state' = [exorcise(st, zs) EXCEPT ![t] = "S_RUN"]
        /\ c_zombies' = [c_zombies EXCEPT ![c] = threadlist_init]
    BY Zenon, <1>3 DEF Dispatch
  <2>3. /\ PlaceType(k, x) /\ Listed(r, Cpu, "runqueue", k, x) /\ Listed(z, Cpu, "zombies", k, x)
        /\ Listed(hand, Cpu, "hand", k, x) /\ Listed(Victims, Cpu, "victims", k, x)
        /\ Listed(wc_threads', Wchan, "wchan", k, x)
    BY Zenon DEF Lists
  <2>4. rq # <<>> /\ rq \in Seq(Thread) /\ zs \in Seq(Thread)
    BY <1>1, <1>3, <2>3 DEF Listed, threadlist_isempty
  <2>5. t \in Thread /\ t \in Members(rq)
    BY Zenon, <2>4, RemHead
  <2>6. k[t] = "runqueue" /\ x[t] = c
    BY Zenon, <1>1, <2>3, <2>5 DEF Listed
  <2>7. \A u \in Thread : u \in Members(zs) <=> k[u] = "zombies" /\ x[u] = c
    BY Zenon, <1>1, <2>3 DEF Listed
  <2>8. /\ k2 \in [Thread -> Kinds] /\ PlaceType(k2, x)
        /\ \A u \in Thread : k2[u] = IF u = t \/ (k[u] = "zombies" /\ x[u] = c) THEN "none" ELSE k[u]
    BY Zenon, <2>3 DEF PlaceType, Kinds
  <2>9. States(t_state', t_cpu', c_curthread', Idle', child', k2, x)
    <3> DEFINE idl == Idle \cup {c}
    <3>0. c \in idl /\ States(st, t_cpu, c_curthread, idl, child, k, x)
      BY Zenon
    <3> HIDE DEF k2, t, idl
    <3>1. States([exorcise(st, zs) EXCEPT ![t] = "S_RUN"], t_cpu, [c_curthread EXCEPT ![c] = t],
                 idl \ {c}, child, k2, x)
      BY ZenonT(60), <2>3, <2>5, <2>6, <2>7, <2>8, <3>0, Dispatched
    <3> QED
      BY Zenon, <2>1, <2>2, <3>1 DEF idl
  <2>10. Listed(c_runqueue', Cpu, "runqueue", k2, x)
    <3>1. [r EXCEPT ![c] = threadlist_remhead(r[c])] = c_runqueue'
      BY Zenon, <1>1, <2>2
    <3>2. "runqueue" \in Kinds /\ r[c] # <<>> /\ k2[threadlist_head(r[c])] # "runqueue"
      BY Zenon, <1>1, <2>4, <2>5, <2>8 DEF Kinds
    <3>3. Unmoved({threadlist_head(r[c])}, "runqueue", k, x, k2, x)
      BY Zenon, <1>1, <2>8 DEF Unmoved
    <3> HIDE DEF r, k2
    <3>4. Listed([r EXCEPT ![c] = threadlist_remhead(r[c])], Cpu, "runqueue", k2, x)
      BY Zenon, <2>3, <2>8, <3>2, <3>3, ListsLeave
    <3> QED
      BY Zenon, <3>1, <3>4
  <2>11. Listed(c_zombies', Cpu, "zombies", k2, x)
    <3>1. [z EXCEPT ![c] = threadlist_init] = c_zombies'
      BY Zenon, <2>2
    <3>2. Fills(threadlist_init, "zombies", c, k2, x)
      BY Zenon, <2>8, EmptyList DEF Fills
    <3>3. OnlyListOf(c, Cpu, "zombies", k, x, k2, x)
      BY Zenon, <2>6, <2>8 DEF OnlyListOf
    <3> HIDE DEF z, k2
    <3>4. Listed([z EXCEPT ![c] = threadlist_init], Cpu, "zombies", k2, x)
      BY Zenon, <2>3, <3>2, <3>3, ListsSet
    <3> QED
      BY Zenon, <3>1, <3>4
  <2>12. /\ Listed(hand', Cpu, "hand", k2, x) /\ Listed(Victims', Cpu, "victims", k2, x)
         /\ Listed(wc_threads', Wchan, "wchan", k2, x)
    <3>1. /\ Unmoved({}, "hand", k, x, k2, x) /\ Unmoved({}, "victims", k, x, k2, x)
          /\ Unmoved({}, "wchan", k, x, k2, x)
      BY Zenon, <2>6, <2>8 DEF Unmoved
    <3> HIDE DEF k2
    <3>2. Listed(hand, Cpu, "hand", k2, x)
      BY Zenon, <2>3, <3>1, ListsStay
    <3>3. Listed(Victims, Cpu, "victims", k2, x)
      BY Zenon, <2>3, <3>1, ListsStay
    <3>4. Listed(wc_threads', Wchan, "wchan", k2, x)
      BY Zenon, <2>3, <3>1, ListsStay
    <3> QED
      BY Zenon, <3>2, <3>3, <3>4
  <2> HIDE DEF k2
  <2>13. Lists(c_runqueue', c_zombies', hand', Victims', wc_threads', k2, x)
    BY Zenon, <2>8, <2>10, <2>11, <2>12 DEF Lists
  <2> QED
    BY Zenon, <2>9, <2>13 DEF PlaceInv
<1> QED
  BY Zenon, <1>2, <1>3

(* thread_switch, whatever becomes of the old thread. *)
LEMMA SwitchPlace ==
  ASSUME PlaceInv, c_isidle \in [Cpu -> BOOLEAN], NEW c \in Cpu, ~c_isidle[c],
         NEW s, NEW wc, \/ s \in {"S_READY", "S_ZOMBIE"}
                        \/ s = "S_SLEEP" /\ wc \in Wchan,
         thread_switch(c, s, wc), child' = child, Victims' = Victims
  PROVE  PlaceInv'
<1> DEFINE t == c_curthread[c]
           st == [t_state EXCEPT ![t] = s]
<1>1. PICK k, x : /\ Lists(c_runqueue, c_zombies, hand, Victims, wc_threads, k, x)
                  /\ States(t_state, t_cpu, c_curthread, Idle, child, k, x)
  BY Zenon DEF PlaceInv
<1>2. /\ PlaceType(k, x) /\ Listed(c_runqueue, Cpu, "runqueue", k, x) /\ Listed(c_zombies, Cpu, "zombies", k, x)
      /\ Listed(hand, Cpu, "hand", k, x) /\ Listed(Victims, Cpu, "victims", k, x)
      /\ Listed(wc_threads, Wchan, "wchan", k, x)
  BY Zenon, <1>1 DEF Lists
<1>3. t \in Thread /\ k[t] = "none" /\ c \notin Idle
  BY <1>1, <1>2 DEF States, Idle, PlaceType, Kinds
<1>a. c_runqueue \in [Cpu -> Seq(Thread)] /\ c_zombies \in [Cpu -> Seq(Thread)]
  BY Zenon, <1>2 DEF Listed
<1>4. /\ [c_runqueue EXCEPT ![c] = c_runqueue[c]] = c_runqueue
      /\ [c_zombies EXCEPT ![c] = c_zombies[c]] = c_zombies
  BY <1>2 DEF Listed
<1>5. t_cpu' = t_cpu /\ hand' = hand
  BY Zenon DEF thread_switch
<1> HIDE DEF t
<1>6. ASSUME NEW kn \in Kinds \ {"none", "hand", "victims"}, NEW i \in Cpu \cup Wchan
      PROVE  LET k2 == [k EXCEPT ![t] = kn]
                 x2 == [x EXCEPT ![t] = i] IN
             /\ (kn = "wchan" => i \in Wchan) /\ (kn # "wchan" => i \in Cpu) => PlaceType(k2, x2)
             /\ Listed(hand, Cpu, "hand", k2, x2) /\ Listed(Victims, Cpu, "victims", k2, x2)
             /\ kn # "runqueue" => Listed(c_runqueue, Cpu, "runqueue", k2, x2)
             /\ kn # "zombies" => Listed(c_zombies, Cpu, "zombies", k2, x2)
             /\ kn # "wchan" => Listed(wc_threads, Wchan, "wchan", k2, x2)
  <2> DEFINE k2 == [k EXCEPT ![t] = kn]
             x2 == [x EXCEPT ![t] = i]
  <2>1. \A u \in Thread : k2[u] = (IF u = t THEN kn ELSE k[u]) /\ x2[u] = (IF u = t THEN i ELSE x[u])
    BY Zenon, <1>2 DEF PlaceType
  <2>2. k2 \in [Thread -> Kinds] /\ x2 \in [Thread -> Cpu \cup Wchan]
    BY Zenon, <1>2, <1>3 DEF PlaceType
  <2> HIDE DEF k2, x2
  <2>3. ASSUME NEW km \in Kinds \ {"none", kn} PROVE Unmoved({}, km, k, x, k2, x2)
    BY Zenon, <1>3, <2>1 DEF Unmoved
  <2>4. "hand" \in Kinds \ {"none", kn} /\ "victims" \in Kinds \ {"none", kn}
    BY Zenon DEF Kinds
  <2>5. /\ kn # "runqueue" => "runqueue" \in Kinds \ {"none", kn}
        /\ kn # "zombies" => "zombies" \in Kinds \ {"none", kn}
        /\ kn # "wchan" => "wchan" \in Kinds \ {"none", kn}
    BY Zenon DEF Kinds
  <2>6. Listed(hand, Cpu, "hand", k2, x2) /\ Listed(Victims, Cpu, "victims", k2, x2)
    BY Zenon, <1>2, <2>3, <2>4, ListsStay
  <2>7. /\ kn # "runqueue" => Listed(c_runqueue, Cpu, "runqueue", k2, x2)
        /\ kn # "zombies" => Listed(c_zombies, Cpu, "zombies", k2, x2)
        /\ kn # "wchan" => Listed(wc_threads, Wchan, "wchan", k2, x2)
    BY Zenon, <1>2, <2>3, <2>5, ListsStay
  <2>8. (kn = "wchan" => i \in Wchan) /\ (kn # "wchan" => i \in Cpu) => PlaceType(k2, x2)
    BY Zenon, <1>2, <2>1, <2>2 DEF PlaceType
  <2> QED
    BY Zenon, <2>6, <2>7, <2>8 DEF k2, x2
<1>7. CASE s = "S_READY"
  <2> DEFINE k2 == [k EXCEPT ![t] = "runqueue"]
             x2 == [x EXCEPT ![t] = c]
             rq == threadlist_addtail(c_runqueue[c], t)
  <2>1. Dispatch(c, rq, st, c_zombies[c]) /\ wc_threads' = wc_threads
    BY Zenon, <1>7 DEF thread_switch, t
  <2>2. Listed([c_runqueue EXCEPT ![c] = rq], Cpu, "runqueue", k2, x2)
    BY Zenon, <1>2, <1>3, ListsArrive DEF Kinds
  <2>3. "runqueue" \in Kinds \ {"none", "hand", "victims"} /\ c \in Cpu \cup Wchan
    BY Zenon DEF Kinds
  <2>4. Lists([c_runqueue EXCEPT ![c] = rq], [c_zombies EXCEPT ![c] = c_zombies[c]], hand, Victims, wc_threads', k2, x2)
    BY Zenon, <1>4, <1>6, <2>1, <2>2, <2>3 DEF Lists
  <2>5. States(st, t_cpu, c_curthread, Idle \cup {c}, child, k2, x2)
    BY Zenon, <1>1, <1>2, <1>3, <1>7, Stopped DEF t
  <2> HIDE DEF k2, x2, rq, st
  <2> QED
    BY Zenon, <1>a, <1>5, <2>1, <2>4, <2>5, DispatchPlace
<1>8. CASE s = "S_ZOMBIE"
  <2> DEFINE k2 == [k EXCEPT ![t] = "zombies"]
             x2 == [x EXCEPT ![t] = c]
             zs == threadlist_addtail(c_zombies[c], t)
  <2>1. Dispatch(c, c_runqueue[c], st, zs) /\ wc_threads' = wc_threads
    BY Zenon, <1>8 DEF thread_switch, t
  <2>2. Listed([c_zombies EXCEPT ![c] = zs], Cpu, "zombies", k2, x2)
    BY Zenon, <1>2, <1>3, ListsArrive DEF Kinds
  <2>3. "zombies" \in Kinds \ {"none", "hand", "victims"} /\ c \in Cpu \cup Wchan
    BY Zenon DEF Kinds
  <2>4. Lists([c_runqueue EXCEPT ![c] = c_runqueue[c]], [c_zombies EXCEPT ![c] = zs], hand, Victims, wc_threads', k2, x2)
    BY Zenon, <1>4, <1>6, <2>1, <2>2, <2>3 DEF Lists
  <2>5. States(st, t_cpu, c_curthread, Idle \cup {c}, child, k2, x2)
    BY Zenon, <1>1, <1>2, <1>3, <1>8, Stopped DEF t
  <2> HIDE DEF k2, x2, zs, st
  <2> QED
    BY Zenon, <1>a, <1>5, <2>1, <2>4, <2>5, DispatchPlace
<1>9. CASE s = "S_SLEEP" /\ wc \in Wchan
  <2> DEFINE k2 == [k EXCEPT ![t] = "wchan"]
             x2 == [x EXCEPT ![t] = wc]
  <2>1. /\ Dispatch(c, c_runqueue[c], st, c_zombies[c])
        /\ wc_threads' = [wc_threads EXCEPT ![wc] = threadlist_addtail(wc_threads[wc], t)]
    BY Zenon, <1>9 DEF thread_switch, t
  <2>2. Listed(wc_threads', Wchan, "wchan", k2, x2)
    BY Zenon, <1>2, <1>3, <1>9, <2>1, ListsArrive DEF Kinds
  <2>3. "wchan" \in Kinds \ {"none", "hand", "victims"} /\ wc \in Cpu \cup Wchan
    BY Zenon, <1>9 DEF Kinds
  <2>4. Lists([c_runqueue EXCEPT ![c] = c_runqueue[c]], [c_zombies EXCEPT ![c] = c_zombies[c]], hand, Victims, wc_threads', k2, x2)
    BY Zenon, <1>4, <1>6, <1>9, <2>2, <2>3 DEF Lists
  <2>5. States(st, t_cpu, c_curthread, Idle \cup {c}, child, k2, x2)
    BY Zenon, <1>1, <1>2, <1>3, <1>9, Stopped DEF t
  <2> HIDE DEF k2, x2, st
  <2> QED
    BY Zenon, <1>a, <1>5, <2>1, <2>4, <2>5, DispatchPlace
<1> QED
  BY Zenon, <1>7, <1>8, <1>9

LEMMA IdlePlace ==
  ASSUME PlaceInv, c_isidle \in [Cpu -> BOOLEAN], NEW c \in Cpu, c_isidle[c], IdleLook(c),
         child' = child, Victims' = Victims
  PROVE  PlaceInv'
<1>1. PICK k, x : /\ Lists(c_runqueue, c_zombies, hand, Victims, wc_threads, k, x)
                  /\ States(t_state, t_cpu, c_curthread, Idle, child, k, x)
  BY Zenon DEF PlaceInv
<1>2. Listed(c_runqueue, Cpu, "runqueue", k, x) /\ Listed(c_zombies, Cpu, "zombies", k, x)
  BY Zenon, <1>1 DEF Lists
<1>a. c_runqueue \in [Cpu -> Seq(Thread)] /\ c_zombies \in [Cpu -> Seq(Thread)]
  BY Zenon, <1>2 DEF Listed
<1>3. /\ [c_runqueue EXCEPT ![c] = c_runqueue[c]] = c_runqueue
      /\ [c_zombies EXCEPT ![c] = c_zombies[c]] = c_zombies
  BY Zenon, <1>2 DEF Listed
<1>4. Idle \cup {c} = Idle
  BY Zenon DEF Idle
<1>5. /\ Dispatch(c, c_runqueue[c], t_state, c_zombies[c])
      /\ t_cpu' = t_cpu /\ hand' = hand /\ wc_threads' = wc_threads
  BY Zenon DEF IdleLook, chanVars
<1>6. /\ Lists([c_runqueue EXCEPT ![c] = c_runqueue[c]], [c_zombies EXCEPT ![c] = c_zombies[c]],
               hand, Victims, wc_threads', k, x)
      /\ States(t_state, t_cpu, c_curthread, Idle \cup {c}, child, k, x)
  BY Zenon, <1>1, <1>3, <1>4, <1>5
<1> QED
  BY Zenon, <1>a, <1>5, <1>6, DispatchPlace

(* wchan_wakeone and wchan_wakeall move threads from the channel to the waker. *)
LEMMA TakeLists ==
  ASSUME NEW k, NEW x, Lists(c_runqueue, c_zombies, hand, Victims, wc_threads, k, x),
         NEW c \in Cpu, NEW wc \in Wchan, hand[c] = <<>>, NEW list \in Seq(Thread), NEW left \in Seq(Thread),
         NoDup(list), NoDup(left), Members(list) \cap Members(left) = {},
         Members(wc_threads[wc]) = Members(list) \cup Members(left), Take(c, wc, list, left)
  PROVE  \E k2, x2 : /\ Lists(c_runqueue, c_zombies, hand', Victims, wc_threads', k2, x2)
                     /\ Shift(k, x, k2, x2)
<1> DEFINE k2 == [t \in Thread |-> IF t \in Members(list) THEN "hand" ELSE k[t]]
           x2 == [t \in Thread |-> IF t \in Members(list) THEN c ELSE x[t]]
<1>1. /\ PlaceType(k, x) /\ Listed(c_runqueue, Cpu, "runqueue", k, x) /\ Listed(c_zombies, Cpu, "zombies", k, x)
      /\ Listed(hand, Cpu, "hand", k, x) /\ Listed(Victims, Cpu, "victims", k, x)
      /\ Listed(wc_threads, Wchan, "wchan", k, x)
  BY Zenon DEF Lists
<1>2. \A t \in Members(list) : t \in Thread /\ k[t] = "wchan" /\ x[t] = wc
  <2>1. Members(list) \subseteq Thread
    BY Zenon, ListShape
  <2> QED
    BY <1>1, <2>1 DEF Listed
<1>3. \A t \in Thread : /\ k2[t] = (IF t \in Members(list) THEN "hand" ELSE k[t])
                        /\ x2[t] = (IF t \in Members(list) THEN c ELSE x[t])
  BY Zenon
<1>4. k2 \in [Thread -> Kinds] /\ x2 \in [Thread -> Cpu \cup Wchan]
  BY Zenon, <1>1 DEF PlaceType, Kinds
<1> HIDE DEF k2, x2
<1>5. PlaceType(k2, x2) /\ Shift(k, x, k2, x2)
  BY Zenon, <1>1, <1>2, <1>3, <1>4 DEF PlaceType, Shift
<1>6. /\ Unmoved({}, "runqueue", k, x, k2, x2) /\ Unmoved({}, "zombies", k, x, k2, x2)
      /\ Unmoved({}, "victims", k, x, k2, x2)
  BY Zenon, <1>2, <1>3 DEF Unmoved
<1>7. /\ Listed(c_runqueue, Cpu, "runqueue", k2, x2) /\ Listed(c_zombies, Cpu, "zombies", k2, x2)
      /\ Listed(Victims, Cpu, "victims", k2, x2)
  BY Zenon, <1>1, <1>6, ListsStay
<1>8. /\ hand' = [hand EXCEPT ![c] = list] /\ wc_threads' = [wc_threads EXCEPT ![wc] = left]
  BY Zenon DEF Take
<1>9. Listed(hand', Cpu, "hand", k2, x2)
  <2>1. \A t \in Thread : ~(k[t] = "hand" /\ x[t] = c)
    BY <1>1, EmptyList DEF Listed, threadlist_init
  <2>2. Fills(list, "hand", c, k2, x2)
    BY Zenon, <1>2, <1>3, <2>1 DEF Fills
  <2>3. OnlyListOf(c, Cpu, "hand", k, x, k2, x2)
    BY Zenon, <1>2, <1>3 DEF OnlyListOf
  <2> QED
    BY Zenon, <1>1, <1>8, <2>2, <2>3, ListsSet
<1>10. Listed(wc_threads', Wchan, "wchan", k2, x2)
  <2>0. \A t \in Thread : t \in Members(list) \cup Members(left) <=> k[t] = "wchan" /\ x[t] = wc
    BY Zenon, <1>1 DEF Listed
  <2>1. Fills(left, "wchan", wc, k2, x2)
    BY Zenon, <1>3, <2>0 DEF Fills
  <2>2. OnlyListOf(wc, Wchan, "wchan", k, x, k2, x2)
    BY <1>2, <1>3 DEF OnlyListOf
  <2> QED
    BY Zenon, <1>1, <1>8, <2>1, <2>2, ListsSet
<1>11. Lists(c_runqueue, c_zombies, hand', Victims, wc_threads', k2, x2)
  BY Zenon, <1>5, <1>7, <1>9, <1>10 DEF Lists
<1> QED
  BY Zenon, <1>5, <1>11

LEMMA WakeLists ==
  ASSUME NEW k, NEW x, Lists(c_runqueue, c_zombies, hand, Victims, wc_threads, k, x),
         NEW c \in Cpu, NEW wc \in Wchan, hand[c] = <<>>, wchan_wakeone(c, wc) \/ wchan_wakeall(c, wc)
  PROVE  \E k2, x2 : /\ Lists(c_runqueue, c_zombies, hand', Victims, wc_threads', k2, x2)
                     /\ Shift(k, x, k2, x2)
<1> DEFINE w == wc_threads[wc]
<1>1. w \in Seq(Thread) /\ NoDup(w)
  BY Zenon DEF Lists, Listed
<1>2. /\ threadlist_init \in Seq(Thread) /\ Members(threadlist_init) = {} /\ NoDup(threadlist_init)
  BY Zenon, EmptyList
<1>3. CASE wchan_wakeall(c, wc)
  BY Zenon, <1>1, <1>2, <1>3, TakeLists DEF wchan_wakeall
<1>4. CASE wchan_wakeone(c, wc) /\ threadlist_isempty(w)
  <2>1. w = threadlist_init
    BY Zenon, <1>4 DEF threadlist_isempty, threadlist_init
  <2> QED
    BY Zenon, <1>2, <1>4, <2>1, TakeLists DEF wchan_wakeone
<1>5. CASE wchan_wakeone(c, wc) /\ ~threadlist_isempty(w)
  <2> DEFINE h == threadlist_head(w)
             r == threadlist_remhead(w)
  <2>1. /\ h \in Thread /\ r \in Seq(Thread) /\ Members(w) = Members(r) \cup {h}
        /\ NoDup(r) /\ h \notin Members(r)
    BY Zenon, <1>1, <1>5, RemHead DEF threadlist_isempty
  <2> HIDE DEF h, r
  <2>2. <<h>> \in Seq(Thread) /\ Members(<<h>>) = {h} /\ NoDup(<<h>>)
    BY <2>1 DEF Members, NoDup
  <2>3. Take(c, wc, <<h>>, r)
    BY Zenon, <1>5 DEF wchan_wakeone, h, r
  <2> QED
    BY Zenon, <2>1, <2>2, <2>3, TakeLists
<1> QED
  BY Zenon, <1>3, <1>4, <1>5

LEMMA WakePlace ==
  ASSUME PlaceInv, NEW c \in Cpu, NEW wc \in Wchan, hand[c] = <<>>,
         wchan_wakeone(c, wc) \/ wchan_wakeall(c, wc),
         UNCHANGED <<t_state, t_cpu, c_curthread, c_isidle, c_runqueue, c_zombies, child>>, Victims' = Victims
  PROVE  PlaceInv'
<1>1. PICK k, x : /\ Lists(c_runqueue, c_zombies, hand, Victims, wc_threads, k, x)
                  /\ States(t_state, t_cpu, c_curthread, Idle, child, k, x)
  BY Zenon DEF PlaceInv
<1>2. PICK k2, x2 : /\ Lists(c_runqueue, c_zombies, hand', Victims, wc_threads', k2, x2)
                    /\ Shift(k, x, k2, x2)
  BY Zenon, <1>1, WakeLists
<1>3. States(t_state, t_cpu, c_curthread, Idle, child, k2, x2)
  BY Zenon, <1>1, <1>2, Rehome
<1>4. Idle' = Idle
  BY Zenon DEF Idle
<1> QED
  BY Zenon, <1>2, <1>3, <1>4 DEF PlaceInv

(* thread_fork's count wakes the waiters, and a new thread appears. *)
LEMMA ForkPlace ==
  ASSUME PlaceInv, NEW c \in Cpu, NEW u \in Thread, hand[c] = <<>>, child[c_curthread[c]] = NONE,
         ForkCount(c, u), Victims' = Victims
  PROVE  PlaceInv'
<1>1. PICK k, x : /\ Lists(c_runqueue, c_zombies, hand, Victims, wc_threads, k, x)
                  /\ States(t_state, t_cpu, c_curthread, Idle, child, k, x)
  BY Zenon DEF PlaceInv
<1>2. "thread_count_wchan" \in Wchan /\ wchan_wakeall(c, "thread_count_wchan")
  BY Zenon DEF ForkCount, Wchan
<1>3. PICK k2, x2 : /\ Lists(c_runqueue, c_zombies, hand', Victims, wc_threads', k2, x2)
                    /\ Shift(k, x, k2, x2)
  BY Zenon, <1>1, <1>2, WakeLists
<1>4. States(t_state, t_cpu, c_curthread, Idle, child, k2, x2) /\ PlaceType(k2, x2)
  BY Zenon, <1>1, <1>3, Rehome DEF Lists
<1> DEFINE p == c_curthread[c]
           d == t_cpu[p]
<1>5. p \in Thread /\ d \in Cpu /\ t_state[u] = "none"
  BY <1>4 DEF States, ForkCount
<1>6. /\ t_state' = [t_state EXCEPT ![u] = "S_READY"] /\ t_cpu' = [t_cpu EXCEPT ![u] = d]
      /\ child' = [child EXCEPT ![p] = u] /\ c_curthread' = c_curthread /\ c_isidle' = c_isidle
      /\ c_runqueue' = c_runqueue /\ c_zombies' = c_zombies
  BY Zenon DEF ForkCount, cpuVars, queueVars
<1> HIDE DEF p, d
<1>7. States(t_state', t_cpu', c_curthread, Idle, child', k2, x2)
  BY Zenon, <1>4, <1>5, <1>6, Created DEF p
<1>8. Idle' = Idle
  BY Zenon, <1>6 DEF Idle
<1> QED
  BY Zenon, <1>3, <1>6, <1>7, <1>8 DEF PlaceInv

(* The placing k2, x2 is k, x with the thread t on the run queue of d. *)
Queued(t, d, k, x, k2, x2) == k2 = [k EXCEPT ![t] = "runqueue"] /\ x2 = [x EXCEPT ![t] = d]

QueueFacts(rq, z, h, v, w, t, d, k, x, k2, x2) ==
  /\ PlaceType(k2, x2) /\ k2 \in [Thread -> Kinds]
  /\ Listed([rq EXCEPT ![d] = threadlist_addtail(rq[d], t)], Cpu, "runqueue", k2, x2)
  /\ k[t] # "zombies" => Listed(z, Cpu, "zombies", k2, x2)
  /\ k[t] # "hand" => Listed(h, Cpu, "hand", k2, x2)
  /\ k[t] # "victims" => Listed(v, Cpu, "victims", k2, x2)
  /\ k[t] # "wchan" => Listed(w, Wchan, "wchan", k2, x2)
  /\ k2[t] = "runqueue"
  /\ \A kn \in Kinds \ {"runqueue"} : Unmoved({t}, kn, k, x, k2, x2)

(* A thread goes to the end of a run queue: what that means for the other lists. *)
LEMMA QueueLists ==
  ASSUME NEW rq, NEW z, NEW h, NEW v, NEW w, NEW k, NEW x, Lists(rq, z, h, v, w, k, x),
         NEW t \in Thread, k[t] # "runqueue", NEW d \in Cpu,
         NEW k2, NEW x2, Queued(t, d, k, x, k2, x2)
  PROVE  QueueFacts(rq, z, h, v, w, t, d, k, x, k2, x2)
<1>1. /\ PlaceType(k, x) /\ Listed(rq, Cpu, "runqueue", k, x) /\ Listed(z, Cpu, "zombies", k, x)
      /\ Listed(h, Cpu, "hand", k, x) /\ Listed(v, Cpu, "victims", k, x) /\ Listed(w, Wchan, "wchan", k, x)
  BY Zenon DEF Lists
<1>2. Listed([rq EXCEPT ![d] = threadlist_addtail(rq[d], t)], Cpu, "runqueue", k2, x2)
  <2>1. "runqueue" \in Kinds /\ Cpu \subseteq Cpu \cup Wchan
    BY Zenon DEF Kinds
  <2> QED
    BY Zenon, <1>1, <2>1, ListsArrive DEF Queued
<1>3. \A u \in Thread : k2[u] = (IF u = t THEN "runqueue" ELSE k[u]) /\ x2[u] = (IF u = t THEN d ELSE x[u])
  BY Zenon, <1>1 DEF PlaceType, Queued
<1>4. k2 \in [Thread -> Kinds] /\ x2 \in [Thread -> Cpu \cup Wchan]
  BY Zenon, <1>1 DEF PlaceType, Kinds, Queued
<1>5. PlaceType(k2, x2)
  BY Zenon, <1>1, <1>3, <1>4 DEF PlaceType
<1>6. \A kn \in Kinds \ {"runqueue"} : Unmoved({t}, kn, k, x, k2, x2)
  BY Zenon, <1>3 DEF Unmoved
<1>7. \A kn \in Kinds \ {"runqueue", k[t]} : Unmoved({}, kn, k, x, k2, x2)
  BY Zenon, <1>3 DEF Unmoved
<1>8. /\ k[t] # "zombies" => "zombies" \in Kinds \ {"runqueue", k[t]}
      /\ k[t] # "hand" => "hand" \in Kinds \ {"runqueue", k[t]}
      /\ k[t] # "victims" => "victims" \in Kinds \ {"runqueue", k[t]}
      /\ k[t] # "wchan" => "wchan" \in Kinds \ {"runqueue", k[t]}
  BY Zenon DEF Kinds
<1>9. /\ k[t] # "zombies" => Listed(z, Cpu, "zombies", k2, x2)
      /\ k[t] # "hand" => Listed(h, Cpu, "hand", k2, x2)
      /\ k[t] # "victims" => Listed(v, Cpu, "victims", k2, x2)
      /\ k[t] # "wchan" => Listed(w, Wchan, "wchan", k2, x2)
  BY Zenon, <1>1, <1>7, <1>8, ListsStay
<1> QED
  BY Zenon, <1>2, <1>3, <1>4, <1>5, <1>6, <1>9 DEF QueueFacts

(* One thread taken off a channel becomes ready. *)
LEMMA TargetPlace ==
  ASSUME PlaceInv, NEW c \in Cpu, hand[c] # <<>>, tgt[c] = t_cpu[threadlist_head(hand[c])],
         WakeTarget(c), child' = child, Victims' = Victims
  PROVE  PlaceInv'
<1>1. PICK k, x : /\ Lists(c_runqueue, c_zombies, hand, Victims, wc_threads, k, x)
                  /\ States(t_state, t_cpu, c_curthread, Idle, child, k, x)
  BY Zenon DEF PlaceInv
<1> DEFINE t == threadlist_head(hand[c])
           d == t_cpu[t]
           k2 == [k EXCEPT ![t] = "runqueue"]
           x2 == [x EXCEPT ![t] = d]
<1>2. Listed(hand, Cpu, "hand", k, x) /\ PlaceType(k, x)
  BY Zenon, <1>1 DEF Lists
<1>3. t \in Thread /\ k[t] = "hand" /\ d \in Cpu
  <2>1. hand[c] \in Seq(Thread)
    BY Zenon, <1>2 DEF Listed
  <2>2. t \in Thread /\ t \in Members(hand[c])
    BY Zenon, <2>1, RemHead
  <2>3. k[t] = "hand"
    BY Zenon, <1>2, <2>2 DEF Listed
  <2>4. t_cpu \in [Thread -> Cpu]
    BY Zenon, <1>1 DEF States
  <2> QED
    BY Zenon, <2>2, <2>3, <2>4
<1>4. /\ t_state' = [t_state EXCEPT ![t] = "S_READY"]
      /\ c_runqueue' = [c_runqueue EXCEPT ![d] = threadlist_addtail(c_runqueue[d], t)]
      /\ hand' = [hand EXCEPT ![c] = threadlist_remhead(hand[c])]
      /\ t_cpu' = t_cpu /\ c_curthread' = c_curthread /\ c_zombies' = c_zombies /\ wc_threads' = wc_threads
      /\ c_isidle' = c_isidle
  BY Zenon DEF WakeTarget, thread_make_runnable, cpuVars
<1>5. Queued(t, d, k, x, k2, x2)
  BY Zenon DEF Queued
<1> HIDE DEF k2, x2, d
<1>6. /\ PlaceType(k2, x2) /\ k2 \in [Thread -> Kinds]
      /\ Listed(c_runqueue', Cpu, "runqueue", k2, x2) /\ Listed(c_zombies, Cpu, "zombies", k2, x2)
      /\ Listed(Victims, Cpu, "victims", k2, x2) /\ Listed(wc_threads, Wchan, "wchan", k2, x2)
      /\ k2[t] # "hand" /\ Unmoved({t}, "hand", k, x, k2, x2)
  <2>1. "hand" \in Kinds \ {"runqueue"}
    BY Zenon DEF Kinds
  <2>2. k[t] # "runqueue"
    BY Zenon, <1>3
  <2>3. QueueFacts(c_runqueue, c_zombies, hand, Victims, wc_threads, t, d, k, x, k2, x2)
    BY Zenon, <1>1, <1>3, <1>5, <2>2, QueueLists
  <2> QED
    BY Zenon, <1>3, <1>4, <2>1, <2>3 DEF QueueFacts
<1>7. Listed(hand', Cpu, "hand", k2, x2)
  <2>1. "hand" \in Kinds
    BY Zenon DEF Kinds
  <2> QED
    BY Zenon, <1>2, <1>4, <1>6, <2>1, ListsLeave
<1>8. States(t_state', t_cpu, c_curthread, Idle, child, k2, x2)
  BY Zenon, <1>1, <1>2, <1>3, <1>4, Woken DEF d, k2, x2
<1>9. Idle' = Idle
  BY Zenon, <1>4 DEF Idle
<1>10. Lists(c_runqueue', c_zombies', hand', Victims', wc_threads', k2, x2)
  BY Zenon, <1>4, <1>6, <1>7 DEF Lists
<1> QED
  BY Zenon, <1>4, <1>8, <1>9, <1>10 DEF PlaceInv

(* The new thread of thread_fork becomes ready. *)
LEMMA ForkRunPlace ==
  ASSUME PlaceInv, NEW c \in Cpu, child[c_curthread[c]] # NONE, ForkRun(c), Victims' = Victims
  PROVE  PlaceInv'
<1>1. PICK k, x : /\ Lists(c_runqueue, c_zombies, hand, Victims, wc_threads, k, x)
                  /\ States(t_state, t_cpu, c_curthread, Idle, child, k, x)
  BY Zenon DEF PlaceInv
<1> DEFINE p == c_curthread[c]
           t == child[p]
           d == t_cpu[t]
           k2 == [k EXCEPT ![t] = "runqueue"]
           x2 == [x EXCEPT ![t] = d]
<1>2. p \in Thread /\ t \in Thread /\ k[t] = "none" /\ d \in Cpu /\ PlaceType(k, x)
  BY SMTT(30), <1>1 DEF States, Lists
<1>3. /\ t_state' = [t_state EXCEPT ![t] = "S_READY"]
      /\ c_runqueue' = [c_runqueue EXCEPT ![d] = threadlist_addtail(c_runqueue[d], t)]
      /\ child' = [child EXCEPT ![p] = NONE]
      /\ hand' = hand /\ t_cpu' = t_cpu /\ c_curthread' = c_curthread /\ c_zombies' = c_zombies
      /\ wc_threads' = wc_threads /\ c_isidle' = c_isidle
  BY Zenon DEF ForkRun, thread_make_runnable, cpuVars, chanVars
<1>4. Queued(t, d, k, x, k2, x2)
  BY Zenon DEF Queued
<1>5. States(t_state', t_cpu, c_curthread, Idle, child', k2, x2)
  <2>1. States([t_state EXCEPT ![t] = "S_READY"], t_cpu, c_curthread, Idle, [child EXCEPT ![p] = NONE], k2, x2)
    BY Zenon, <1>1, <1>2, Started
  <2> QED
    BY ZenonT(60), <1>3, <2>1
<1> HIDE DEF k2, x2, d, t, p
<1>6. /\ PlaceType(k2, x2) /\ Listed(hand, Cpu, "hand", k2, x2)
      /\ Listed(c_runqueue', Cpu, "runqueue", k2, x2) /\ Listed(c_zombies, Cpu, "zombies", k2, x2)
      /\ Listed(Victims, Cpu, "victims", k2, x2) /\ Listed(wc_threads, Wchan, "wchan", k2, x2)
  <2>1. k[t] # "runqueue"
    BY Zenon, <1>2
  <2>2. QueueFacts(c_runqueue, c_zombies, hand, Victims, wc_threads, t, d, k, x, k2, x2)
    BY Zenon, <1>1, <1>2, <1>4, <2>1, QueueLists
  <2> QED
    BY Zenon, <1>2, <1>3, <2>2 DEF QueueFacts
<1>7. Idle' = Idle
  BY Zenon, <1>3 DEF Idle
<1>8. Lists(c_runqueue', c_zombies', hand', Victims', wc_threads', k2, x2)
  BY Zenon, <1>3, <1>6 DEF Lists
<1> QED
  BY Zenon, <1>3, <1>5, <1>7, <1>8 DEF PlaceInv

LEMMA VictimsSet ==
  ASSUME MigTypeOK, NEW c \in Cpu, NEW r, mig' = [mig EXCEPT ![c] = r]
  PROVE  /\ Victims' = [Victims EXCEPT ![c] = r.victims]
         /\ r.victims = mig[c].victims => Victims' = Victims
         /\ Victims[c] = mig[c].victims
BY Zenon DEF MigTypeOK, Victims

(* thread_consider_migration takes the tail of the own run queue. *)
LEMMA MigTakePlace ==
  ASSUME PlaceInv, MigTypeOK, NEW c \in Cpu, mig[c].victims = <<>>, mig[c].to_send <= Len(c_runqueue[c]),
         MigTake(c), child' = child
  PROVE  PlaceInv'
<1>1. PICK k, x : /\ Lists(c_runqueue, c_zombies, hand, Victims, wc_threads, k, x)
                  /\ States(t_state, t_cpu, c_curthread, Idle, child, k, x)
  BY Zenon DEF PlaceInv
<1>2. /\ PlaceType(k, x) /\ Listed(c_runqueue, Cpu, "runqueue", k, x) /\ Listed(c_zombies, Cpu, "zombies", k, x)
      /\ Listed(hand, Cpu, "hand", k, x) /\ Listed(Victims, Cpu, "victims", k, x)
      /\ Listed(wc_threads, Wchan, "wchan", k, x)
  BY Zenon, <1>1 DEF Lists
<1> DEFINE q == c_runqueue[c]
           n == Len(q) - mig[c].to_send
           a == SubSeq(q, 1, n)
           b == SubSeq(q, n + 1, Len(q))
           k2 == [t \in Thread |-> IF t \in Members(b) THEN "victims" ELSE k[t]]
<1>3. q \in Seq(Thread) /\ NoDup(q) /\ \A t \in Thread : t \in Members(q) <=> k[t] = "runqueue" /\ x[t] = c
  BY <1>2 DEF Listed
<1>4. n \in Nat /\ n <= Len(q)
  <2>1. Len(q) \in Nat
    BY Zenon, <1>3, ListShape
  <2>2. mig[c].to_send \in Nat
    BY Zenon DEF MigTypeOK
  <2> QED
    BY <2>1, <2>2
<1>5. /\ a \in Seq(Thread) /\ b \in Seq(Thread) /\ NoDup(a) /\ NoDup(b)
      /\ Members(q) = Members(a) \cup Members(b) /\ Members(a) \cap Members(b) = {}
  <2> HIDE DEF n, q
  <2> QED
    BY Zenon, <1>3, <1>4, Split
<1>6. c_runqueue' = [c_runqueue EXCEPT ![c] = a] /\ Victims' = [Victims EXCEPT ![c] = b]
  <2>1. c_runqueue' = [c_runqueue EXCEPT ![c] = a]
    BY Zenon DEF MigTake
  <2> DEFINE r == [mig[c] EXCEPT !.ph = "scan", !.victims = b]
  <2>2. mig' = [mig EXCEPT ![c] = r]
    BY Zenon DEF MigTake, Mig
  <2>3. r.victims = b
    BY Zenon DEF MigTypeOK
  <2> HIDE DEF a, b, r
  <2> QED
    BY Zenon, <2>1, <2>2, <2>3, VictimsSet
<1>7. /\ t_state' = t_state /\ t_cpu' = t_cpu /\ c_curthread' = c_curthread /\ c_isidle' = c_isidle
      /\ c_zombies' = c_zombies /\ hand' = hand /\ wc_threads' = wc_threads
  BY Zenon DEF MigTake, cpuVars, chanVars
<1>8. k2 \in [Thread -> Kinds] /\ \A t \in Thread : k2[t] = (IF t \in Members(b) THEN "victims" ELSE k[t])
  BY Zenon, <1>2 DEF PlaceType, Kinds
<1>9. \A t \in Thread : t \in Members(b) => k[t] = "runqueue" /\ x[t] = c
  BY Zenon, <1>3, <1>5
<1> HIDE DEF q, n, a, b, k2
<1>10. PlaceType(k2, x) /\ Shift(k, x, k2, x)
  BY Zenon, <1>2, <1>8, <1>9 DEF PlaceType, Shift
<1>11. Listed(c_runqueue', Cpu, "runqueue", k2, x)
  <2>1. Fills(a, "runqueue", c, k2, x)
    BY Zenon, <1>3, <1>5, <1>8, <1>9 DEF Fills
  <2>2. OnlyListOf(c, Cpu, "runqueue", k, x, k2, x)
    BY <1>8, <1>9 DEF OnlyListOf
  <2> QED
    BY Zenon, <1>2, <1>6, <2>1, <2>2, ListsSet
<1>12. Listed(Victims', Cpu, "victims", k2, x)
  <2>1. \A t \in Thread : ~(k[t] = "victims" /\ x[t] = c)
    BY SMTT(30), <1>2, EmptyList DEF Listed, threadlist_init, Victims
  <2>2. Fills(b, "victims", c, k2, x)
    BY Zenon, <1>5, <1>8, <1>9, <2>1 DEF Fills
  <2>3. OnlyListOf(c, Cpu, "victims", k, x, k2, x)
    BY Zenon, <1>8, <1>9 DEF OnlyListOf
  <2> QED
    BY ZenonT(60), <1>2, <1>6, <2>2, <2>3, ListsSet
<1>13. /\ Unmoved({}, "zombies", k, x, k2, x) /\ Unmoved({}, "hand", k, x, k2, x) /\ Unmoved({}, "wchan", k, x, k2, x)
  BY Zenon, <1>8, <1>9 DEF Unmoved
<1>14. /\ Listed(c_zombies, Cpu, "zombies", k2, x) /\ Listed(hand, Cpu, "hand", k2, x)
       /\ Listed(wc_threads, Wchan, "wchan", k2, x)
  BY Zenon, <1>2, <1>13, ListsStay
<1>15. Lists(c_runqueue', c_zombies, hand, Victims', wc_threads, k2, x)
  BY Zenon, <1>10, <1>11, <1>12, <1>14 DEF Lists
<1>16. States(t_state, t_cpu, c_curthread, Idle, child, k2, x)
  BY Zenon, <1>1, <1>10, Rehome
<1>17. Idle' = Idle
  BY Zenon, <1>7 DEF Idle
<1> QED
  BY Zenon, <1>7, <1>15, <1>16, <1>17 DEF PlaceInv

(* What is left goes back to the own run queue. *)
LEMMA MigBackPlace ==
  ASSUME PlaceInv, MigTypeOK, NEW c \in Cpu, MigBack(c), child' = child
  PROVE  PlaceInv'
<1>1. PICK k, x : /\ Lists(c_runqueue, c_zombies, hand, Victims, wc_threads, k, x)
                  /\ States(t_state, t_cpu, c_curthread, Idle, child, k, x)
  BY Zenon DEF PlaceInv
<1>2. /\ PlaceType(k, x) /\ Listed(c_runqueue, Cpu, "runqueue", k, x) /\ Listed(c_zombies, Cpu, "zombies", k, x)
      /\ Listed(hand, Cpu, "hand", k, x) /\ Listed(Victims, Cpu, "victims", k, x)
      /\ Listed(wc_threads, Wchan, "wchan", k, x)
  BY Zenon, <1>1 DEF Lists
<1> DEFINE q == c_runqueue[c]
           v == mig[c].victims
           l == q \o v
           k2 == [t \in Thread |-> IF t \in Members(v) THEN "runqueue" ELSE k[t]]
<1>3. q \in Seq(Thread) /\ NoDup(q) /\ \A t \in Thread : t \in Members(q) <=> k[t] = "runqueue" /\ x[t] = c
  BY <1>2 DEF Listed
<1>4. v \in Seq(Thread) /\ NoDup(v) /\ \A t \in Thread : t \in Members(v) <=> k[t] = "victims" /\ x[t] = c
  BY Zenon, <1>2 DEF Listed, Victims
<1>5. Members(q) \subseteq Thread /\ Members(v) \subseteq Thread
  BY Zenon, <1>3, <1>4, ListShape
<1>6. Members(q) \cap Members(v) = {}
  BY Zenon, <1>3, <1>4, <1>5
<1>7. l \in Seq(Thread) /\ NoDup(l) /\ Members(l) = Members(q) \cup Members(v)
  <2> HIDE DEF q, v
  <2> QED
    BY <1>3, <1>4, <1>6, Joined
<1>8. c_runqueue' = [c_runqueue EXCEPT ![c] = l] /\ Victims' = [Victims EXCEPT ![c] = threadlist_init]
  <2>1. c_runqueue' = [c_runqueue EXCEPT ![c] = l]
    BY Zenon DEF MigBack
  <2>2. mig' = [mig EXCEPT ![c] = NoMig] /\ NoMig.victims = threadlist_init
    BY Zenon DEF MigBack, Mig, NoMig
  <2> QED
    BY Zenon, <2>1, <2>2, VictimsSet
<1>9. /\ t_state' = t_state /\ t_cpu' = t_cpu /\ c_curthread' = c_curthread /\ c_isidle' = c_isidle
      /\ c_zombies' = c_zombies /\ hand' = hand /\ wc_threads' = wc_threads
  BY Zenon DEF MigBack, cpuVars, chanVars
<1>10. k2 \in [Thread -> Kinds] /\ \A t \in Thread : k2[t] = (IF t \in Members(v) THEN "runqueue" ELSE k[t])
  BY Zenon, <1>2 DEF PlaceType, Kinds
<1> HIDE DEF q, v, l, k2
<1>11. PlaceType(k2, x) /\ Shift(k, x, k2, x)
  BY Zenon, <1>2, <1>4, <1>10 DEF PlaceType, Shift
<1>12. Listed(c_runqueue', Cpu, "runqueue", k2, x)
  <2>1. Fills(l, "runqueue", c, k2, x)
    BY Zenon, <1>3, <1>4, <1>7, <1>10 DEF Fills
  <2>2. OnlyListOf(c, Cpu, "runqueue", k, x, k2, x)
    BY Zenon, <1>4, <1>10 DEF OnlyListOf
  <2> QED
    BY Zenon, <1>2, <1>8, <2>1, <2>2, ListsSet
<1>13. Listed(Victims', Cpu, "victims", k2, x)
  <2>1. Fills(threadlist_init, "victims", c, k2, x)
    BY Zenon, <1>4, <1>10, EmptyList DEF Fills
  <2>2. OnlyListOf(c, Cpu, "victims", k, x, k2, x)
    BY <1>4, <1>10 DEF OnlyListOf
  <2> QED
    BY Zenon, <1>2, <1>8, <2>1, <2>2, ListsSet
<1>14. /\ Unmoved({}, "zombies", k, x, k2, x) /\ Unmoved({}, "hand", k, x, k2, x) /\ Unmoved({}, "wchan", k, x, k2, x)
  BY Zenon, <1>4, <1>10 DEF Unmoved
<1>15. /\ Listed(c_zombies, Cpu, "zombies", k2, x) /\ Listed(hand, Cpu, "hand", k2, x)
       /\ Listed(wc_threads, Wchan, "wchan", k2, x)
  BY Zenon, <1>2, <1>14, ListsStay
<1>16. Lists(c_runqueue', c_zombies, hand, Victims', wc_threads, k2, x)
  BY Zenon, <1>11, <1>12, <1>13, <1>15 DEF Lists
<1>17. States(t_state, t_cpu, c_curthread, Idle, child, k2, x)
  BY Zenon, <1>1, <1>11, Rehome
<1>18. Idle' = Idle
  BY Zenon, <1>9 DEF Idle
<1> QED
  BY Zenon, <1>9, <1>16, <1>17, <1>18 DEF PlaceInv

(* One victim goes to the CPU whose run queue is locked, or, when it is the
   current thread, to the end of the victims. *)
LEMMA MigSendPlace ==
  ASSUME PlaceInv, MigTypeOK, NEW c \in Cpu, mig[c].i \in Cpu, mig[c].i # c,
         mig[c].to_send <= Len(mig[c].victims), MigSend(c), child' = child
  PROVE  PlaceInv'
<1>1. PICK k, x : /\ Lists(c_runqueue, c_zombies, hand, Victims, wc_threads, k, x)
                  /\ States(t_state, t_cpu, c_curthread, Idle, child, k, x)
  BY Zenon DEF PlaceInv
<1>2. /\ PlaceType(k, x) /\ Listed(c_runqueue, Cpu, "runqueue", k, x) /\ Listed(c_zombies, Cpu, "zombies", k, x)
      /\ Listed(hand, Cpu, "hand", k, x) /\ Listed(Victims, Cpu, "victims", k, x)
      /\ Listed(wc_threads, Wchan, "wchan", k, x)
  BY Zenon, <1>1 DEF Lists
<1> DEFINE m == mig[c]
           v == m.victims
           t == threadlist_head(v)
           rest == threadlist_remhead(v)
<1>3. v \in Seq(Thread) /\ NoDup(v) /\ Victims[c] = v
      /\ \A u \in Thread : u \in Members(v) <=> k[u] = "victims" /\ x[u] = c
  BY Zenon, <1>2 DEF Listed, Victims
<1>4. /\ t_state' = t_state /\ c_curthread' = c_curthread /\ c_isidle' = c_isidle /\ Idle' = Idle
      /\ c_zombies' = c_zombies /\ hand' = hand /\ wc_threads' = wc_threads
  BY Zenon DEF MigSend, cpuVars, chanVars, Idle
<1>5. CASE ~(Len(c_runqueue[m.i]) < m.one_share /\ m.to_send > 0)
  <2> DEFINE r == [m EXCEPT !.ph = "scan", !.i = m.i + 1]
  <2>1. /\ mig' = [mig EXCEPT ![c] = r] /\ t_cpu' = t_cpu /\ c_runqueue' = c_runqueue
    BY Zenon, <1>5 DEF MigSend, Mig, queueVars
  <2>2. r.victims = m.victims
    BY Zenon DEF MigTypeOK
  <2> HIDE DEF r
  <2>3. Victims' = Victims
    BY Zenon, <2>1, <2>2, VictimsSet
  <2> QED
    BY Zenon, <1>4, <2>1, <2>3, PlaceFrame
<1>6. CASE Len(c_runqueue[m.i]) < m.one_share /\ m.to_send > 0
  <2>1. v # <<>>
    <3>1. m.to_send \in Nat /\ Len(v) \in Nat /\ m.to_send <= Len(v)
      BY Zenon, <1>3, ListShape DEF MigTypeOK
    <3>2. Len(v) > 0
      BY <1>6, <3>1
    <3> QED
      BY Zenon, <1>3, <3>2, ListShape
  <2>2. /\ t \in Thread /\ t \in Members(v) /\ rest \in Seq(Thread) /\ NoDup(rest)
        /\ Members(v) = Members(rest) \cup {t} /\ t \notin Members(rest)
    BY Zenon, <1>3, <2>1, RemHead
  <2>3. k[t] = "victims" /\ x[t] = c
    BY Zenon, <1>3, <2>2
  <2>4. CASE Skip(c, t)
    <3> DEFINE l == threadlist_addtail(rest, t)
               r == [m EXCEPT !.victims = l, !.to_send = m.to_send - 1]
    <3>1. mig' = [mig EXCEPT ![c] = r] /\ t_cpu' = t_cpu /\ c_runqueue' = c_runqueue
      BY Zenon, <1>6, <2>4 DEF MigSend, Mig, queueVars
    <3>2. r.victims = l
      BY Zenon DEF MigTypeOK
    <3>3. l \in Seq(Thread) /\ NoDup(l) /\ Members(l) = Members(v)
      BY <2>2, AddTail
    <3> HIDE DEF r, l, t, rest
    <3>4. Victims' = [Victims EXCEPT ![c] = l]
      BY ZenonT(60), <3>1, <3>2, VictimsSet
    <3>5. Fills(l, "victims", c, k, x) /\ OnlyListOf(c, Cpu, "victims", k, x, k, x)
      BY Zenon, <1>3, <3>3 DEF Fills, OnlyListOf
    <3>6. Listed(Victims', Cpu, "victims", k, x)
      BY Zenon, <1>2, <3>4, <3>5, ListsSet
    <3>7. Lists(c_runqueue, c_zombies, hand, Victims', wc_threads, k, x)
      BY Zenon, <1>2, <3>6 DEF Lists
    <3> QED
      BY Zenon, <1>1, <1>4, <3>1, <3>7 DEF PlaceInv
  <2>5. CASE ~Skip(c, t)
    <3> DEFINE d == m.i
               r == [m EXCEPT !.victims = rest, !.to_send = m.to_send - 1]
               k2 == [k EXCEPT ![t] = "runqueue"]
               x2 == [x EXCEPT ![t] = d]
    <3>1. /\ mig' = [mig EXCEPT ![c] = r] /\ t_cpu' = [t_cpu EXCEPT ![t] = d]
          /\ c_runqueue' = [c_runqueue EXCEPT ![d] = threadlist_addtail(c_runqueue[d], t)]
      BY Zenon, <1>6, <2>5 DEF MigSend, Mig
    <3>2. r.victims = rest
      BY Zenon DEF MigTypeOK
    <3>3. Queued(t, d, k, x, k2, x2)
      BY Zenon DEF Queued
    <3>4. d \in Cpu
      BY Zenon
    <3>5. States(t_state, t_cpu', c_curthread, Idle, child, k2, x2)
      <4>1. c_curthread[x[t]] # t
        BY Zenon, <2>3, <2>5 DEF Skip
      <4> HIDE DEF t, d, rest, r
      <4>2. States(t_state, [t_cpu EXCEPT ![t] = d], c_curthread, Idle, child, k2, x2)
        BY Zenon, <1>1, <1>2, <2>2, <2>3, <3>4, <4>1, Sent
      <4> QED
        BY Zenon, <3>1, <4>2
    <3> HIDE DEF r, d, k2, x2
    <3>6. Victims' = [Victims EXCEPT ![c] = threadlist_remhead(Victims[c])]
      <4>1. rest = threadlist_remhead(Victims[c])
        BY Zenon, <1>3
      <4> HIDE DEF rest
      <4>2. Victims' = [Victims EXCEPT ![c] = rest]
        BY Zenon, <3>1, <3>2, VictimsSet
      <4> QED
        BY Zenon, <4>1, <4>2
    <3>7. QueueFacts(c_runqueue, c_zombies, hand, Victims, wc_threads, t, d, k, x, k2, x2)
      <4>1. k[t] # "runqueue"
        BY Zenon, <2>3
      <4> HIDE DEF t
      <4> QED
        BY Zenon, <1>1, <2>2, <3>3, <3>4, <4>1, QueueLists
    <3>8. "victims" \in Kinds \ {"runqueue"} /\ "victims" \in Kinds
      BY Zenon DEF Kinds
    <3>9. /\ k2 \in [Thread -> Kinds] /\ Unmoved({t}, "victims", k, x, k2, x2) /\ k2[t] # "victims"
      BY Zenon, <3>7, <3>8 DEF QueueFacts
    <3>10. threadlist_head(Victims[c]) = t /\ Victims[c] # <<>>
      BY Zenon, <1>3, <2>1
    <3>11. Listed(Victims', Cpu, "victims", k2, x2)
      <4> HIDE DEF t
      <4> QED
        BY ZenonT(60), <1>2, <3>6, <3>8, <3>9, <3>10, ListsLeave
    <3>12. Lists(c_runqueue', c_zombies, hand, Victims', wc_threads, k2, x2)
      <4>1. /\ PlaceType(k2, x2) /\ Listed(c_runqueue', Cpu, "runqueue", k2, x2)
            /\ Listed(c_zombies, Cpu, "zombies", k2, x2) /\ Listed(hand, Cpu, "hand", k2, x2)
            /\ Listed(wc_threads, Wchan, "wchan", k2, x2)
        BY Zenon, <2>3, <3>1, <3>7 DEF QueueFacts
      <4> QED
        BY Zenon, <3>11, <4>1 DEF Lists
    <3> QED
      BY Zenon, <1>4, <3>5, <3>12 DEF PlaceInv
  <2> QED
    BY Zenon, <2>4, <2>5
<1> QED
  BY Zenon, <1>5, <1>6
-----------------------------------------------------------------------------
LEMMA EmptyLists ==
  ASSUME NEW I, NEW f, f = [i \in I |-> <<>>], NEW kn, NEW k, NEW x, \A t \in Thread : k[t] # kn
  PROVE  Listed(f, I, kn, k, x)
<1>1. <<>> \in Seq(Thread) /\ NoDup(<<>>) /\ Members(<<>>) = {}
  BY DEF NoDup, Members
<1> QED
  BY Zenon, <1>1 DEF Listed

LEMMA InitPlace ==
  ASSUME Init
  PROVE  PlaceInv
<1> DEFINE k == [t \in Thread |-> "none"]
           x == [t \in Thread |-> 0]
<1>1. /\ t_state = [t \in Thread |-> IF \E c \in Cpu : BootThread[c] = t THEN "S_RUN" ELSE "none"]
      /\ t_cpu = [t \in Thread |-> IF \E c \in Cpu : BootThread[c] = t
                                   THEN CHOOSE c \in Cpu : BootThread[c] = t ELSE 0]
      /\ c_curthread = BootThread
      /\ c_runqueue = [c \in Cpu |-> <<>>] /\ c_zombies = [c \in Cpu |-> <<>>] /\ hand = [c \in Cpu |-> <<>>]
      /\ wc_threads = [w \in Wchan |-> <<>>] /\ c_isidle = [c \in Cpu |-> FALSE]
      /\ mig = [c \in Cpu |-> NoMig] /\ child = [t \in Thread |-> NONE]
  BY Zenon DEF Init, SchedInit, threadlist_init
<1>2. \A t \in Thread : k[t] = "none" /\ x[t] = 0
  BY Zenon
<1>3. PlaceType(k, x)
  BY SchedAssumption DEF PlaceType, Kinds, Cpu
<1> HIDE DEF k, x
<1>4. Victims = [c \in Cpu |-> <<>>]
  BY Zenon, <1>1 DEF Victims, NoMig, threadlist_init
<1>5. Lists(c_runqueue, c_zombies, hand, Victims, wc_threads, k, x)
  <2>1. /\ \A t \in Thread : k[t] # "runqueue" /\ k[t] # "zombies" /\ k[t] # "hand" /\ k[t] # "victims" /\ k[t] # "wchan"
    BY Zenon, <1>2
  <2>2. Listed(c_runqueue, Cpu, "runqueue", k, x)
    BY Zenon, <1>1, <2>1, EmptyLists
  <2>3. Listed(c_zombies, Cpu, "zombies", k, x)
    BY Zenon, <1>1, <2>1, EmptyLists
  <2>4. Listed(hand, Cpu, "hand", k, x)
    BY Zenon, <1>1, <2>1, EmptyLists
  <2>5. Listed(Victims, Cpu, "victims", k, x)
    BY Zenon, <1>4, <2>1, EmptyLists
  <2>6. Listed(wc_threads, Wchan, "wchan", k, x)
    BY Zenon, <1>1, <2>1, EmptyLists
  <2> QED
    BY Zenon, <1>3, <2>2, <2>3, <2>4, <2>5, <2>6 DEF Lists
<1>6. Idle = {}
  BY Zenon, <1>1 DEF Idle
<1>7. /\ BootThread \in [Cpu -> Thread] /\ \A c, d \in Cpu : BootThread[c] = BootThread[d] => c = d
      /\ NONE \notin Thread
  BY Zenon, SchedAssumption
<1>8. ASSUME NEW c \in Cpu
      PROVE  BootThread[c] \in Thread /\ t_state[BootThread[c]] = "S_RUN" /\ t_cpu[BootThread[c]] = c
  <2>1. BootThread[c] \in Thread
    BY Zenon, <1>7
  <2>2. (CHOOSE d \in Cpu : BootThread[d] = BootThread[c]) = c
    BY Zenon, <1>7
  <2> QED
    BY Zenon, <1>1, <2>1, <2>2
<1>9. ASSUME NEW t \in Thread, ~\E c \in Cpu : BootThread[c] = t
      PROVE  t_state[t] = "none" /\ t_cpu[t] = 0
  BY Zenon, <1>1, <1>9
<1>10. t_state \in [Thread -> TStates] /\ t_cpu \in [Thread -> Cpu]
  <2>1. \A t \in Thread : t_state[t] \in TStates /\ t_cpu[t] \in Cpu
    <3>1. ASSUME NEW t \in Thread PROVE t_state[t] \in TStates /\ t_cpu[t] \in Cpu
      <4>1. CASE \E c \in Cpu : BootThread[c] = t
        BY Zenon, <1>8, <4>1 DEF TStates
      <4>2. CASE ~\E c \in Cpu : BootThread[c] = t
        BY <1>9, <4>2, SchedAssumption DEF TStates, Cpu
      <4> QED
        BY Zenon, <4>1, <4>2
    <3> QED
      BY Zenon, <3>1
  <2>2. DOMAIN t_state = Thread /\ DOMAIN t_cpu = Thread /\ t_state = [t \in Thread |-> t_state[t]] /\ t_cpu = [t \in Thread |-> t_cpu[t]]
    BY Zenon, <1>1
  <2> QED
    BY Zenon, <2>1, <2>2
<1>11. \A t \in Thread : /\ t_state[t] \in {"none", "S_RUN"}
                         /\ t_state[t] = "S_RUN" => c_curthread[t_cpu[t]] = t
  <2>1. ASSUME NEW t \in Thread
        PROVE  t_state[t] \in {"none", "S_RUN"} /\ (t_state[t] = "S_RUN" => BootThread[t_cpu[t]] = t)
    BY <1>8, <1>9
  <2> QED
    BY Zenon, <1>1, <2>1
<1>12. \A p \in Thread : child[p] = NONE
  BY Zenon, <1>1
<1>13. child \in [Thread -> Thread \cup {NONE}]
  BY Zenon, <1>1
<1>14. c_curthread \in [Cpu -> Thread] /\ \A c \in Cpu : t_cpu[c_curthread[c]] = c /\ t_state[c_curthread[c]] = "S_RUN"
  BY Zenon, <1>1, <1>7, <1>8
<1>15. States(t_state, t_cpu, c_curthread, Idle, child, k, x)
  BY Zenon, <1>2, <1>6, <1>10, <1>11, <1>12, <1>13, <1>14 DEF States
<1> QED
  BY Zenon, <1>5, <1>15 DEF PlaceInv

(* What the placing says of the lists as OnePlace counts them. *)
LEMMA ListOf ==
  ASSUME NEW k, NEW x, Lists(c_runqueue, c_zombies, hand, Victims, wc_threads, k, x), NEW l \in ListName
  PROVE  /\ l = <<l[1], l[2]>> /\ NoDup(List(l))
         /\ \A t \in Thread : t \in Members(List(l)) <=> k[t] = l[1] /\ x[t] = l[2]
<1>1. \/ l[1] \in {"runqueue", "zombies", "hand", "victims"} /\ l[2] \in Cpu /\ l = <<l[1], l[2]>>
      \/ l[1] = "wchan" /\ l[2] \in Wchan /\ l = <<l[1], l[2]>>
  BY DEF ListName
<1>2. /\ Listed(c_runqueue, Cpu, "runqueue", k, x) /\ Listed(c_zombies, Cpu, "zombies", k, x)
      /\ Listed(hand, Cpu, "hand", k, x) /\ Listed(Victims, Cpu, "victims", k, x)
      /\ Listed(wc_threads, Wchan, "wchan", k, x)
  BY Zenon DEF Lists
<1>3. CASE l[1] = "runqueue"
  BY <1>1, <1>2, <1>3 DEF List, Listed
<1>4. CASE l[1] = "zombies"
  BY <1>1, <1>2, <1>4 DEF List, Listed
<1>5. CASE l[1] = "hand"
  BY <1>1, <1>2, <1>5 DEF List, Listed
<1>6. CASE l[1] = "victims"
  <2>1. List(l) = Victims[l[2]] /\ l[2] \in Cpu
    BY Zenon, <1>1, <1>6 DEF List, Victims
  <2> QED
    BY <1>1, <1>2, <1>6, <2>1 DEF Listed
<1>7. CASE l[1] = "wchan"
  BY <1>1, <1>2, <1>7 DEF List, Listed
<1> QED
  BY Zenon, <1>1, <1>3, <1>4, <1>5, <1>6, <1>7

LEMMA PlacesOf ==
  ASSUME NEW k, NEW x, Lists(c_runqueue, c_zombies, hand, Victims, wc_threads, k, x), NEW t \in Thread
  PROVE  /\ k[t] = "none" => Places(t) = {}
         /\ k[t] # "none" => \E q : Places(t) = {q}
         /\ \A p \in Places(t) : p[1][1] = k[t]
<1>1. \A p : p \in Places(t) <=> \E l \in ListName : \E i \in DOMAIN List(l) : p = <<l, i>> /\ List(l)[i] = t
  BY DEF Places
<1>2. ASSUME NEW l \in ListName, NEW i \in DOMAIN List(l), List(l)[i] = t
      PROVE  l = <<k[t], x[t]>> /\ k[t] = l[1] /\ k[t] # "none"
  <2>1. t \in Members(List(l))
    BY Zenon, <1>2 DEF Members
  <2>2. l = <<l[1], l[2]>> /\ k[t] = l[1] /\ x[t] = l[2]
    BY <2>1, ListOf
  <2>3. l[1] # "none"
    BY Zenon DEF ListName
  <2> QED
    BY Zenon, <2>2, <2>3
<1>3. k[t] = "none" => Places(t) = {}
  BY Zenon, <1>1, <1>2
<1>4. \A p \in Places(t) : p[1][1] = k[t]
  <2>1. ASSUME NEW p \in Places(t) PROVE p[1][1] = k[t]
    <3>1. PICK l \in ListName : \E i \in DOMAIN List(l) : p = <<l, i>> /\ List(l)[i] = t
      BY Zenon, <1>1
    <3>2. p[1] = l /\ k[t] = l[1]
      BY <1>2, <3>1
    <3> QED
      BY Zenon, <3>2
  <2> QED
    BY Zenon, <2>1
<1>5. ASSUME k[t] # "none" PROVE \E q : Places(t) = {q}
  <2> DEFINE l == <<k[t], x[t]>>
  <2>1. l \in ListName /\ l[1] = k[t] /\ l[2] = x[t]
    BY Zenon, <1>5 DEF Lists, PlaceType, Kinds, ListName
  <2> HIDE DEF l
  <2>2. t \in Members(List(l)) /\ NoDup(List(l))
    BY <2>1, ListOf
  <2>3. PICK i \in DOMAIN List(l) : List(l)[i] = t
    BY Zenon, <2>2 DEF Members
  <2>4. \A j \in DOMAIN List(l) : List(l)[j] = t => j = i
    BY Zenon, <2>2, <2>3 DEF NoDup
  <2>5. Places(t) = {<<l, i>>}
    <3>1. <<l, i>> \in Places(t)
      BY Zenon, <1>1, <2>1, <2>3
    <3>2. ASSUME NEW p \in Places(t) PROVE p = <<l, i>>
      <4>1. PICK m \in ListName : \E j \in DOMAIN List(m) : p = <<m, j>> /\ List(m)[j] = t
        BY Zenon, <1>1
      <4>2. PICK j \in DOMAIN List(m) : p = <<m, j>> /\ List(m)[j] = t
        BY Zenon, <4>1
      <4>3. m = l
        BY Zenon, <1>2, <4>2 DEF l
      <4> QED
        BY Zenon, <2>4, <4>2, <4>3
    <3> QED
      BY Zenon, <3>1, <3>2
  <2> QED
    BY Zenon, <2>5
<1> QED
  BY Zenon, <1>3, <1>4, <1>5

-----------------------------------------------------------------------------
(***************************************************************************)
(* What each CPU is doing fits its lists, whatever the other CPUs do, for  *)
(* any number of CPUs and threads: one lemma for each action of Sched and  *)
(* Migration.  Where an action moves threads, that they are in their       *)
(* places after it is an assumption here, and shown above.                 *)
(***************************************************************************)
LEMMA PlaceTypes ==
  ASSUME PlaceInv
  PROVE  /\ t_state \in [Thread -> TStates] /\ t_cpu \in [Thread -> Cpu] /\ c_curthread \in [Cpu -> Thread]
         /\ child \in [Thread -> Thread \cup {NONE}] /\ c_runqueue \in [Cpu -> Seq(Thread)]
         /\ c_zombies \in [Cpu -> Seq(Thread)] /\ hand \in [Cpu -> Seq(Thread)]
         /\ wc_threads \in [Wchan -> Seq(Thread)]
BY Zenon DEF PlaceInv, States, Lists, Listed

(* The current thread of a CPU that does not idle runs; the threads in a waker's
   hand sleep. *)
LEMMA RunningThread ==
  ASSUME PlaceInv, NEW c \in Cpu, ~c_isidle[c]
  PROVE  t_state[c_curthread[c]] = "S_RUN"
BY Zenon DEF PlaceInv, States, Idle

LEMMA HandSleeps ==
  ASSUME PlaceInv, NEW d \in Cpu, hand[d] # <<>>
  PROVE  threadlist_head(hand[d]) \in Thread /\ t_state[threadlist_head(hand[d])] = "S_SLEEP"
<1>1. PICK k, x : Listed(hand, Cpu, "hand", k, x) /\ States(t_state, t_cpu, c_curthread, Idle, child, k, x)
  BY Zenon DEF PlaceInv, Lists
<1>2. hand[d] \in Seq(Thread)
  BY Zenon, <1>1 DEF Listed
<1>3. threadlist_head(hand[d]) \in Thread /\ threadlist_head(hand[d]) \in Members(hand[d])
  BY Zenon, <1>2, RemHead
<1>4. k[threadlist_head(hand[d])] = "hand"
  BY Zenon, <1>1, <1>3 DEF Listed
<1> QED
  BY Zenon, <1>1, <1>3, <1>4 DEF States

(* The run queue of d as another CPU leaves it: as it was, or longer and, if d
   idles, with an interrupt on its way. *)
QueueKept(d) ==
  \/ c_runqueue'[d] = c_runqueue[d] /\ (ipi_line[d] => ipi_line'[d])
  \/ Len(c_runqueue'[d]) >= Len(c_runqueue[d]) /\ (c_isidle[d] => ipi_line'[d])

(* A step of another CPU. *)
LEMMA CpuFrame ==
  ASSUME SchedInv, NEW d \in Cpu, c_runqueue'[d] \in Seq(Thread),
         act'[d] = act[d], c_isidle'[d] = c_isidle[d], hand'[d] = hand[d], tgt'[d] = tgt[d], mig'[d] = mig[d],
         hand[d] # <<>> => t_cpu'[threadlist_head(hand[d])] = t_cpu[threadlist_head(hand[d])],
         QueueKept(d)
  PROVE  CpuInv(d)'
<1>1. CpuInv(d)
  BY Zenon DEF SchedInv
<1>2. /\ Len(c_runqueue[d]) \in Nat /\ Len(c_runqueue'[d]) \in Nat
      /\ mig[d].my_count \in Nat /\ mig[d].to_send \in Nat
  <2>1. mig[d].my_count \in Nat /\ mig[d].to_send \in Nat
    BY Zenon DEF SchedInv, SchedRest, MigTypeOK
  <2>2. c_runqueue[d] \in Seq(Thread)
    BY Zenon, PlaceTypes DEF SchedInv
  <2> QED
    BY Zenon, <2>1, <2>2, ListShape
<1>3. Len(c_runqueue'[d]) >= Len(c_runqueue[d])
  BY <1>2 DEF QueueKept
<1>4. /\ mig[d].ph = "count" => /\ mig[d].i < NumCpus
                                /\ mig[d].i > d => mig[d].my_count <= Len(c_runqueue'[d])
      /\ mig[d].ph = "take" => mig[d].to_send <= Len(c_runqueue'[d])
  BY <1>1, <1>2, <1>3 DEF CpuInv
<1>5. act[d] = "wait" /\ c_runqueue'[d] # <<>> => ipi_line'[d]
  BY Zenon, <1>1 DEF CpuInv, QueueKept
<1>6. act[d] = "wake" => tgt[d] = t_cpu'[threadlist_head(hand[d])]
  BY Zenon, <1>1 DEF CpuInv
<1> QED
  BY Zenon, <1>1, <1>4, <1>5, <1>6 DEF CpuInv

(* A step that changes only what its CPU is doing. *)
LEMMA LocalStep ==
  ASSUME SchedInv, NEW c \in Cpu, SchedRest', CpuInv(c)', mig'[c].victims = mig[c].victims,
         UNCHANGED <<t_state, t_cpu, c_curthread, c_isidle, c_runqueue, c_zombies, hand, tgt, wc_threads, child>>,
         \A d \in Cpu \ {c} : act'[d] = act[d] /\ mig'[d] = mig[d] /\ (ipi_line'[d] <=> ipi_line[d])
  PROVE  SchedInv'
<1>1. Victims' = Victims
  <2>1. \A d \in Cpu : mig'[d].victims = mig[d].victims
    BY Zenon
  <2> QED
    BY Zenon, <2>1 DEF Victims
<1>2. PlaceInv'
  <2>1. Idle' = Idle
    BY Zenon DEF Idle
  <2> QED
    BY Zenon, <1>1, <2>1 DEF SchedInv, PlaceInv
<1>3. ASSUME NEW d \in Cpu \ {c} PROVE CpuInv(d)'
  <2>1. QueueKept(d)
    BY Zenon DEF QueueKept
  <2>2. c_runqueue'[d] \in Seq(Thread)
    BY Zenon, PlaceTypes DEF SchedInv
  <2> QED
    BY Zenon, <2>1, <2>2, CpuFrame
<1> QED
  BY Zenon, <1>2, <1>3 DEF SchedInv

(* What holds of a CPU that can be interrupted or runs a thread. *)
LEMMA NotBusy ==
  ASSUME SchedInv, NEW c \in Cpu, act[c] \notin {"wake", "migrate"}
  PROVE  /\ hand[c] = <<>> /\ mig[c].ph = "none" /\ mig[c].victims = <<>>
         /\ CpuInv(c) /\ SchedRest /\ MigTypeOK /\ PlaceInv
BY Zenon DEF SchedInv, CpuInv, SchedRest

LEMMA DoActKeeps ==
  ASSUME SchedRest, NEW c \in Cpu, NEW a \in Acts, DoAct(c, a)
  PROVE  act' \in [Cpu -> Acts] /\ act'[c] = a /\ \A d \in Cpu \ {c} : act'[d] = act[d]
BY Zenon DEF SchedRest, DoAct

MigRec == [ph : {"none", "count", "take", "scan", "send", "back"},
           i : 0 .. NumCpus, my_count : Nat, total_count : Nat,
           one_share : Nat, to_send : Nat, victims : Seq(Thread)]

LEMMA MigKeeps ==
  ASSUME MigTypeOK, NEW c \in Cpu, NEW m, Mig(c, m)
  PROVE  /\ mig'[c] = m /\ \A d \in Cpu \ {c} : mig'[d] = mig[d]
         /\ m \in MigRec => MigTypeOK'
BY Zenon DEF MigTypeOK, Mig, MigRec

LEMMA NoMigFacts ==
  /\ NoMig \in MigRec /\ NoMig.ph = "none" /\ NoMig.victims = <<>>
  /\ NoMig.i = 0 /\ NoMig.my_count = 0
BY SchedAssumption DEF NoMig, MigRec, threadlist_init

LEMMA MigPhase ==
  ASSUME NEW m \in MigRec, NEW p \in {"none", "count", "take", "scan", "send", "back"}
  PROVE  LET r == [m EXCEPT !.ph = p] IN
         /\ r \in MigRec /\ r.ph = p /\ r.victims = m.victims /\ r.i = m.i
         /\ r.my_count = m.my_count /\ r.to_send = m.to_send
BY Zenon DEF MigRec

LEMMA TakeIpiStep ==
  ASSUME SchedInv, NEW c \in Cpu, TakeIpi(c), UNCHANGED <<mig, child>>
  PROVE  SchedInv'
<1>1. act[c] \notin {"wake", "migrate"}
  BY Zenon DEF TakeIpi, Interruptible
<1>2. /\ hand[c] = <<>> /\ mig[c].ph = "none" /\ mig[c].victims = <<>> /\ CpuInv(c) /\ SchedRest
  BY Zenon, <1>1, NotBusy
<1>3. act' \in [Cpu -> Acts] /\ act'[c] = "ipi" /\ \A d \in Cpu \ {c} : act'[d] = act[d]
  <2>1. "ipi" \in Acts
    BY Zenon DEF Acts
  <2> QED
    BY Zenon, <1>2, <2>1, DoActKeeps DEF TakeIpi
<1>4. UNCHANGED <<t_state, t_cpu, c_curthread, c_isidle, c_runqueue, c_zombies, hand, tgt, wc_threads, wc_lock,
                  c_runqueue_lock, ipi_line>>
  BY Zenon DEF TakeIpi, cpuVars, queueVars, chanVars
<1>5. SchedRest'
  BY Zenon, <1>2, <1>3, <1>4 DEF SchedRest, MigTypeOK
<1>6. CpuInv(c)'
  BY Zenon, <1>2, <1>3, <1>4 DEF CpuInv
<1> QED
  BY Zenon, <1>3, <1>4, <1>5, <1>6, LocalStep

LEMMA ClearIpiStep ==
  ASSUME SchedInv, NEW c \in Cpu, lamebus_clear_ipi(c), UNCHANGED <<mig, child>>
  PROVE  SchedInv'
<1>1. act[c] \notin {"wake", "migrate"}
  BY Zenon DEF lamebus_clear_ipi
<1>2. /\ hand[c] = <<>> /\ mig[c].ph = "none" /\ mig[c].victims = <<>> /\ CpuInv(c) /\ SchedRest
  BY Zenon, <1>1, NotBusy
<1>3. /\ act' \in [Cpu -> Acts] /\ act'[c] = Resume(c) /\ \A d \in Cpu \ {c} : act'[d] = act[d]
  <2>1. Resume(c) \in Acts
    BY Zenon DEF Acts, Resume
  <2> QED
    BY Zenon, <1>2, <2>1, DoActKeeps DEF lamebus_clear_ipi
<1>4. UNCHANGED <<t_state, t_cpu, c_curthread, c_isidle, c_runqueue, c_zombies, hand, tgt, wc_threads, wc_lock,
                  c_runqueue_lock>>
  BY Zenon DEF lamebus_clear_ipi, cpuVars, chanVars
<1>5. ipi_line' = [ipi_line EXCEPT ![c] = FALSE]
  BY Zenon DEF lamebus_clear_ipi
<1>6. ipi_line' \in [Cpu -> BOOLEAN] /\ \A d \in Cpu \ {c} : ipi_line'[d] <=> ipi_line[d]
  BY Zenon, <1>2, <1>5 DEF SchedRest
<1>7. SchedRest'
  BY Zenon, <1>2, <1>3, <1>4, <1>6 DEF SchedRest, MigTypeOK
<1>8. CpuInv(c)'
  BY Zenon, <1>2, <1>3, <1>4 DEF CpuInv, Resume
<1> QED
  BY Zenon, <1>3, <1>4, <1>6, <1>7, <1>8, LocalStep

LEMMA HardclockStep ==
  ASSUME SchedInv, NEW c \in Cpu, hardclock(c), UNCHANGED child
  PROVE  SchedInv'
<1>1. act[c] \notin {"wake", "migrate"}
  BY Zenon DEF hardclock, Interruptible
<1>2. /\ hand[c] = <<>> /\ mig[c].ph = "none" /\ mig[c].victims = <<>> /\ CpuInv(c) /\ SchedRest
  BY Zenon, <1>1, NotBusy
<1>3. UNCHANGED <<t_state, t_cpu, c_curthread, c_isidle, c_runqueue, c_zombies, hand, tgt, wc_threads, wc_lock,
                  c_runqueue_lock, ipi_line>>
  BY Zenon DEF hardclock, cpuVars, queueVars, chanVars
<1>4. "yield" \in Acts /\ "migrate" \in Acts
  BY Zenon DEF Acts
<1>5. CASE DoAct(c, "yield") /\ mig' = mig
  <2>1. act' \in [Cpu -> Acts] /\ act'[c] = "yield" /\ \A d \in Cpu \ {c} : act'[d] = act[d]
    BY Zenon, <1>2, <1>4, <1>5, DoActKeeps
  <2>2. SchedRest'
    BY Zenon, <1>2, <1>3, <1>5, <2>1 DEF SchedRest, MigTypeOK
  <2>3. CpuInv(c)'
    BY Zenon, <1>2, <1>3, <1>5, <2>1 DEF CpuInv
  <2> QED
    BY Zenon, <1>3, <1>5, <2>1, <2>2, <2>3, LocalStep
<1>6. CASE DoAct(c, "migrate") /\ Mig(c, [NoMig EXCEPT !.ph = "count"])
  <2> DEFINE m == [NoMig EXCEPT !.ph = "count"]
  <2>1. act' \in [Cpu -> Acts] /\ act'[c] = "migrate" /\ \A d \in Cpu \ {c} : act'[d] = act[d]
    BY Zenon, <1>2, <1>4, <1>6, DoActKeeps
  <2>2. /\ m.ph = "count" /\ m.i = 0 /\ m.victims = <<>> /\ m.my_count = 0
        /\ m \in MigRec
    BY Zenon, NoMigFacts, MigPhase
  <2>0. Mig(c, m) /\ MigTypeOK
    BY Zenon, <1>2, <1>6 DEF SchedRest
  <2> HIDE DEF m
  <2>3. mig'[c] = m /\ \A d \in Cpu \ {c} : mig'[d] = mig[d]
    BY Zenon, <2>0, MigKeeps
  <2>4. MigTypeOK'
    BY Zenon, <2>0, <2>2, MigKeeps
  <2>5. SchedRest'
    BY Zenon, <1>2, <1>3, <2>1, <2>4 DEF SchedRest
  <2>6. 0 < NumCpus /\ ~(0 > c)
    BY SchedAssumption DEF Cpu
  <2>7. CpuInv(c)'
    BY Zenon, <1>2, <1>3, <2>1, <2>2, <2>3, <2>6 DEF CpuInv
  <2> QED
    BY Zenon, <1>2, <1>3, <2>1, <2>2, <2>3, <2>5, <2>7, LocalStep
<1> QED
  BY Zenon, <1>5, <1>6 DEF hardclock

(* One turn of the counting loop of thread_consider_migration. *)
LEMMA MigCountStep ==
  ASSUME SchedInv, NEW c \in Cpu, MigCount(c), UNCHANGED child
  PROVE  SchedInv'
<1> DEFINE m == mig[c]
           n == Len(c_runqueue[m.i])
           total == m.total_count + n
           my == IF m.i = c THEN n ELSE m.my_count
           share == DIVROUNDUP(total, NumCpus)
<1>1. CpuInv(c) /\ SchedRest /\ MigTypeOK /\ PlaceInv
  BY Zenon DEF SchedInv, SchedRest
<1>2. m \in MigRec /\ m.ph = "count" /\ m.victims = <<>> /\ m.i < NumCpus /\ act[c] = "migrate" /\ hand[c] = <<>>
  BY Zenon, <1>1 DEF MigCount, CpuInv, MigTypeOK, MigRec
<1>3. UNCHANGED <<t_state, t_cpu, c_curthread, c_isidle, c_runqueue, c_zombies, hand, tgt, wc_threads, wc_lock,
                  c_runqueue_lock, ipi_line>>
  BY Zenon DEF MigCount, cpuVars, queueVars, chanVars
<1>4. m.i \in Cpu /\ m.i \in Nat /\ NumCpus \in Nat \ {0} /\ c \in Nat /\ c < NumCpus
  BY <1>2, SchedAssumption DEF Cpu, MigRec
<1>5. /\ n \in Nat /\ m.total_count \in Nat /\ m.my_count \in Nat /\ Len(c_runqueue[c]) \in Nat
      /\ my \in Nat /\ total \in Nat /\ total = m.total_count + n
      /\ m.i >= c => my <= Len(c_runqueue[c])
  <2>1. n \in Nat /\ Len(c_runqueue[c]) \in Nat
    BY <1>1, <1>4, PlaceTypes, ListShape
  <2>2. m.total_count \in Nat /\ m.my_count \in Nat
    BY Zenon, <1>2 DEF MigRec
  <2>3. m.i > c => m.my_count <= Len(c_runqueue[c])
    BY Zenon, <1>1, <1>2 DEF CpuInv
  <2>4. m.i >= c => my <= Len(c_runqueue[c])
    BY <1>4, <2>1, <2>2, <2>3
  <2> QED
    BY <2>1, <2>2, <2>4
<1>6. share \in Nat
  <2>1. \A a \in Nat, b \in Nat \ {0} : (a + b - 1) \div b \in Nat
    OBVIOUS
  <2> QED
    BY Zenon, <1>4, <1>5, <2>1 DEF DIVROUNDUP
<1>7. "yield" \in Acts
  BY Zenon DEF Acts
<1>8. CASE m.i + 1 < NumCpus
  <2> DEFINE r == [m EXCEPT !.i = m.i + 1, !.total_count = total, !.my_count = my]
  <2>1. Mig(c, r) /\ act' = act
    BY Zenon, <1>8 DEF MigCount
  <2>2. /\ r \in MigRec /\ r.ph = "count" /\ r.victims = <<>> /\ r.i = m.i + 1 /\ r.my_count = my
    <3>1. PICK j \in 0 .. NumCpus : j = m.i + 1
      BY <1>4, <1>8
    <3> HIDE DEF total, my, m
    <3> DEFINE q == [m EXCEPT !.i = j, !.total_count = total, !.my_count = my]
    <3>2. q \in MigRec /\ q.ph = m.ph /\ q.victims = m.victims /\ q.i = j /\ q.my_count = my
      <4>1. m \in MigRec /\ total \in Nat /\ my \in Nat
        BY Zenon, <1>2, <1>5
      <4> QED
        BY Zenon, <4>1 DEF MigRec
    <3>3. r = q
      BY Zenon, <3>1
    <3> QED
      BY Zenon, <1>2, <3>1, <3>2, <3>3
  <2> HIDE DEF r
  <2>3. mig'[c] = r /\ (\A d \in Cpu \ {c} : mig'[d] = mig[d]) /\ MigTypeOK'
    BY Zenon, <1>1, <2>1, <2>2, MigKeeps
  <2>4. SchedRest'
    BY Zenon, <1>1, <1>3, <2>1, <2>3 DEF SchedRest
  <2>5. r.i < NumCpus /\ (r.i > c => my <= Len(c_runqueue[c]))
    BY <1>4, <1>5, <1>8, <2>2
  <2>6. CpuInv(c)'
    BY Zenon, <1>1, <1>2, <1>3, <2>1, <2>2, <2>3, <2>5 DEF CpuInv
  <2> QED
    BY Zenon, <1>2, <1>3, <2>1, <2>2, <2>3, <2>4, <2>6, LocalStep
<1>9. CASE ~(m.i + 1 < NumCpus) /\ my < share
  <2>1. Mig(c, NoMig) /\ DoAct(c, "yield")
    BY Zenon, <1>9 DEF MigCount
  <2>2. NoMig \in MigRec /\ NoMig.ph = "none" /\ NoMig.victims = <<>>
    BY Zenon, NoMigFacts
  <2>3. mig'[c] = NoMig /\ (\A d \in Cpu \ {c} : mig'[d] = mig[d]) /\ MigTypeOK'
    BY Zenon, <1>1, <2>1, <2>2, MigKeeps
  <2>4. act' \in [Cpu -> Acts] /\ act'[c] = "yield" /\ \A d \in Cpu \ {c} : act'[d] = act[d]
    BY Zenon, <1>1, <1>7, <2>1, DoActKeeps
  <2>5. SchedRest'
    BY Zenon, <1>1, <1>3, <2>3, <2>4 DEF SchedRest
  <2>6. CpuInv(c)'
    BY Zenon, <1>2, <1>3, <2>2, <2>3, <2>4 DEF CpuInv
  <2> QED
    BY Zenon, <1>2, <1>3, <2>2, <2>3, <2>4, <2>5, <2>6, LocalStep
<1>10. CASE ~(m.i + 1 < NumCpus) /\ ~(my < share)
  <2> DEFINE r == [NoMig EXCEPT !.ph = "take", !.one_share = share, !.to_send = my - share]
  <2>1. Mig(c, r) /\ act' = act
    BY Zenon, <1>10 DEF MigCount
  <2>2. my - share \in Nat /\ my - share <= Len(c_runqueue[c])
    <3> HIDE DEF my, share
    <3> QED
      BY SMTT(30), <1>4, <1>5, <1>6, <1>10
  <2>3. /\ r \in MigRec /\ r.ph = "take" /\ r.victims = <<>> /\ r.to_send = my - share
    <3>1. PICK j \in Nat : j = my - share
      BY Zenon, <2>2
    <3> HIDE DEF my, share
    <3>2. PICK s \in Nat : s = share
      BY Zenon, <1>6
    <3>3. PICK e \in MigRec : e = NoMig /\ e.victims = <<>>
      BY Zenon, NoMigFacts
    <3> DEFINE q == [e EXCEPT !.ph = "take", !.one_share = s, !.to_send = j]
    <3>4. q \in MigRec /\ q.ph = "take" /\ q.victims = e.victims /\ q.to_send = j
      BY Zenon, <3>1, <3>2, <3>3 DEF MigRec
    <3>5. r = q
      BY Zenon, <3>1, <3>2, <3>3
    <3> QED
      BY Zenon, <3>1, <3>3, <3>4, <3>5
  <2> HIDE DEF r
  <2>4. mig'[c] = r /\ (\A d \in Cpu \ {c} : mig'[d] = mig[d]) /\ MigTypeOK'
    BY Zenon, <1>1, <2>1, <2>3, MigKeeps
  <2>5. SchedRest'
    BY Zenon, <1>1, <1>3, <2>1, <2>4 DEF SchedRest
  <2>6. CpuInv(c)'
    BY Zenon, <1>2, <1>3, <2>1, <2>2, <2>3, <2>4 DEF CpuInv
  <2> QED
    BY Zenon, <1>2, <1>3, <2>1, <2>3, <2>4, <2>5, <2>6, LocalStep
<1> QED
  BY Zenon, <1>8, <1>9, <1>10

(* One turn of the loop that looks for a CPU to send to. *)
LEMMA MigScanStep ==
  ASSUME SchedInv, NEW c \in Cpu, MigScan(c), UNCHANGED child
  PROVE  SchedInv'
<1> DEFINE m == mig[c]
<1>1. CpuInv(c) /\ SchedRest /\ MigTypeOK /\ PlaceInv
  BY Zenon DEF SchedInv, SchedRest
<1>2. /\ m \in MigRec /\ m.ph = "scan" /\ act[c] = "migrate" /\ hand[c] = <<>>
      /\ m.to_send <= Len(m.victims)
  BY Zenon, <1>1 DEF MigScan, CpuInv, MigTypeOK, MigRec
<1>3. UNCHANGED <<t_state, t_cpu, c_curthread, c_isidle, c_runqueue, c_zombies, hand, tgt, wc_threads, wc_lock,
                  ipi_line, act>>
  BY Zenon DEF MigScan, cpuVars, queueVars, chanVars
<1>4. m.i \in 0 .. NumCpus /\ NumCpus \in Nat \ {0} /\ c \in Nat /\ c < NumCpus
  BY <1>2, SchedAssumption DEF Cpu, MigRec
<1>5. ASSUME NEW r \in MigRec, Mig(c, r), r.ph \in {"back", "scan", "send"}, r.victims = m.victims, r.to_send = m.to_send,
             r.ph = "send" => r.i < NumCpus /\ r.i # c, c_runqueue_lock' \in [Cpu -> Cpu \cup {NONE}]
      PROVE  SchedInv'
  <2>1. mig'[c] = r /\ (\A d \in Cpu \ {c} : mig'[d] = mig[d]) /\ MigTypeOK'
    BY Zenon, <1>1, <1>5, MigKeeps
  <2>2. SchedRest'
    BY Zenon, <1>1, <1>3, <1>5, <2>1 DEF SchedRest
  <2>3. CpuInv(c)'
    BY Zenon, <1>1, <1>2, <1>3, <1>5, <2>1 DEF CpuInv
  <2> QED
    BY Zenon, <1>3, <1>5, <2>1, <2>2, <2>3, LocalStep
<1>6. CASE m.i = NumCpus \/ m.to_send = 0
  <2> DEFINE r == [m EXCEPT !.ph = "back"]
  <2>1. Mig(c, r) /\ c_runqueue_lock' \in [Cpu -> Cpu \cup {NONE}]
    BY Zenon, <1>1, <1>6 DEF MigScan, SchedRest
  <2>2. r \in MigRec /\ r.ph = "back" /\ r.victims = m.victims /\ r.to_send = m.to_send
    BY Zenon, <1>2 DEF MigRec
  <2> HIDE DEF r
  <2> QED
    BY Zenon, <1>5, <2>1, <2>2
<1>7. CASE ~(m.i = NumCpus \/ m.to_send = 0) /\ m.i = c
  <2> DEFINE r == [m EXCEPT !.i = m.i + 1]
  <2>1. Mig(c, r) /\ c_runqueue_lock' \in [Cpu -> Cpu \cup {NONE}]
    BY Zenon, <1>1, <1>7 DEF MigScan, SchedRest
  <2>2. r \in MigRec /\ r.ph = "scan" /\ r.victims = m.victims /\ r.to_send = m.to_send
    BY <1>2, <1>4, <1>7 DEF MigRec
  <2> HIDE DEF r
  <2> QED
    BY Zenon, <1>5, <2>1, <2>2
<1>8. CASE ~(m.i = NumCpus \/ m.to_send = 0) /\ m.i # c
  <2> DEFINE r == [m EXCEPT !.ph = "send"]
  <2>1. Mig(c, r) /\ c_runqueue_lock' = [c_runqueue_lock EXCEPT ![m.i] = c]
    BY Zenon, <1>8 DEF MigScan
  <2>2. c_runqueue_lock' \in [Cpu -> Cpu \cup {NONE}]
    BY Zenon, <1>1, <2>1 DEF SchedRest
  <2>3. r \in MigRec /\ r.ph = "send" /\ r.victims = m.victims /\ r.to_send = m.to_send /\ r.i = m.i
    BY Zenon, <1>2 DEF MigRec
  <2>4. m.i < NumCpus
    BY <1>4, <1>8
  <2> HIDE DEF r
  <2> QED
    BY Zenon, <1>5, <1>8, <2>1, <2>2, <2>3, <2>4
<1> QED
  BY Zenon, <1>6, <1>7, <1>8

(* The end of thread_switch: what the CPU does next. *)
LEMMA DispatchStep ==
  ASSUME SchedInv, PlaceInv', NEW c \in Cpu, act[c] \notin {"wake", "migrate"},
         NEW rq, NEW st, NEW zs, Dispatch(c, rq, st, zs),
         UNCHANGED <<t_cpu, c_runqueue_lock, wc_lock, ipi_line, hand, tgt, mig>>
  PROVE  SchedInv'
<1>1. /\ hand[c] = <<>> /\ mig[c].ph = "none" /\ mig[c].victims = <<>>
      /\ SchedRest /\ MigTypeOK /\ PlaceInv
  BY Zenon, NotBusy
<1>2. "wait" \in Acts /\ "thread" \in Acts
  BY Zenon DEF Acts
<1>3. c_runqueue \in [Cpu -> Seq(Thread)] /\ c_runqueue' \in [Cpu -> Seq(Thread)]
  BY Zenon, <1>1, PlaceTypes DEF PlaceInv, Lists, Listed
<1>4. PICK a \in {"wait", "thread"} :
        /\ DoAct(c, a) /\ c_isidle' = [c_isidle EXCEPT ![c] = (a = "wait")]
        /\ \E q : c_runqueue' = [c_runqueue EXCEPT ![c] = q] /\ (a = "wait" => q = <<>>)
  <2>1. CASE threadlist_isempty(rq)
    BY Zenon, <2>1 DEF Dispatch, threadlist_isempty
  <2>2. CASE ~threadlist_isempty(rq)
    BY Zenon, <2>2 DEF Dispatch
  <2> QED
    BY Zenon, <2>1, <2>2
<1>5. PICK q : c_runqueue' = [c_runqueue EXCEPT ![c] = q] /\ (a = "wait" => q = <<>>)
  BY Zenon, <1>4
<1>6. act' \in [Cpu -> Acts] /\ act'[c] = a /\ \A d \in Cpu \ {c} : act'[d] = act[d]
  BY Zenon, <1>1, <1>2, <1>4, DoActKeeps
<1>7. /\ c_isidle' \in [Cpu -> BOOLEAN] /\ (c_isidle'[c] <=> a = "wait")
      /\ \A d \in Cpu \ {c} : c_isidle'[d] = c_isidle[d]
  BY Zenon, <1>1, <1>4 DEF SchedRest
<1>8. c_runqueue'[c] = q /\ \A d \in Cpu \ {c} : c_runqueue'[d] = c_runqueue[d]
  BY Zenon, <1>3, <1>5
<1>9. SchedRest'
  BY Zenon, <1>1, <1>6, <1>7 DEF SchedRest, MigTypeOK
<1>10. CpuInv(c)'
  BY Zenon, <1>1, <1>5, <1>6, <1>7, <1>8 DEF CpuInv
<1>11. ASSUME NEW d \in Cpu \ {c} PROVE CpuInv(d)'
  <2>1. QueueKept(d)
    BY Zenon, <1>8 DEF QueueKept
  <2> QED
    BY Zenon, <1>3, <1>6, <1>7, <2>1, CpuFrame
<1> QED
  BY Zenon, <1>9, <1>10, <1>11 DEF SchedInv

LEMMA MigStays ==
  ASSUME mig' = mig
  PROVE  Victims' = Victims
BY Zenon DEF Victims

LEMMA SwitchCpu ==
  ASSUME SchedInv, NEW c \in Cpu, act[c] \notin {"wake", "migrate"}, ~c_isidle[c],
         NEW s, NEW wc, s \in {"S_READY", "S_ZOMBIE"} \/ (s = "S_SLEEP" /\ wc \in Wchan),
         thread_switch(c, s, wc), child' = child, mig' = mig, PlaceInv'
  PROVE  SchedInv'
<1>1. PlaceInv /\ c_isidle \in [Cpu -> BOOLEAN]
  BY Zenon DEF SchedInv, SchedRest
<1>3. \E rq, st, zs : Dispatch(c, rq, st, zs)
  BY Zenon DEF thread_switch
<1>4. UNCHANGED <<t_cpu, c_runqueue_lock, wc_lock, ipi_line, hand, tgt, mig>>
  BY Zenon DEF thread_switch
<1> QED
  BY Zenon, <1>3, <1>4, DispatchStep

LEMMA IdleLookCpu ==
  ASSUME SchedInv, NEW c \in Cpu, IdleLook(c), child' = child, mig' = mig, PlaceInv'
  PROVE  SchedInv'
<1>1. act[c] \notin {"wake", "migrate"} /\ act[c] = "window"
  BY Zenon DEF IdleLook
<1>2. PlaceInv /\ c_isidle \in [Cpu -> BOOLEAN] /\ c_isidle[c]
  BY Zenon, <1>1 DEF SchedInv, SchedRest, CpuInv
<1>4. /\ UNCHANGED <<t_cpu, c_runqueue_lock, wc_lock, ipi_line, hand, tgt, mig>>
      /\ Dispatch(c, c_runqueue[c], t_state, c_zombies[c])
  BY Zenon DEF IdleLook, chanVars
<1> QED
  BY Zenon, <1>1, <1>4, DispatchStep

LEMMA HandSleepsNext ==
  ASSUME PlaceInv', NEW d \in Cpu, hand'[d] # <<>>
  PROVE  threadlist_head(hand'[d]) \in Thread /\ t_state'[threadlist_head(hand'[d])] = "S_SLEEP"
<1>1. PICK k, x : Listed(hand', Cpu, "hand", k, x) /\ States(t_state', t_cpu', c_curthread', Idle', child', k, x)
  BY Zenon DEF PlaceInv, Lists
<1>2. hand'[d] \in Seq(Thread)
  BY Zenon, <1>1 DEF Listed
<1>3. threadlist_head(hand'[d]) \in Thread /\ threadlist_head(hand'[d]) \in Members(hand'[d])
  BY Zenon, <1>2, RemHead
<1>4. k[threadlist_head(hand'[d])] = "hand"
  BY Zenon, <1>1, <1>3 DEF Listed
<1> QED
  BY Zenon, <1>1, <1>3, <1>4 DEF States

(* The threads that sleep, before or after, are where they were. *)
SleepersStay == \A t \in Thread : t_state[t] = "S_SLEEP" \/ t_state'[t] = "S_SLEEP" => t_cpu'[t] = t_cpu[t]

(* wchan_wakeone and wchan_wakeall: the t_cpu read for the first thread is its
   t_cpu afterwards too. *)
LEMMA TakeStep ==
  ASSUME SchedInv, PlaceInv', NEW c \in Cpu, NEW wc \in Wchan, act[c] \notin {"wake", "migrate"},
         NEW list, NEW left, Take(c, wc, list, left), SleepersStay,
         UNCHANGED <<c_isidle, c_runqueue, c_runqueue_lock, ipi_line, mig>>
  PROVE  SchedInv'
<1>1. /\ hand[c] = <<>> /\ mig[c].ph = "none" /\ mig[c].victims = <<>>
      /\ SchedRest /\ MigTypeOK /\ PlaceInv
  BY Zenon, NotBusy
<1>2. "window" \in Acts /\ "thread" \in Acts /\ "wake" \in Acts
  BY Zenon DEF Acts
<1>3. /\ c_runqueue \in [Cpu -> Seq(Thread)] /\ hand \in [Cpu -> Seq(Thread)] /\ t_cpu \in [Thread -> Cpu]
  BY Zenon, <1>1, PlaceTypes
<1>4. hand'[c] = list /\ \A d \in Cpu \ {c} : hand'[d] = hand[d]
  BY Zenon, <1>3 DEF Take
<1>5. ASSUME NEW d \in Cpu \ {c}, act'[d] = act[d], tgt'[d] = tgt[d] PROVE CpuInv(d)'
  <2>1. QueueKept(d)
    BY Zenon DEF QueueKept
  <2>2. hand[d] # <<>> => t_cpu'[threadlist_head(hand[d])] = t_cpu[threadlist_head(hand[d])]
    BY Zenon, <1>1, HandSleeps DEF SleepersStay
  <2>3. c_runqueue'[d] \in Seq(Thread) /\ c_isidle'[d] = c_isidle[d] /\ mig'[d] = mig[d] /\ hand'[d] = hand[d]
    BY Zenon, <1>3, <1>4
  <2> QED
    BY Zenon, <1>5, <2>1, <2>2, <2>3, CpuFrame
<1>6. CASE threadlist_isempty(list)
  <2> DEFINE a == Resume(c)
  <2>1. DoAct(c, a) /\ UNCHANGED <<wc_lock, tgt>> /\ list = <<>>
    BY Zenon, <1>6 DEF Take, threadlist_isempty
  <2>2. a \in Acts /\ a \in {"window", "thread"} /\ (a = "window" <=> c_isidle[c])
    BY Zenon, <1>2 DEF Resume
  <2> HIDE DEF a
  <2>3. act' \in [Cpu -> Acts] /\ act'[c] = a /\ \A d \in Cpu \ {c} : act'[d] = act[d]
    BY Zenon, <1>1, <2>1, <2>2, DoActKeeps
  <2>4. SchedRest'
    BY Zenon, <1>1, <2>1, <2>3 DEF SchedRest, MigTypeOK
  <2>5. CpuInv(c)'
    BY Zenon, <1>1, <1>4, <2>1, <2>2, <2>3 DEF CpuInv
  <2>6. \A d \in Cpu \ {c} : CpuInv(d)'
    BY Zenon, <1>5, <2>1, <2>3
  <2> QED
    BY Zenon, <2>4, <2>5, <2>6 DEF SchedInv
<1>7. CASE ~threadlist_isempty(list)
  <2> DEFINE t == threadlist_head(list)
  <2>1. /\ DoAct(c, "wake") /\ wc_lock' = [wc_lock EXCEPT ![wc] = c]
        /\ tgt' = [tgt EXCEPT ![c] = t_cpu[t]] /\ list # <<>>
    BY Zenon, <1>7 DEF Take, threadlist_isempty
  <2>2. t \in Thread /\ t_cpu'[t] = t_cpu[t] /\ t_cpu[t] \in Cpu
    BY Zenon, <1>3, <1>4, <2>1, HandSleepsNext DEF SleepersStay
  <2>3. act' \in [Cpu -> Acts] /\ act'[c] = "wake" /\ \A d \in Cpu \ {c} : act'[d] = act[d]
    BY Zenon, <1>1, <1>2, <2>1, DoActKeeps
  <2>4. /\ tgt' \in [Cpu -> Cpu \cup {NONE}] /\ wc_lock' \in [Wchan -> Cpu \cup {NONE}]
        /\ tgt'[c] = t_cpu'[t] /\ \A d \in Cpu \ {c} : tgt'[d] = tgt[d]
    <3> HIDE DEF t
    <3> QED
      BY Zenon, <1>1, <2>1, <2>2 DEF SchedRest
  <2>5. SchedRest'
    BY Zenon, <1>1, <2>3, <2>4 DEF SchedRest, MigTypeOK
  <2>6. CpuInv(c)'
    BY Zenon, <1>1, <1>4, <2>1, <2>3, <2>4 DEF CpuInv
  <2>7. \A d \in Cpu \ {c} : CpuInv(d)'
    BY Zenon, <1>5, <2>3, <2>4
  <2> QED
    BY Zenon, <2>5, <2>6, <2>7 DEF SchedInv
<1> QED
  BY Zenon, <1>6, <1>7

LEMMA WakeCpu ==
  ASSUME SchedInv, NEW c \in Cpu, NEW wc \in Wchan, act[c] \notin {"wake", "migrate"},
         wchan_wakeone(c, wc) \/ wchan_wakeall(c, wc),
         UNCHANGED <<t_state, t_cpu, cpuVars, queueVars, c_runqueue_lock, child, mig>>, PlaceInv'
  PROVE  SchedInv'
<1>1. PlaceInv /\ hand[c] = <<>>
  BY Zenon, NotBusy
<1>2. UNCHANGED <<t_state, t_cpu, c_curthread, c_isidle, c_runqueue, c_zombies, child, c_runqueue_lock, ipi_line>>
  BY Zenon DEF cpuVars, queueVars
<1>4. \E list, left : Take(c, wc, list, left)
  BY Zenon DEF wchan_wakeone, wchan_wakeall
<1>5. SleepersStay
  BY Zenon, <1>2 DEF SleepersStay
<1> QED
  BY Zenon, <1>2, <1>4, <1>5, TakeStep

LEMMA ForkCountCpu ==
  ASSUME SchedInv, NEW c \in Cpu, NEW u \in Thread, act[c] = "thread", child[c_curthread[c]] = NONE, ForkCount(c, u), PlaceInv'
  PROVE  SchedInv'
<1>1. PlaceInv /\ hand[c] = <<>> /\ act[c] \notin {"wake", "migrate"}
  BY Zenon, NotBusy
<1>2. UNCHANGED <<c_isidle, c_runqueue, c_runqueue_lock, ipi_line, mig>>
  BY Zenon DEF ForkCount, cpuVars, queueVars
<1>4. "thread_count_wchan" \in Wchan /\ \E list, left : Take(c, "thread_count_wchan", list, left)
  BY Zenon DEF ForkCount, wchan_wakeall, Wchan
<1>5. SleepersStay
  <2>1. t_state \in [Thread -> TStates] /\ t_cpu \in [Thread -> Cpu]
    BY Zenon, <1>1, PlaceTypes
  <2>2. /\ t_state' = [t_state EXCEPT ![u] = "S_READY"] /\ t_state[u] = "none"
        /\ \E d : t_cpu' = [t_cpu EXCEPT ![u] = d]
    BY Zenon DEF ForkCount
  <2> QED
    BY Zenon, <2>1, <2>2 DEF SleepersStay
<1> QED
  BY Zenon, <1>1, <1>2, <1>4, <1>5, TakeStep

(* thread_make_runnable and the other CPUs: the CPU it queues a thread on is
   told if it idles. *)
LEMMA RunnableKeeps ==
  ASSUME SchedInv, PlaceInv', NEW c \in Cpu, NEW t \in Thread, NEW cpu \in Cpu, thread_make_runnable(c, t, cpu),
         c_isidle' = c_isidle
  PROVE  /\ ipi_line' \in [Cpu -> BOOLEAN]
         /\ \A d \in Cpu \ {c} : QueueKept(d) /\ c_runqueue'[d] \in Seq(Thread)
<1>1. PlaceInv /\ ipi_line \in [Cpu -> BOOLEAN] /\ c_isidle \in [Cpu -> BOOLEAN]
  BY Zenon DEF SchedInv, SchedRest
<1>2. c_runqueue \in [Cpu -> Seq(Thread)] /\ c_runqueue' \in [Cpu -> Seq(Thread)]
  BY Zenon, <1>1, PlaceTypes DEF PlaceInv, Lists, Listed
<1>3. /\ ipi_line' = [ipi_line EXCEPT ![cpu] = ipi_line[cpu] \/ (c_isidle[cpu] /\ cpu # c)]
      /\ c_runqueue' = [c_runqueue EXCEPT ![cpu] = threadlist_addtail(c_runqueue[cpu], t)]
  BY Zenon DEF thread_make_runnable
<1>4. ipi_line' \in [Cpu -> BOOLEAN]
  BY Zenon, <1>1, <1>3
<1>5. ASSUME NEW d \in Cpu \ {c}, d # cpu PROVE QueueKept(d)
  BY Zenon, <1>1, <1>2, <1>3, <1>5 DEF QueueKept
<1>6. cpu # c => QueueKept(cpu)
  <2>1. Len(threadlist_addtail(c_runqueue[cpu], t)) >= Len(c_runqueue[cpu])
    BY <1>2, ListShape DEF threadlist_addtail
  <2>2. cpu # c => (c_isidle[cpu] => ipi_line'[cpu])
    BY Zenon, <1>1, <1>3
  <2>3. c_runqueue'[cpu] = threadlist_addtail(c_runqueue[cpu], t)
    BY Zenon, <1>2, <1>3
  <2> QED
    BY Zenon, <2>1, <2>2, <2>3 DEF QueueKept
<1> QED
  BY Zenon, <1>2, <1>4, <1>5, <1>6

LEMMA WakeTargetCpu ==
  ASSUME SchedInv, NEW c \in Cpu, WakeTarget(c), child' = child, mig' = mig, PlaceInv'
  PROVE  SchedInv'
<1> DEFINE t == threadlist_head(hand[c])
           rest == threadlist_remhead(hand[c])
           d == t_cpu[t]
<1>1. act[c] = "wake" /\ CpuInv(c) /\ SchedRest /\ PlaceInv
  BY Zenon DEF WakeTarget, SchedInv
<1>2. hand[c] # <<>> /\ tgt[c] = d /\ mig[c].ph = "none" /\ mig[c].victims = <<>>
  BY Zenon, <1>1 DEF CpuInv
<1>4. /\ hand \in [Cpu -> Seq(Thread)] /\ t_cpu \in [Thread -> Cpu] /\ t \in Thread /\ d \in Cpu
  BY Zenon, <1>1, <1>2, PlaceTypes, HandSleeps
<1>5. /\ thread_make_runnable(c, t, d) /\ hand' = [hand EXCEPT ![c] = rest]
      /\ UNCHANGED <<t_cpu, c_isidle, c_runqueue_lock, wc_threads>>
  BY Zenon, <1>2 DEF WakeTarget, cpuVars
<1>6. ipi_line' \in [Cpu -> BOOLEAN] /\ \A e \in Cpu \ {c} : QueueKept(e) /\ c_runqueue'[e] \in Seq(Thread)
  BY Zenon, <1>4, <1>5, RunnableKeeps
<1>7. hand'[c] = rest /\ \A e \in Cpu \ {c} : hand'[e] = hand[e]
  BY Zenon, <1>4, <1>5
<1>8. ASSUME NEW e \in Cpu \ {c}, act'[e] = act[e], tgt'[e] = tgt[e] PROVE CpuInv(e)'
  <2>1. c_isidle'[e] = c_isidle[e] /\ mig'[e] = mig[e] /\ hand'[e] = hand[e]
        /\ t_cpu' = t_cpu
    BY Zenon, <1>5, <1>7
  <2> QED
    BY Zenon, <1>6, <1>8, <2>1, CpuFrame
<1>9. CASE threadlist_isempty(rest)
  <2> DEFINE a == Resume(c)
  <2>1. /\ DoAct(c, a) /\ rest = <<>> /\ tgt' = [tgt EXCEPT ![c] = NONE]
        /\ wc_lock' = [w \in Wchan |-> IF wc_lock[w] = c THEN NONE ELSE wc_lock[w]]
    BY Zenon, <1>9 DEF WakeTarget, threadlist_isempty
  <2>2. a \in Acts /\ a \in {"window", "thread"} /\ (a = "window" <=> c_isidle[c])
    BY Zenon DEF Resume, Acts
  <2> HIDE DEF a
  <2>3. act' \in [Cpu -> Acts] /\ act'[c] = a /\ \A e \in Cpu \ {c} : act'[e] = act[e]
    BY Zenon, <1>1, <2>1, <2>2, DoActKeeps
  <2>4. /\ tgt' \in [Cpu -> Cpu \cup {NONE}] /\ wc_lock' \in [Wchan -> Cpu \cup {NONE}]
        /\ \A e \in Cpu \ {c} : tgt'[e] = tgt[e]
    BY Zenon, <1>1, <2>1 DEF SchedRest
  <2>5. SchedRest'
    BY ZenonT(60), <1>1, <1>5, <1>6, <2>3, <2>4 DEF SchedRest, MigTypeOK
  <2>6. CpuInv(c)'
    BY ZenonT(60), <1>2, <1>5, <1>7, <2>1, <2>2, <2>3 DEF CpuInv
  <2>7. \A e \in Cpu \ {c} : CpuInv(e)'
    BY Zenon, <1>8, <2>3, <2>4
  <2> QED
    BY Zenon, <2>5, <2>6, <2>7 DEF SchedInv
<1>10. CASE ~threadlist_isempty(rest)
  <2> DEFINE n == threadlist_head(rest)
  <2>1. /\ UNCHANGED <<wc_lock, act>> /\ rest # <<>> /\ tgt' = [tgt EXCEPT ![c] = t_cpu[n]]
    BY Zenon, <1>10 DEF WakeTarget, threadlist_isempty
  <2>2. n \in Thread /\ t_cpu[n] \in Cpu
    BY Zenon, <1>4, <1>7, <2>1, HandSleepsNext
  <2>3. tgt' \in [Cpu -> Cpu \cup {NONE}] /\ tgt'[c] = t_cpu[n] /\ \A e \in Cpu \ {c} : tgt'[e] = tgt[e]
    <3> HIDE DEF n
    <3> QED
      BY Zenon, <1>1, <2>1, <2>2 DEF SchedRest
  <2>4. SchedRest'
    BY Zenon, <1>1, <1>5, <1>6, <2>1, <2>3 DEF SchedRest, MigTypeOK
  <2>5. CpuInv(c)'
    BY Zenon, <1>1, <1>2, <1>5, <1>7, <2>1, <2>3 DEF CpuInv
  <2>6. \A e \in Cpu \ {c} : CpuInv(e)'
    BY Zenon, <1>8, <2>1, <2>3
  <2> QED
    BY Zenon, <2>4, <2>5, <2>6 DEF SchedInv
<1> QED
  BY Zenon, <1>9, <1>10

LEMMA ForkRunCpu ==
  ASSUME SchedInv, NEW c \in Cpu, child[c_curthread[c]] # NONE, ForkRun(c), PlaceInv'
  PROVE  SchedInv'
<1> DEFINE u == child[c_curthread[c]]
<1>1. /\ act[c] = "thread" /\ thread_make_runnable(c, u, t_cpu[u])
      /\ UNCHANGED <<t_cpu, c_isidle, c_runqueue_lock, wc_lock, hand, tgt, act, mig>>
  BY Zenon DEF ForkRun, At, cpuVars, chanVars
<1>2. CpuInv(c) /\ SchedRest /\ PlaceInv /\ mig[c].ph = "none" /\ mig[c].victims = <<>> /\ hand[c] = <<>>
  BY Zenon, <1>1, NotBusy
<1>4. u \in Thread /\ t_cpu[u] \in Cpu
  BY Zenon, <1>2, PlaceTypes
<1> HIDE DEF u
<1>5. ipi_line' \in [Cpu -> BOOLEAN] /\ \A e \in Cpu \ {c} : QueueKept(e) /\ c_runqueue'[e] \in Seq(Thread)
  BY Zenon, <1>1, <1>4, RunnableKeeps
<1>6. SchedRest'
  BY Zenon, <1>1, <1>2, <1>5 DEF SchedRest, MigTypeOK
<1>7. CpuInv(c)'
  BY ZenonT(60), <1>1, <1>2 DEF CpuInv
<1>8. ASSUME NEW e \in Cpu \ {c} PROVE CpuInv(e)'
  BY Zenon, <1>1, <1>5, CpuFrame
<1> QED
  BY Zenon, <1>6, <1>7, <1>8 DEF SchedInv

(* The first victim is ready and of this CPU; unless it is its current thread
   it is current nowhere. *)
LEMMA VictimReady ==
  ASSUME PlaceInv, MigTypeOK, NEW c \in Cpu, mig[c].victims # <<>>
  PROVE  LET t == threadlist_head(mig[c].victims) IN
         /\ t \in Thread /\ t_state[t] = "S_READY"
         /\ c_curthread[c] # t => \A d \in Cpu : c_curthread[d] # t
<1> DEFINE t == threadlist_head(mig[c].victims)
<1>1. PICK k, x : Listed(Victims, Cpu, "victims", k, x) /\ States(t_state, t_cpu, c_curthread, Idle, child, k, x)
  BY Zenon DEF PlaceInv, Lists
<1>2. Victims[c] = mig[c].victims /\ Victims[c] \in Seq(Thread)
  BY Zenon DEF Victims, MigTypeOK
<1>3. t \in Thread /\ t \in Members(Victims[c])
  BY Zenon, <1>2, RemHead
<1>4. k[t] = "victims" /\ x[t] = c
  BY Zenon, <1>1, <1>3 DEF Listed
<1> HIDE DEF t
<1>5. t_state[t] = "S_READY" /\ t_cpu[t] = c
  BY Zenon, <1>1, <1>3, <1>4 DEF States
<1>6. \A d \in Cpu : t_cpu[c_curthread[d]] = d
  BY Zenon, <1>1 DEF States
<1>7. c_curthread[c] # t => \A d \in Cpu : c_curthread[d] # t
  BY Zenon, <1>5, <1>6
<1> QED
  BY Zenon, <1>3, <1>5, <1>7 DEF t

LEMMA MigTakeCpu ==
  ASSUME SchedInv, NEW c \in Cpu, MigTake(c), UNCHANGED child, PlaceInv'
  PROVE  SchedInv'
<1> DEFINE m == mig[c]
           q == c_runqueue[c]
           n == Len(q) - m.to_send
           v == SubSeq(q, n + 1, Len(q))
           r == [m EXCEPT !.ph = "scan", !.victims = v]
<1>1. CpuInv(c) /\ SchedRest /\ MigTypeOK /\ PlaceInv
  BY Zenon DEF SchedInv, SchedRest
<1>2. /\ m \in MigRec /\ m.ph = "take" /\ m.victims = <<>> /\ act[c] = "migrate" /\ hand[c] = <<>>
      /\ m.to_send <= Len(q) /\ m.to_send \in Nat
  BY Zenon, <1>1 DEF MigTake, CpuInv, MigTypeOK, MigRec
<1>4. /\ UNCHANGED <<t_cpu, c_isidle, hand, tgt, wc_lock, c_runqueue_lock, ipi_line, act>>
      /\ Mig(c, r) /\ c_runqueue' = [c_runqueue EXCEPT ![c] = SubSeq(q, 1, n)]
  BY Zenon DEF MigTake, cpuVars, chanVars
<1>5. c_runqueue \in [Cpu -> Seq(Thread)] /\ q \in Seq(Thread) /\ Len(q) \in Nat
  BY Zenon, <1>1, PlaceTypes, ListShape
<1>6. n \in Nat /\ n <= Len(q) /\ Len(q) - n = m.to_send
  <2> HIDE DEF q, m
  <2> QED
    BY <1>2, <1>5
<1>7. v \in Seq(Thread) /\ Len(v) = m.to_send
  <2> HIDE DEF n
  <2> QED
    BY <1>5, <1>6, Split
<1>8. r \in MigRec /\ r.ph = "scan" /\ r.victims = v /\ r.to_send = m.to_send
  <2> HIDE DEF v, m
  <2> QED
    BY Zenon, <1>2, <1>7 DEF MigRec
<1> HIDE DEF r
<1>9. mig'[c] = r /\ (\A d \in Cpu \ {c} : mig'[d] = mig[d]) /\ MigTypeOK'
  BY Zenon, <1>1, <1>4, <1>8, MigKeeps
<1>10. SchedRest'
  BY Zenon, <1>1, <1>4, <1>9 DEF SchedRest
<1>11. r.to_send <= Len(r.victims)
  <2> HIDE DEF v, m
  <2> QED
    BY <1>2, <1>7, <1>8
<1>12. CpuInv(c)'
  <2> HIDE DEF v, m
  <2> QED
    BY Zenon, <1>2, <1>4, <1>8, <1>9, <1>11 DEF CpuInv
<1>13. ASSUME NEW d \in Cpu \ {c} PROVE CpuInv(d)'
  <2>1. c_runqueue'[d] = c_runqueue[d] /\ c_runqueue[d] \in Seq(Thread)
    BY Zenon, <1>4, <1>5
  <2>2. QueueKept(d)
    BY Zenon, <1>4, <2>1 DEF QueueKept
  <2> QED
    BY Zenon, <1>4, <1>9, <2>1, <2>2, CpuFrame
<1> QED
  BY Zenon, <1>10, <1>12, <1>13 DEF SchedInv

LEMMA MigBackCpu ==
  ASSUME SchedInv, NEW c \in Cpu, MigBack(c), UNCHANGED child, PlaceInv'
  PROVE  SchedInv'
<1>1. CpuInv(c) /\ SchedRest /\ MigTypeOK /\ PlaceInv
  BY Zenon DEF SchedInv, SchedRest
<1>2. act[c] = "migrate" /\ hand[c] = <<>>
  BY Zenon, <1>1 DEF MigBack, CpuInv
<1>4. /\ UNCHANGED <<t_cpu, c_isidle, hand, tgt, wc_lock, c_runqueue_lock, ipi_line>>
      /\ Mig(c, NoMig) /\ DoAct(c, "yield") /\ c_runqueue' = [c_runqueue EXCEPT ![c] = c_runqueue[c] \o mig[c].victims]
  BY Zenon DEF MigBack, cpuVars, chanVars
<1>5. c_runqueue \in [Cpu -> Seq(Thread)]
  BY Zenon, <1>1, PlaceTypes
<1>6. mig'[c] = NoMig /\ (\A d \in Cpu \ {c} : mig'[d] = mig[d]) /\ MigTypeOK'
  BY Zenon, <1>1, <1>4, NoMigFacts, MigKeeps
<1>7. act' \in [Cpu -> Acts] /\ act'[c] = "yield" /\ \A d \in Cpu \ {c} : act'[d] = act[d]
  BY Zenon, <1>1, <1>4, DoActKeeps DEF Acts
<1>8. SchedRest'
  BY Zenon, <1>1, <1>4, <1>6, <1>7 DEF SchedRest
<1>9. CpuInv(c)'
  BY Zenon, <1>2, <1>4, <1>6, <1>7, NoMigFacts DEF CpuInv
<1>10. ASSUME NEW d \in Cpu \ {c} PROVE CpuInv(d)'
  <2>1. c_runqueue'[d] = c_runqueue[d] /\ c_runqueue[d] \in Seq(Thread)
    BY Zenon, <1>4, <1>5
  <2>2. QueueKept(d)
    BY Zenon, <1>4, <2>1 DEF QueueKept
  <2> QED
    BY Zenon, <1>4, <1>6, <1>7, <2>1, <2>2, CpuFrame
<1> QED
  BY Zenon, <1>8, <1>9, <1>10 DEF SchedInv

LEMMA MigSendCpu ==
  ASSUME SchedInv, NEW c \in Cpu, MigSend(c), UNCHANGED child, PlaceInv'
  PROVE  SchedInv'
<1> DEFINE m == mig[c]
           v == m.victims
           t == threadlist_head(v)
           rest == threadlist_remhead(v)
           e == m.i
<1>1. CpuInv(c) /\ SchedRest /\ MigTypeOK /\ PlaceInv
  BY Zenon DEF SchedInv, SchedRest
<1>2. /\ m \in MigRec /\ m.ph = "send" /\ act[c] = "migrate" /\ hand[c] = <<>>
      /\ m.to_send <= Len(v) /\ m.i < NumCpus /\ m.i # c
  BY Zenon, <1>1 DEF MigSend, CpuInv, MigTypeOK, MigRec
<1>3. v \in Seq(Thread) /\ Len(v) \in Nat /\ m.to_send \in Nat /\ m.i \in Nat /\ e \in Cpu /\ NumCpus \in Nat
  BY <1>2, ListShape, SchedAssumption DEF MigRec, Cpu
<1>5. UNCHANGED <<t_state, c_curthread, c_isidle, hand, tgt, wc_lock, act>>
  BY Zenon DEF MigSend, cpuVars, chanVars
<1>6. /\ c_runqueue \in [Cpu -> Seq(Thread)] /\ t_cpu \in [Thread -> Cpu]
      /\ c_runqueue_lock \in [Cpu -> Cpu \cup {NONE}] /\ ipi_line \in [Cpu -> BOOLEAN] /\ c_isidle \in [Cpu -> BOOLEAN]
  BY Zenon, <1>1, PlaceTypes DEF SchedRest
<1>7. ASSUME NEW r \in MigRec, Mig(c, r), r.ph \in {"scan", "send"}, r.to_send <= Len(r.victims),
             r.ph = "send" => r.i < NumCpus /\ r.i # c,
             c_runqueue_lock' \in [Cpu -> Cpu \cup {NONE}], ipi_line' \in [Cpu -> BOOLEAN],
             \A d \in Cpu \ {c} : QueueKept(d) /\ c_runqueue'[d] \in Seq(Thread), SleepersStay
      PROVE  SchedInv'
  <2>1. mig'[c] = r /\ (\A d \in Cpu \ {c} : mig'[d] = mig[d]) /\ MigTypeOK'
    BY Zenon, <1>1, <1>7, MigKeeps
  <2>2. SchedRest'
    BY Zenon, <1>1, <1>5, <1>7, <2>1 DEF SchedRest
  <2>3. CpuInv(c)'
    BY ZenonT(60), <1>2, <1>5, <1>7, <2>1 DEF CpuInv
  <2>4. ASSUME NEW d \in Cpu \ {c} PROVE CpuInv(d)'
    <3>1. hand[d] # <<>> => t_cpu'[threadlist_head(hand[d])] = t_cpu[threadlist_head(hand[d])]
      BY Zenon, <1>1, <1>7, HandSleeps DEF SleepersStay
    <3> QED
      BY Zenon, <1>5, <1>7, <2>1, <3>1, CpuFrame
  <2> QED
    BY Zenon, <2>2, <2>3, <2>4 DEF SchedInv
<1>8. ASSUME c_runqueue' = c_runqueue, ipi_line' = ipi_line, t_cpu' = t_cpu
      PROVE  SleepersStay /\ \A d \in Cpu \ {c} : QueueKept(d) /\ c_runqueue'[d] \in Seq(Thread)
  BY Zenon, <1>6, <1>8 DEF SleepersStay, QueueKept
<1>9. CASE ~(Len(c_runqueue[m.i]) < m.one_share /\ m.to_send > 0)
  <2> DEFINE r == [m EXCEPT !.ph = "scan", !.i = m.i + 1]
  <2>1. /\ Mig(c, r) /\ UNCHANGED <<t_cpu, c_runqueue, ipi_line>>
        /\ c_runqueue_lock' = [c_runqueue_lock EXCEPT ![m.i] = NONE]
    BY Zenon, <1>9 DEF MigSend, queueVars
  <2>2. c_runqueue_lock' \in [Cpu -> Cpu \cup {NONE}] /\ ipi_line' \in [Cpu -> BOOLEAN]
    BY Zenon, <1>6, <2>1
  <2>3. PICK j \in 0 .. NumCpus : j = m.i + 1
    BY <1>2, <1>3
  <2>4. r \in MigRec /\ r.ph = "scan" /\ r.victims = v /\ r.to_send = m.to_send
    <3> DEFINE y == [m EXCEPT !.ph = "scan", !.i = j]
    <3>1. y \in MigRec /\ y.ph = "scan" /\ y.victims = v /\ y.to_send = m.to_send
      <4> HIDE DEF m
      <4> QED
        BY Zenon, <1>2 DEF MigRec
    <3>2. r = y
      BY Zenon, <2>3
    <3> QED
      BY Zenon, <3>1, <3>2
  <2>5. r.to_send <= Len(r.victims)
    BY Zenon, <1>2, <2>4
  <2> HIDE DEF r
  <2> QED
    BY Zenon, <1>7, <1>8, <2>1, <2>2, <2>4, <2>5
<1>10. CASE Len(c_runqueue[m.i]) < m.one_share /\ m.to_send > 0
  <2>1. v # <<>>
    BY SMTT(30), <1>2, <1>3, <1>10
  <2>2. /\ t \in Thread /\ rest \in Seq(Thread) /\ Len(rest) = Len(v) - 1
    BY Zenon, <1>3, <2>1, RemHead
  <2>3. t_state[t] = "S_READY"
    BY Zenon, <1>1, <2>1, VictimReady
  <2>4. c_runqueue_lock' \in [Cpu -> Cpu \cup {NONE}]
    BY Zenon, <1>6, <1>10 DEF MigSend
  <2>5. PICK j \in Nat : j = m.to_send - 1 /\ j <= Len(v) - 1 /\ j <= Len(v)
    BY SMTT(30), <1>2, <1>3, <1>10
  <2>6. CASE Skip(c, t)
    <3> DEFINE l == threadlist_addtail(rest, t)
               r == [m EXCEPT !.victims = l, !.to_send = m.to_send - 1]
               y == [m EXCEPT !.victims = l, !.to_send = j]
    <3>1. Mig(c, r) /\ t_cpu' = t_cpu /\ c_runqueue' = c_runqueue /\ ipi_line' = ipi_line
      BY Zenon, <1>10, <2>6 DEF MigSend, queueVars
    <3>2. r = y
      BY Zenon, <2>5
    <3>3. l \in Seq(Thread) /\ Len(l) = Len(rest) + 1
      BY Zenon, <2>2, AddTail
    <3>4. y \in MigRec /\ y.ph = "send" /\ y.victims = l /\ y.to_send = j /\ y.i = m.i
      <4> HIDE DEF m, l
      <4> QED
        BY Zenon, <1>2, <3>3 DEF MigRec
    <3>5. j <= Len(l)
      <4> HIDE DEF l, rest, v
      <4> QED
        BY SMTT(30), <1>3, <2>2, <2>5, <3>3
    <3> HIDE DEF y, r, l
    <3>6. y.to_send <= Len(y.victims) /\ Mig(c, y) /\ ipi_line' \in [Cpu -> BOOLEAN]
      BY Zenon, <1>6, <3>1, <3>2, <3>4, <3>5
    <3> QED
      BY Zenon, <1>2, <1>7, <1>8, <2>4, <3>1, <3>4, <3>6
  <2>7. CASE ~Skip(c, t)
    <3> DEFINE r == [m EXCEPT !.victims = rest, !.to_send = m.to_send - 1]
               y == [m EXCEPT !.victims = rest, !.to_send = j]
    <3>1. /\ Mig(c, r) /\ t_cpu' = [t_cpu EXCEPT ![t] = e]
          /\ c_runqueue' = [c_runqueue EXCEPT ![e] = threadlist_addtail(c_runqueue[e], t)]
          /\ ipi_line' = [ipi_line EXCEPT ![e] = ipi_line[e] \/ c_isidle[e]]
      BY Zenon, <1>10, <2>7 DEF MigSend
    <3>2. r = y
      BY Zenon, <2>5
    <3>3. y \in MigRec /\ y.ph = "send" /\ y.victims = rest /\ y.to_send = j /\ y.i = m.i
      <4> HIDE DEF m, rest
      <4> QED
        BY Zenon, <1>2, <2>2 DEF MigRec
    <3>4. SleepersStay
      <4> HIDE DEF t, e
      <4> QED
        BY Zenon, <1>5, <1>6, <2>2, <2>3, <3>1 DEF SleepersStay
    <3>5. ipi_line' \in [Cpu -> BOOLEAN] /\ (c_isidle[e] => ipi_line'[e]) /\ \A d \in Cpu \ {e} : ipi_line'[d] = ipi_line[d]
      <4> HIDE DEF e
      <4> QED
        BY Zenon, <1>3, <1>6, <3>1
    <3>6. threadlist_addtail(c_runqueue[e], t) \in Seq(Thread) /\ Len(threadlist_addtail(c_runqueue[e], t)) >= Len(c_runqueue[e])
      <4>1. c_runqueue[e] \in Seq(Thread) /\ Len(c_runqueue[e]) \in Nat
        BY <1>3, <1>6, ListShape
      <4> HIDE DEF t, e
      <4>2. threadlist_addtail(c_runqueue[e], t) \in Seq(Thread) /\ Len(threadlist_addtail(c_runqueue[e], t)) = Len(c_runqueue[e]) + 1
        BY Zenon, <2>2, <4>1, AddTail
      <4> QED
        BY <4>1, <4>2
    <3>7. \A d \in Cpu \ {c} : QueueKept(d) /\ c_runqueue'[d] \in Seq(Thread)
      <4> DEFINE l == threadlist_addtail(c_runqueue[e], t)
      <4> HIDE DEF t, e, l
      <4>1. c_runqueue'[e] = l /\ \A d \in Cpu \ {e} : c_runqueue'[d] = c_runqueue[d]
        BY Zenon, <1>3, <1>6, <3>1 DEF l
      <4>2. QueueKept(e) /\ c_runqueue'[e] \in Seq(Thread)
        BY Zenon, <3>5, <3>6, <4>1 DEF QueueKept, l
      <4>3. \A d \in Cpu \ {e} : QueueKept(d) /\ c_runqueue'[d] \in Seq(Thread)
        BY Zenon, <1>6, <3>5, <4>1 DEF QueueKept
      <4> QED
        BY Zenon, <4>2, <4>3
    <3>8. y.to_send <= Len(y.victims)
      <4> HIDE DEF rest, v, y
      <4> QED
        BY Zenon, <2>2, <2>5, <3>3
    <3> HIDE DEF y, r
    <3>9. Mig(c, y)
      BY Zenon, <3>1, <3>2
    <3> QED
      BY Zenon, <1>2, <1>7, <2>4, <3>3, <3>4, <3>5, <3>7, <3>8, <3>9
  <2> QED
    BY Zenon, <2>6, <2>7
<1> QED
  BY Zenon, <1>9, <1>10

(* A step of a thread's program that leaves the scheduler alone. *)
LEMMA QuietStep ==
  ASSUME SchedInv, UNCHANGED <<t_state, t_cpu, cpuVars, queueVars, c_runqueue_lock, chanVars, act, mig, child>>
  PROVE  SchedInv'
<1>1. UNCHANGED <<t_state, t_cpu, c_curthread, c_isidle, c_runqueue, c_zombies, hand, tgt, wc_threads, wc_lock,
                  c_runqueue_lock, ipi_line, act, mig, child>>
  BY Zenon DEF cpuVars, queueVars, chanVars
<1>2. PlaceInv'
  <2>1. Idle' = Idle /\ Victims' = Victims
    BY Zenon, <1>1 DEF Idle, Victims
  <2> QED
    BY Zenon, <1>1, <2>1 DEF SchedInv, PlaceInv
<1>3. SchedRest'
  BY Zenon, <1>1 DEF SchedInv, SchedRest, MigTypeOK
<1>4. \A c \in Cpu : CpuInv(c)'
  BY <1>1 DEF SchedInv, CpuInv
<1> QED
  BY Zenon, <1>2, <1>3, <1>4 DEF SchedInv
-----------------------------------------------------------------------------
LEMMA MenuThread == Menu \in Thread /\ 0 \in Cpu
BY SchedAssumption DEF Menu, Cpu

LEMMA BootFrame ==
  ASSUME NEW p, NEW n, NEW s, NEW p2, NEW n2, BootInv(p, n, s),
         \A t \in Thread : p2[t] = "hatch" <=> p[t] = "hatch",
         p2[Menu] = "boot" <=> p[Menu] = "boot", p[Menu] = "boot" => n2[Menu] = n[Menu]
  PROVE  BootInv(p2, n2, s)
<1>1. Hatching(p2) = Hatching(p)
  BY Zenon DEF Hatching
<1> QED
  BY Zenon, <1>1 DEF BootInv

(* Only thread_switch kills: the thread that exits, with the zombies exorcised. *)
LEMMA DispatchDead ==
  ASSUME NEW c \in Cpu, NEW rq, NEW st \in [Thread -> TStates], NEW zs, Dispatch(c, rq, st, zs), NEW t \in Thread,
         t_state'[t] \in Dead
  PROVE  st[t] \in Dead \/ t \in Members(zs)
<1>1. CASE threadlist_isempty(rq)
  BY Zenon, <1>1 DEF Dispatch
<1>2. CASE ~threadlist_isempty(rq)
  <2> DEFINE ex == exorcise(st, zs)
             next == threadlist_head(rq)
  <2>1. t_state' = [ex EXCEPT ![next] = "S_RUN"]
    BY Zenon, <1>2 DEF Dispatch
  <2>2. ex = [u \in Thread |-> IF u \in Members(zs) THEN "none" ELSE st[u]]
    BY Zenon DEF exorcise
  <2> HIDE DEF ex, next
  <2> QED
    BY Zenon, <2>1, <2>2 DEF Dead
<1> QED
  BY Zenon, <1>1, <1>2

LEMMA ZombiesDead ==
  ASSUME PlaceInv, NEW c \in Cpu, NEW t \in Members(c_zombies[c])
  PROVE  t_state[t] \in Dead
<1>1. PICK k, x : Listed(c_zombies, Cpu, "zombies", k, x) /\ States(t_state, t_cpu, c_curthread, Idle, child, k, x)
  BY Zenon DEF PlaceInv, Lists
<1>2. c_zombies[c] \in Seq(Thread)
  BY Zenon, <1>1 DEF Listed
<1>3. t \in Thread
  BY Zenon, <1>2, ListShape
<1>4. k[t] = "zombies"
  BY ZenonT(60), <1>1, <1>3 DEF Listed
<1> QED
  BY Zenon, <1>1, <1>3, <1>4 DEF States, Dead

LEMMA SwitchDead ==
  ASSUME PlaceInv, NEW c \in Cpu, NEW s \in {"S_READY", "S_SLEEP", "S_ZOMBIE"}, NEW wc, thread_switch(c, s, wc),
         NEW t \in Thread, t_state'[t] \in Dead
  PROVE  t_state[t] \in Dead \/ (s = "S_ZOMBIE" /\ t = c_curthread[c])
<1> DEFINE cur == c_curthread[c]
           st == [t_state EXCEPT ![cur] = s]
<1>1. /\ cur \in Thread /\ t_state \in [Thread -> TStates] /\ c_zombies[c] \in Seq(Thread)
  BY Zenon, PlaceTypes
<1>2. st \in [Thread -> TStates] /\ (st[t] \in Dead => t_state[t] \in Dead \/ (s = "S_ZOMBIE" /\ t = cur))
  <2> HIDE DEF cur
  <2> QED
    BY Zenon, <1>1 DEF TStates, Dead
<1>3. PICK rq, zs : /\ Dispatch(c, rq, st, zs)
                    /\ zs = c_zombies[c] \/ (s = "S_ZOMBIE" /\ zs = threadlist_addtail(c_zombies[c], cur))
  <2>1. CASE s = "S_READY"
    <3>1. Dispatch(c, threadlist_addtail(c_runqueue[c], cur), st, c_zombies[c])
      BY Zenon, <2>1 DEF thread_switch
    <3> QED
      BY Zenon, <3>1
  <2>2. CASE s = "S_SLEEP"
    <3>1. Dispatch(c, c_runqueue[c], st, c_zombies[c])
      BY Zenon, <2>2 DEF thread_switch
    <3> QED
      BY Zenon, <3>1
  <2>3. CASE s = "S_ZOMBIE"
    <3>1. Dispatch(c, c_runqueue[c], st, threadlist_addtail(c_zombies[c], cur))
      BY Zenon, <2>3 DEF thread_switch
    <3> QED
      BY Zenon, <2>3, <3>1
  <2> QED
    BY Zenon, <2>1, <2>2, <2>3
<1>4. Members(threadlist_addtail(c_zombies[c], cur)) = Members(c_zombies[c]) \cup {cur}
  <2> HIDE DEF cur
  <2> QED
    BY SMTT(30), <1>1, AddTail
<1> HIDE DEF st
<1>5. st[t] \in Dead \/ t \in Members(zs)
  BY Zenon, <1>2, <1>3, DispatchDead
<1>6. t \in Members(zs) => t \in Members(c_zombies[c]) \/ (s = "S_ZOMBIE" /\ t = cur)
  BY Zenon, <1>3, <1>4
<1> QED
  BY Zenon, <1>2, <1>5, <1>6, ZombiesDead

(* No thread dies in this step. *)
NoneDies == \A t \in Thread : t_state'[t] \in Dead => t_state[t] \in Dead

LEMMA ProgFrame ==
  ASSUME ProgInv, NoneDies, UNCHANGED <<pc, child, num, thread_count, sem_count>>
  PROVE  ProgInv'
<1>1. ProgTypes'
  BY Zenon DEF ProgInv, ProgTypes
<1>2. ThreadInv'
  BY Zenon DEF ProgInv, ThreadInv, NoneDies
<1>3. BootInv(pc', num', sem_count')
  BY Zenon DEF ProgInv
<1>4. BootInv(pc, num, sem_count)'
  BY Zenon, <1>3 DEF BootInv, Hatching
<1> QED
  BY Zenon, <1>1, <1>2, <1>4 DEF ProgInv

(* A thread goes on in its program, neither booting nor forking. *)
LEMMA ProgGoesOn ==
  ASSUME ProgInv, NEW t \in Thread, NEW l \in Pcs \ {"fork", "boot", "hatch"}, pc[t] \notin {"fork", "boot", "hatch"},
         pc' = [pc EXCEPT ![t] = l], child' = child, sem_count' = sem_count, thread_count' \in 0 .. CountMod - 1,
         num' = num \/ \E n \in Nat : num' = [num EXCEPT ![t] = n],
         \A u \in Thread : t_state'[u] \in Dead => IF u = t THEN l = "none" ELSE t_state[u] \in Dead
  PROVE  ProgInv'
<1>1. ProgTypes /\ ThreadInv /\ BootInv(pc, num, sem_count)
  BY Zenon DEF ProgInv
<1>2. /\ pc' \in [Thread -> Pcs] /\ pc'[t] = l /\ \A u \in Thread \ {t} : pc'[u] = pc[u]
      /\ num' \in [Thread -> Nat] /\ \A u \in Thread \ {t} : num'[u] = num[u]
  BY Zenon, <1>1 DEF ProgTypes
<1>3. ProgTypes'
  BY Zenon, <1>1, <1>2 DEF ProgTypes
<1>4. ThreadInv'
  BY Zenon, <1>1, <1>2 DEF ThreadInv
<1>5. BootInv(pc', num', sem_count)
  <2>1. \A u \in Thread : pc'[u] = "hatch" <=> pc[u] = "hatch"
    BY Zenon, <1>2
  <2>2. (pc'[Menu] = "boot" <=> pc[Menu] = "boot") /\ (pc[Menu] = "boot" => num'[Menu] = num[Menu])
    BY Zenon, <1>2, MenuThread
  <2> QED
    BY ZenonT(60), <1>1, <2>1, <2>2, BootFrame
<1>6. BootInv(pc, num, sem_count)'
  BY Zenon, <1>5 DEF BootInv, Hatching
<1> QED
  BY Zenon, <1>3, <1>4, <1>6 DEF ProgInv

(* The facts about the thread that runs on c. *)
LEMMA AtFacts ==
  ASSUME Inv, NEW c \in Cpu, NEW l, At(c, l)
  PROVE  /\ SchedInv /\ ProgInv /\ PlaceInv /\ act[c] = "thread" /\ act[c] \notin {"wake", "migrate"} /\ ~c_isidle[c]
         /\ c_curthread[c] \in Thread /\ pc[c_curthread[c]] = l /\ t_state[c_curthread[c]] = "S_RUN"
         /\ t_state[c_curthread[c]] \notin Dead
         /\ ProgTypes /\ ThreadInv /\ BootInv(pc, num, sem_count)
<1>1. SchedInv /\ ProgInv /\ PlaceInv /\ CpuInv(c) /\ ProgTypes /\ ThreadInv /\ BootInv(pc, num, sem_count)
  BY Zenon DEF Inv, SchedInv, ProgInv
<1>2. act[c] = "thread" /\ ~c_isidle[c] /\ pc[c_curthread[c]] = l
  BY Zenon, <1>1 DEF At, CpuInv
<1>3. c_curthread[c] \in Thread /\ t_state[c_curthread[c]] = "S_RUN"
  BY Zenon, <1>1, <1>2, PlaceTypes, RunningThread
<1> QED
  BY Zenon, <1>1, <1>2, <1>3 DEF Dead

LEMMA InvQueues ==
  ASSUME Inv
  PROVE  CurthreadInv /\ RunqueueCpu
<1>1. PICK k, x : /\ Listed(c_runqueue, Cpu, "runqueue", k, x)
                  /\ States(t_state, t_cpu, c_curthread, Idle, child, k, x)
  BY Zenon DEF Inv, SchedInv, PlaceInv, Lists
<1>2. CurthreadInv
  BY <1>1 DEF States, CurthreadInv
<1>3. ASSUME NEW c \in Cpu, NEW t \in Members(c_runqueue[c]) PROVE t_cpu[t] = c
  <2>1. t \in Thread
    BY Zenon, <1>1, ListShape DEF Listed
  <2>2. k[t] = "runqueue" /\ x[t] = c
    BY Zenon, <1>1, <2>1 DEF Listed
  <2> QED
    BY Zenon, <1>1, <2>1, <2>2 DEF States
<1> QED
  BY Zenon, <1>2, <1>3 DEF RunqueueCpu

(* Only MigSend changes the t_cpu of a thread there is. *)
LEMMA Moves ==
  ASSUME Inv, [Next]_vars, NEW t \in Thread, t_cpu'[t] # t_cpu[t], t_state[t] # "none"
  PROVE  t_state[t] = "S_READY" /\ \A c \in Cpu : c_curthread[c] # t
<1>1. PlaceInv /\ MigTypeOK /\ t_cpu \in [Thread -> Cpu]
  BY Zenon, PlaceTypes DEF Inv, SchedInv, SchedRest
<1>2. \E c \in Cpu : MigSend(c)
  <2>1. ~UNCHANGED vars
    BY Zenon DEF vars
  <2>2. ~DeviceInterrupt
    BY Zenon DEF DeviceInterrupt, timerclock
  <2>3. ASSUME NEW c \in Cpu, Program(c) PROVE FALSE
    <3>1. ASSUME NEW u \in Thread, ForkCount(c, u) PROVE FALSE
      <4>1. t_state[u] = "none" /\ \E d : t_cpu' = [t_cpu EXCEPT ![u] = d]
        BY Zenon, <3>1 DEF ForkCount
      <4> QED
        BY Zenon, <1>1, <4>1
    <3>2. ASSUME NEW u \in Thread, thread_fork(c, u) \/ common_prog(c, u) PROVE FALSE
      BY Zenon, <3>1, <3>2 DEF thread_fork, common_prog
    <3>3. ASSUME NEW s, NEW w, thread_switch(c, s, w) PROVE FALSE
      BY Zenon, <3>3 DEF thread_switch
    <3>4. ~BootP(c) /\ ~BootDone(c) /\ ~thread_wait_for_count(c)
      BY Zenon, <3>3 DEF BootP, P, BootDone, thread_wait_for_count
    <3>5. ~cpu_hatch(c) /\ ~MenuRead(c) /\ ~ForkRun(c)
      BY Zenon DEF cpu_hatch, V, MenuRead, ForkRun
    <3>6. ~thread_exit(c) /\ ~clocksleep(c)
      BY Zenon, <3>3 DEF thread_exit, Exit, ExitLook, ExitCount, ExitSwitch, clocksleep
    <3> QED
      BY Zenon, <2>3, <3>2, <3>4, <3>5, <3>6 DEF Program
  <2>4. ASSUME NEW c \in Cpu, Kernel(c), ~MigSend(c) PROVE FALSE
    <3>1. ~thread_yield(c) /\ ~IdleLook(c)
      BY Zenon DEF thread_yield, thread_switch, IdleLook
    <3>2. ~WakeTarget(c) /\ ~lamebus_clear_ipi(c) /\ ~TakeIpi(c) /\ ~hardclock(c)
      BY Zenon DEF WakeTarget, lamebus_clear_ipi, TakeIpi, hardclock
    <3>3. ~thread_consider_migration(c)
      BY Zenon, <2>4 DEF thread_consider_migration, MigCount, MigTake, MigScan, MigBack
    <3> QED
      BY Zenon, <2>4, <3>1, <3>2, <3>3 DEF Kernel, InKernel
  <2> QED
    BY Zenon, <2>1, <2>2, <2>3, <2>4 DEF Next
<1>3. PICK c \in Cpu : MigSend(c)
  BY Zenon, <1>2
<1> DEFINE m == mig[c]
           u == threadlist_head(m.victims)
<1>4. Len(c_runqueue[m.i]) < m.one_share /\ m.to_send > 0 /\ ~Skip(c, u) /\ t_cpu' = [t_cpu EXCEPT ![u] = m.i]
  BY Zenon, <1>3 DEF MigSend
<1>5. t = u
  <2> HIDE DEF m, u
  <2> QED
    BY Zenon, <1>1, <1>4
<1>6. m.victims # <<>>
  <2>1. m.ph = "send" /\ CpuInv(c)
    BY Zenon, <1>3 DEF MigSend, Inv, SchedInv
  <2>2. m.to_send <= Len(m.victims) /\ m.victims \in Seq(Thread) /\ m.to_send \in Nat
    BY Zenon, <1>1, <2>1 DEF CpuInv, MigTypeOK
  <2>3. Len(m.victims) \in Nat /\ (m.victims # <<>> <=> Len(m.victims) > 0)
    BY Zenon, <2>2, ListShape
  <2> HIDE DEF m
  <2> QED
    BY <1>4, <2>2, <2>3
<1>7. t_state[u] = "S_READY" /\ (c_curthread[c] # u => \A d \in Cpu : c_curthread[d] # u)
  BY Zenon, <1>1, <1>6, VictimReady
<1>8. c_curthread[c] # u
  BY Zenon, <1>4 DEF Skip
<1> QED
  BY Zenon, <1>5, <1>7, <1>8
=============================================================================
