----------------------------- MODULE SemFSProofs ----------------------------
(***************************************************************************)
(* semfs, for any number of processes, semaphores and names: references    *)
(* are counted exactly, the assertions hold, nothing leaks, names stay     *)
(* unique and no processes wait for each other.                            *)
(***************************************************************************)
EXTENDS SemFS, FiniteSetTheorems, WellFoundedInduction, TLAPS

\* One place of an array is written.
LEMMA PutAt ==
    ASSUME NEW S, NEW s \in Seq(S), NEW n \in DOMAIN s, NEW e \in S
    PROVE  LET t == [s EXCEPT ![n] = e]
           IN  /\ t \in Seq(S) /\ Len(t) = Len(s) /\ DOMAIN t = DOMAIN s /\ t[n] = e
               /\ \A m \in DOMAIN s \ {n} : t[m] = s[m]
<1> DEFINE t == [s EXCEPT ![n] = e]
<1>1. s \in [1 .. Len(s) -> S] /\ DOMAIN s = 1 .. Len(s) /\ Len(s) \in Nat
  OBVIOUS
<1>2. t \in [1 .. Len(s) -> S]
  BY Zenon, <1>1
<1>3. t \in Seq(S) /\ Len(t) = Len(s)
  BY <1>1, <1>2
<1> QED
  BY Zenon, <1>1, <1>2, <1>3

LEMMA SmallestOf ==
    ASSUME NEW H \in SUBSET Nat, H # {}
    PROVE  \E i \in H : \A j \in H : i <= j
<1> DEFINE R == OpToRel(<, Nat)
<1>1. IsWellFoundedOn(R, Nat)
  BY Zenon, NatLessThanWellFounded
<1>2. R = {ss \in Nat \X Nat : ss[1] < ss[2]}
  BY Zenon DEF OpToRel
<1> HIDE DEF R
<1>3. PICK i \in H : \A j \in H : ~(<<j, i>> \in R)
  BY Zenon, <1>1, WFMin
<1>4. ASSUME NEW j \in H PROVE i <= j
  <2>1. i \in Nat /\ j \in Nat
    BY Zenon
  <2>2. <<j, i>> \in Nat \X Nat /\ <<j, i>>[1] = j /\ <<j, i>>[2] = i
    BY Zenon, <2>1
  <2>3. ~(j < i)
    BY Zenon, <1>2, <1>3, <2>2
  <2> QED
    BY <2>1, <2>3
<1> QED
  BY Zenon, <1>4

\* The first hole is a place that holds nothing, or the next one.
LEMMA HoleFacts ==
    ASSUME NEW S, NEW s \in Seq(S)
    PROVE  \/ FirstHole(s) \in DOMAIN s /\ s[FirstHole(s)] = NONE
           \/ FirstHole(s) = Len(s) + 1 /\ FirstHole(s) \notin DOMAIN s
<1>1. DOMAIN s = 1 .. Len(s) /\ Len(s) \in Nat
  OBVIOUS
<1>2. CASE NONE \notin Range(s)
  BY <1>1, <1>2 DEF FirstHole
<1>3. CASE NONE \in Range(s)
  <2> DEFINE H == {i \in 1 .. Len(s) : s[i] = NONE}
  <2>1. H # {} /\ H \subseteq Nat
    BY <1>1, <1>3 DEF Range
  <2>2. PICK i \in H : \A j \in H : i <= j
    BY Zenon, <2>1, SmallestOf
  <2>3. i \in DOMAIN s /\ s[i] = NONE /\ \A j \in 1 .. i - 1 : s[j] # NONE
    BY <1>1, <2>2
  <2> QED
    BY Zenon, <1>3, <2>3 DEF FirstHole
<1> QED
  BY Zenon, <1>2, <1>3

LEMMA SetOrAddFacts ==
    ASSUME NEW S, NEW s \in Seq(S), NEW e \in S
    PROVE  /\ FirstHole(s) \in Nat
           /\ SetOrAdd(s, FirstHole(s), e) \in Seq(S)
           /\ DOMAIN SetOrAdd(s, FirstHole(s), e) = DOMAIN s \cup {FirstHole(s)}
           /\ SetOrAdd(s, FirstHole(s), e)[FirstHole(s)] = e
           /\ Len(SetOrAdd(s, FirstHole(s), e)) <= Len(s) + 1
<1>0. PICK i, t : i = FirstHole(s) /\ t = SetOrAdd(s, i, e)
  BY Zenon
<1> SUFFICES /\ i \in Nat /\ t \in Seq(S) /\ DOMAIN t = DOMAIN s \cup {i} /\ t[i] = e
             /\ Len(t) <= Len(s) + 1
  BY Zenon, <1>0
<1>1. i \in DOMAIN s \/ (i = Len(s) + 1 /\ i \notin DOMAIN s)
  BY Zenon, <1>0, HoleFacts
<1>2. DOMAIN s = 1 .. Len(s) /\ Len(s) \in Nat
  OBVIOUS
<1>3. CASE i \in DOMAIN s
  <2>1. i <= Len(s) /\ i # Len(s) + 1 /\ i \in Nat
    BY <1>2, <1>3
  <2>2. t = [s EXCEPT ![i] = e]
    BY Zenon, <1>0, <2>1 DEF SetOrAdd
  <2>3. t \in Seq(S) /\ Len(t) = Len(s) /\ DOMAIN t = DOMAIN s /\ t[i] = e /\ \A m \in DOMAIN s \ {i} : t[m] = s[m]
    BY <1>3, <2>2, PutAt
  <2> QED
    <3>1. Len(t) <= Len(s) + 1
      BY <1>2, <2>3
    <3> QED
      BY Zenon, <1>3, <2>1, <2>3, <3>1
<1>4. CASE i = Len(s) + 1
  <2>1. ~(i <= Len(s)) /\ i \in Nat
    BY <1>2, <1>4
  <2>2. t = Append(s, e)
    BY Zenon, <1>0, <2>1 DEF SetOrAdd
  <2>3. t \in Seq(S) /\ Len(t) = Len(s) + 1 /\ t[Len(s) + 1] = e /\ \A m \in 1 .. Len(s) : t[m] = s[m]
    BY <2>2
  <2>4. DOMAIN t = 1 .. Len(s) + 1
    BY <2>3
  <2>5. 1 .. Len(s) + 1 = 1 .. Len(s) \cup {Len(s) + 1}
    BY <1>2
  <2>6. Len(t) <= Len(s) + 1
    BY <1>2, <2>3
  <2> QED
    BY Zenon, <1>2, <1>4, <2>1, <2>3, <2>4, <2>5, <2>6
<1> QED
  BY Zenon, <1>1, <1>3, <1>4

LEMMA SetOrAddKeeps ==
    ASSUME NEW S, NEW s \in Seq(S), NEW e, NEW m \in DOMAIN s, m # FirstHole(s)
    PROVE  SetOrAdd(s, FirstHole(s), e)[m] = s[m]
<1>1. PICK i : i = FirstHole(s)
  BY Zenon
<1>2. m \in 1 .. Len(s) /\ Len(s) \in Nat
  OBVIOUS
<1>3. [s EXCEPT ![i] = e][m] = s[m] /\ Append(s, e)[m] = s[m]
  BY <1>1, <1>2
<1>4. SetOrAdd(s, i, e)[m] = s[m]
  BY Zenon, <1>3 DEF SetOrAdd
<1> QED
  BY Zenon, <1>1, <1>4
-----------------------------------------------------------------------------
\* A semaphore's fields.
LEMMA LiveType ==
    ASSUME TypeOK, NEW n, Live(n)
    PROVE  /\ n \in DOMAIN semfs_sems /\ n \in SemNum /\ semfs_sems[n] \in Sem
           /\ semfs_sems[n].sems_count \in Count /\ semfs_sems[n].sems_hasvnode \in BOOLEAN
           /\ semfs_sems[n].sems_linked \in BOOLEAN
           /\ semfs_sems[n] = [sems_count |-> semfs_sems[n].sems_count,
                               sems_hasvnode |-> semfs_sems[n].sems_hasvnode,
                               sems_linked |-> semfs_sems[n].sems_linked]
<1>1. n \in DOMAIN semfs_sems /\ semfs_sems[n] # NONE
  BY Zenon DEF Live
<1>2. semfs_sems \in Seq(Sem \cup {NONE}) /\ Len(semfs_sems) <= SEMFS_ROOTDIR
  BY Zenon DEF TypeOK
<1>3. n \in 1 .. Len(semfs_sems) /\ Len(semfs_sems) \in Nat /\ semfs_sems[n] \in Sem \cup {NONE}
  BY <1>1, <1>2
<1>4. n \in SemNum
  BY <1>2, <1>3, SemFSAssumption DEF SemNum
<1>5. semfs_sems[n] \in Sem
  BY Zenon, <1>1, <1>3
<1> QED
  BY Zenon, <1>1, <1>4, <1>5 DEF Sem

\* The semaphore in slot n changes, or the slot is cleared.
LEMMA SlotSet ==
    ASSUME TypeOK, NEW n, Live(n), NEW e \in Sem \cup {NONE}, semfs_sems' = [semfs_sems EXCEPT ![n] = e]
    PROVE  /\ semfs_sems' \in Seq(Sem \cup {NONE}) /\ Len(semfs_sems') <= SEMFS_ROOTDIR
           /\ semfs_sems'[n] = e /\ (Live(n)' <=> e # NONE)
           /\ \A m \in SemNum \ {n} : (Live(m)' <=> Live(m)) /\ (Live(m) => semfs_sems'[m] = semfs_sems[m])
<1>1. n \in DOMAIN semfs_sems
  BY Zenon DEF Live
<1>2. semfs_sems \in Seq(Sem \cup {NONE}) /\ Len(semfs_sems) <= SEMFS_ROOTDIR
  BY Zenon DEF TypeOK
<1>3. /\ semfs_sems' \in Seq(Sem \cup {NONE}) /\ Len(semfs_sems') = Len(semfs_sems)
      /\ DOMAIN semfs_sems' = DOMAIN semfs_sems /\ semfs_sems'[n] = e
      /\ \A m \in DOMAIN semfs_sems \ {n} : semfs_sems'[m] = semfs_sems[m]
  BY <1>1, <1>2, PutAt
<1> QED
  BY Zenon, <1>1, <1>2, <1>3 DEF Live

\* The forms in which a semaphore's flags are written.
Flags(n, h, k) == [semfs_sems EXCEPT ![n] = [sems_count |-> semfs_sems[n].sems_count,
                                              sems_hasvnode |-> h, sems_linked |-> k]]

LEMMA FlagForms ==
    ASSUME TypeOK, NEW n, Live(n), NEW x
    PROVE  /\ [semfs_sems EXCEPT ![n].sems_hasvnode = x] = Flags(n, x, semfs_sems[n].sems_linked)
           /\ [semfs_sems EXCEPT ![n].sems_linked = x] = Flags(n, semfs_sems[n].sems_hasvnode, x)
           /\ [semfs_sems EXCEPT ![n].sems_hasvnode = x, ![n].sems_linked = x] = Flags(n, x, x)
<1> DEFINE k == semfs_sems[n].sems_count  h == semfs_sems[n].sems_hasvnode  l == semfs_sems[n].sems_linked
           e == [sems_count |-> k, sems_hasvnode |-> x, sems_linked |-> l]
<1>1. semfs_sems[n] = [sems_count |-> k, sems_hasvnode |-> h, sems_linked |-> l]
  BY Zenon, LiveType
<1>2. /\ [semfs_sems[n] EXCEPT !.sems_hasvnode = x] = e
      /\ [semfs_sems[n] EXCEPT !.sems_linked = x] = [sems_count |-> k, sems_hasvnode |-> h, sems_linked |-> x]
  BY <1>1
<1>3. [semfs_sems EXCEPT ![n].sems_hasvnode = x] = [semfs_sems EXCEPT ![n] = e]
  BY Zenon, <1>2
<1>4. [semfs_sems EXCEPT ![n].sems_linked = x] = Flags(n, h, x)
  BY Zenon, <1>2 DEF Flags
<1>5. [[semfs_sems EXCEPT ![n] = e] EXCEPT ![n].sems_linked = x] = Flags(n, x, x)
  <2>1. n \in DOMAIN semfs_sems
    BY Zenon, LiveType
  <2>2. [semfs_sems EXCEPT ![n] = e][n] = e
    BY Zenon, <2>1
  <2>3. [e EXCEPT !.sems_linked = x] = [sems_count |-> k, sems_hasvnode |-> x, sems_linked |-> x]
    OBVIOUS
  <2> HIDE DEF e
  <2>4. [[semfs_sems EXCEPT ![n] = e] EXCEPT ![n].sems_linked = x] =
          [[semfs_sems EXCEPT ![n] = e] EXCEPT ![n] = [sems_count |-> k, sems_hasvnode |-> x, sems_linked |-> x]]
    BY Zenon, <2>2, <2>3
  <2>5. \A a, c : [[semfs_sems EXCEPT ![n] = a] EXCEPT ![n] = c] = [semfs_sems EXCEPT ![n] = c]
    BY Zenon
  <2> QED
    BY Zenon, <2>4, <2>5 DEF Flags
<1>6. [semfs_sems EXCEPT ![n].sems_hasvnode = x, ![n].sems_linked = x] = Flags(n, x, x)
  BY Zenon, <1>3, <1>5
<1> QED
  BY Zenon, <1>3, <1>4, <1>6 DEF Flags

LEMMA FlagsSet ==
    ASSUME TypeOK, NEW n, Live(n), NEW h \in BOOLEAN, NEW k \in BOOLEAN, semfs_sems' = Flags(n, h, k)
    PROVE  /\ semfs_sems' \in Seq(Sem \cup {NONE}) /\ Len(semfs_sems') <= SEMFS_ROOTDIR
           /\ Live(n)' /\ semfs_sems'[n].sems_hasvnode = h /\ semfs_sems'[n].sems_linked = k
           /\ \A m \in SemNum \ {n} : (Live(m)' <=> Live(m)) /\ (Live(m) => semfs_sems'[m] = semfs_sems[m])
<1> DEFINE c == semfs_sems[n].sems_count
           e == [sems_count |-> c, sems_hasvnode |-> h, sems_linked |-> k]
<1>1. semfs_sems' = [semfs_sems EXCEPT ![n] = e]
  BY Zenon DEF Flags
<1>2. c \in Count
  BY Zenon, LiveType
<1>3. e \in Sem /\ e.sems_hasvnode = h /\ e.sems_linked = k
  BY Zenon, <1>2 DEF Sem
<1>4. e # NONE
  BY Zenon, <1>3, SemFSAssumption
<1> HIDE DEF e
<1>5. /\ semfs_sems' \in Seq(Sem \cup {NONE}) /\ Len(semfs_sems') <= SEMFS_ROOTDIR
      /\ semfs_sems'[n] = e /\ (Live(n)' <=> e # NONE)
      /\ \A m \in SemNum \ {n} : (Live(m)' <=> Live(m)) /\ (Live(m) => semfs_sems'[m] = semfs_sems[m])
  BY Zenon, <1>1, <1>3, SlotSet
<1> QED
  BY Zenon, <1>3, <1>4, <1>5
-----------------------------------------------------------------------------
\* The other processes stay where they are.
Others(p) == \A q \in Proc \ {p} : pc'[q] = pc[q] /\ loc'[q] = loc[q] /\ open'[q] = open[q]

LEMMA Moved ==
    ASSUME TypeOK, NEW p \in Proc, NEW l \in Pcs, NEW r \in Locs, Goto(p, l), Locals(p, r)
    PROVE  /\ pc' \in [Proc -> Pcs] /\ loc' \in [Proc -> Locs] /\ pc'[p] = l /\ loc'[p] = r
           /\ \A q \in Proc \ {p} : pc'[q] = pc[q] /\ loc'[q] = loc[q]
  BY Zenon DEF TypeOK, Goto, Locals

LEMMA WorkingFrame ==
    ASSUME NEW p \in Proc, Others(p), NEW S, NEW n,
           pc'[p] \in S /\ loc'[p].semnum = n <=> pc[p] \in S /\ loc[p].semnum = n
    PROVE  Working(S, n)' <=> Working(S, n)
  BY Zenon DEF Working, Others

LEMMA SlotFrame ==
    ASSUME NEW n \in SemNum, SlotOK(n), Live(n)' <=> Live(n), InDirectory(n)' <=> InDirectory(n),
           vn_refcount'[n] = vn_refcount[n],
           Live(n) => /\ semfs_sems'[n].sems_hasvnode = semfs_sems[n].sems_hasvnode
                      /\ semfs_sems'[n].sems_linked = semfs_sems[n].sems_linked,
           Working(Unlinked, n)' <=> Working(Unlinked, n),
           Working({"creat_getvnode"}, n)' <=> Working({"creat_getvnode"}, n),
           Working({"linked"}, n)' <=> Working({"linked"}, n),
           Working({"drop"}, n)' => Working({"drop"}, n),
           Working({"leave"}, n)' => Working({"leave"}, n)
    PROVE  SlotOK(n)'
  BY Zenon DEF SlotOK

\* Places at which the state of a slot is being changed.
WorkPcs == {"creat_getvnode", "hasvnode", "drop", "leave", "linked"}

LEMMA StillWorking ==
    ASSUME NEW p \in Proc, Others(p), NEW n, 
           \/ pc[p] \notin WorkPcs /\ pc'[p] \notin WorkPcs
           \/ pc'[p] = pc[p] /\ loc'[p] = loc[p]
           \/ pc[p] \in WorkPcs /\ loc[p].semnum # n /\ pc'[p] \notin WorkPcs
           \/ pc'[p] \in WorkPcs /\ loc'[p].semnum # n /\ pc[p] \notin WorkPcs
           \/ pc[p] \in WorkPcs /\ loc[p].semnum # n /\ loc'[p].semnum # n
    PROVE  /\ Working(Unlinked, n)' <=> Working(Unlinked, n)
           /\ Working({"creat_getvnode"}, n)' <=> Working({"creat_getvnode"}, n)
           /\ Working({"linked"}, n)' <=> Working({"linked"}, n)
           /\ Working({"drop"}, n)' <=> Working({"drop"}, n)
           /\ Working({"leave"}, n)' <=> Working({"leave"}, n)
  BY Zenon, WorkingFrame DEF WorkPcs, Unlinked

\* A slot that the step does not concern.
LEMMA OtherSlot ==
    ASSUME SemFSInv, NEW p \in Proc, Others(p), NEW n \in SemNum,
           \/ pc[p] \notin WorkPcs /\ pc'[p] \notin WorkPcs
           \/ pc'[p] = pc[p] /\ loc'[p] = loc[p]
           \/ pc[p] \in WorkPcs /\ loc[p].semnum # n /\ pc'[p] \notin WorkPcs
           \/ pc'[p] \in WorkPcs /\ loc'[p].semnum # n /\ pc[p] \notin WorkPcs
           \/ pc[p] \in WorkPcs /\ loc[p].semnum # n /\ loc'[p].semnum # n,
           Live(n)' <=> Live(n), InDirectory(n)' <=> InDirectory(n), vn_refcount'[n] = vn_refcount[n],
           Live(n) => /\ semfs_sems'[n].sems_hasvnode = semfs_sems[n].sems_hasvnode
                      /\ semfs_sems'[n].sems_linked = semfs_sems[n].sems_linked
    PROVE  SlotOK(n)'
<1>1. /\ Working(Unlinked, n)' <=> Working(Unlinked, n)
      /\ Working({"creat_getvnode"}, n)' <=> Working({"creat_getvnode"}, n)
      /\ Working({"linked"}, n)' <=> Working({"linked"}, n)
      /\ Working({"drop"}, n)' <=> Working({"drop"}, n)
      /\ Working({"leave"}, n)' <=> Working({"leave"}, n)
  BY Zenon, StillWorking
<1>2. SlotOK(n)
  BY Zenon DEF SemFSInv
<1> QED
  BY Zenon, <1>1, <1>2, SlotFrame

\* The holder of semfs_dirlock is alone at the places where it is held, and so
\* is the holder of semfs_tablelock.
LEMMA DirAlone ==
    ASSUME SemFSInv, NEW p \in Proc, semfs_dirlock = p \/ semfs_dirlock = NONE, NEW q \in Proc \ {p}
    PROVE  pc[q] \notin DirPcs
  BY SemFSAssumption DEF SemFSInv, LocksOK

LEMMA TableFree ==
    ASSUME SemFSInv, semfs_tablelock = NONE
    PROVE  /\ \A q \in Proc : pc[q] # "linked"
           /\ \A n : ~Working({"linked"}, n)
  BY SemFSAssumption DEF SemFSInv, LocksOK, Working
-----------------------------------------------------------------------------
\* A process opens or closes a vnode: the count of its references.
LEMMA Users ==
    ASSUME NEW n
    PROVE  IsFiniteSet({q \in Proc : open[q] = n}) /\ Cardinality({q \in Proc : open[q] = n}) \in Nat
<1>1. IsFiniteSet({q \in Proc : open[q] = n})
  BY Zenon, SemFSAssumption, FS_Subset
<1> QED
  BY Zenon, <1>1, FS_CardinalityType

LEMMA Opened ==
    ASSUME TypeOK, RefcountExact, NEW p \in Proc, open[p] = NONE, NEW n \in SemNum,
           open' = [open EXCEPT ![p] = n], vn_refcount' = [vn_refcount EXCEPT ![n] = @ + 1]
    PROVE  /\ RefcountExact' /\ open' \in [Proc -> SemNum \cup {NONE}] /\ vn_refcount' \in [SemNum -> Nat]
           /\ open'[p] = n /\ vn_refcount'[n] > 0
           /\ \A q \in Proc \ {p} : open'[q] = open[q]
           /\ \A m \in SemNum \ {n} : vn_refcount'[m] = vn_refcount[m]
<1> DEFINE U(m) == {q \in Proc : open[q] = m}
           V(m) == {q \in Proc : open'[q] = m}
<1>1. /\ open' \in [Proc -> SemNum \cup {NONE}] /\ vn_refcount' \in [SemNum -> Nat]
      /\ open'[p] = n /\ vn_refcount'[n] = vn_refcount[n] + 1 /\ vn_refcount[n] \in Nat
      /\ \A q \in Proc \ {p} : open'[q] = open[q]
      /\ \A m \in SemNum \ {n} : vn_refcount'[m] = vn_refcount[m]
  <2>1. /\ open' \in [Proc -> SemNum \cup {NONE}] /\ open'[p] = n
        /\ \A q \in Proc \ {p} : open'[q] = open[q]
    BY Zenon DEF TypeOK
  <2>2. vn_refcount \in [SemNum -> Nat]
    BY Zenon DEF TypeOK
  <2>3. vn_refcount[n] \in Nat /\ vn_refcount[n] + 1 \in Nat
    BY <2>2
  <2> QED
    BY Zenon, <2>1, <2>2, <2>3
<1>2. p \notin U(n) /\ V(n) = U(n) \cup {p}
  BY <1>1, SemFSAssumption
<1>3. \A m \in SemNum \ {n} : V(m) = U(m)
  BY <1>1, SemFSAssumption
<1>4. IsFiniteSet(U(n))
  BY Zenon, Users
<1>5. Cardinality(V(n)) = Cardinality(U(n)) + 1
  <2> HIDE DEF U, V
  <2> QED
    BY Zenon, <1>2, <1>4, FS_AddElement
<1>6. \A m \in SemNum : vn_refcount'[m] = Cardinality(V(m))
  <2> SUFFICES ASSUME NEW m \in SemNum PROVE vn_refcount'[m] = Cardinality(V(m))
    BY Zenon
  <2>1. vn_refcount[m] = Cardinality(U(m))
    BY Zenon DEF RefcountExact
  <2> HIDE DEF U, V
  <2> QED
    BY <1>1, <1>3, <1>5, <2>1
<1>7. RefcountExact'
  BY Zenon, <1>6 DEF RefcountExact
<1> QED
  BY <1>1, <1>7

LEMMA Closed ==
    ASSUME TypeOK, RefcountExact, NEW p \in Proc, open[p] # NONE, NEW n, n = open[p],
           open' = [open EXCEPT ![p] = NONE], vn_refcount' = [vn_refcount EXCEPT ![n] = vn_refcount[n] - 1]
    PROVE  /\ RefcountExact' /\ open' \in [Proc -> SemNum \cup {NONE}] /\ vn_refcount' \in [SemNum -> Nat]
           /\ open'[p] = NONE /\ vn_refcount'[n] = vn_refcount[n] - 1
           /\ \A q \in Proc \ {p} : open'[q] = open[q]
           /\ \A m \in SemNum \ {n} : vn_refcount'[m] = vn_refcount[m]
<1> DEFINE U(m) == {q \in Proc : open[q] = m}
           V(m) == {q \in Proc : open'[q] = m}
<1>1. /\ n \in SemNum /\ open' \in [Proc -> SemNum \cup {NONE}] /\ vn_refcount[n] \in Nat
      /\ open'[p] = NONE /\ vn_refcount'[n] = vn_refcount[n] - 1
      /\ \A q \in Proc \ {p} : open'[q] = open[q]
      /\ \A m \in SemNum \ {n} : vn_refcount'[m] = vn_refcount[m]
  BY Zenon DEF TypeOK
<1>2. p \in U(n) /\ V(n) = U(n) \ {p}
  BY Zenon, <1>1, SemFSAssumption
<1>3. \A m \in SemNum \ {n} : V(m) = U(m)
  BY Zenon, <1>1, SemFSAssumption
<1>4. IsFiniteSet(U(n))
  BY Zenon, Users
<1>5. Cardinality(V(n)) = Cardinality(U(n)) - 1 /\ Cardinality(V(n)) \in Nat
  <2> HIDE DEF U, V
  <2> QED
    BY Zenon, <1>2, <1>4, FS_RemoveElement, FS_CardinalityType
<1>6. \A m \in SemNum : vn_refcount'[m] = Cardinality(V(m))
  <2> SUFFICES ASSUME NEW m \in SemNum PROVE vn_refcount'[m] = Cardinality(V(m))
    BY Zenon
  <2>1. vn_refcount[m] = Cardinality(U(m))
    BY Zenon DEF RefcountExact
  <2> HIDE DEF U, V
  <2> QED
    BY Zenon, <1>1, <1>3, <1>5, <2>1
<1>7. RefcountExact'
  BY Zenon, <1>6 DEF RefcountExact
<1>8. vn_refcount' \in [SemNum -> Nat]
  <2>1. vn_refcount[n] - 1 \in Nat
    BY Zenon, <1>1, <1>5, <1>6
  <2> QED
    BY Zenon, <1>1, <2>1 DEF TypeOK
<1> QED
  BY Zenon, <1>1, <1>7, <1>8

\* An open vnode has a reference.
LEMMA OpenCounted ==
    ASSUME SemFSInv, NEW p \in Proc, open[p] # NONE
    PROVE  open[p] \in SemNum /\ vn_refcount[open[p]] \in Nat /\ vn_refcount[open[p]] > 0
<1> DEFINE U == {q \in Proc : open[q] = open[p]}
<1>1. open[p] \in SemNum /\ vn_refcount[open[p]] \in Nat
  BY Zenon DEF SemFSInv, TypeOK
<1>2. vn_refcount[open[p]] = Cardinality(U)
  BY Zenon, <1>1 DEF SemFSInv, RefcountExact
<1>3. U # {} /\ IsFiniteSet(U)
  BY Zenon, Users
<1> HIDE DEF U
<1>4. Cardinality(U) # 0
  BY Zenon, <1>3, FS_EmptySet
<1> QED
  BY <1>1, <1>2, <1>4
-----------------------------------------------------------------------------
\* A step of p: what it must establish.
LEMMA ProcStep ==
    ASSUME SemFSInv, NEW p \in Proc, Others(p), TypeOK', RefcountExact', NamesUnique',
           LocksOK(p)', LocalsOK(p)', \A n \in SemNum : SlotOK(n)',
           \A q \in Proc \ {p} : /\ (semfs_dirlock' = q <=> semfs_dirlock = q)
                                 /\ (semfs_tablelock' = q <=> semfs_tablelock = q)
                                 /\ \A n \in SemNum : sems_lock'[n] = q <=> sems_lock[n] = q,
           UNCHANGED semfs_dents \/ semfs_dirlock = p
    PROVE  SemFSInv'
<1>1. ASSUME NEW q \in Proc \ {p} PROVE LocksOK(q)'
  <2>1. pc'[q] = pc[q] /\ loc'[q] = loc[q]
    BY Zenon DEF Others
  <2>2. LocksOK(q)
    BY Zenon DEF SemFSInv
  <2> QED
    BY Zenon, <2>1, <2>2 DEF LocksOK
<1>2. ASSUME NEW q \in Proc \ {p} PROVE LocalsOK(q)'
  <2>1. pc'[q] = pc[q] /\ loc'[q] = loc[q] /\ open'[q] = open[q]
    BY Zenon DEF Others
  <2>2. LocalsOK(q)
    BY Zenon DEF SemFSInv
  <2>3. LocalsAt(pc[q], loc[q], open[q])
    BY Zenon, <2>2 DEF LocalsOK
  <2>5. PICK at, l, o : at = pc[q] /\ l = loc[q] /\ o = open[q]
    BY Zenon
  <2>6. LocalsAt(at, l, o)
    BY Zenon, <2>3, <2>5
  <2>7. LocalsAt(at, l, o)'
    <3>1. CASE UNCHANGED semfs_dents
      BY Zenon, <2>6, <3>1 DEF LocalsAt, Found, Entry, InDirectory
    <3>2. CASE semfs_dirlock = p
      <4>1. at \notin DirPcs
        BY Zenon, <2>5, <3>2, DirAlone
      <4> QED
        BY Zenon, <2>6, <4>1 DEF LocalsAt, DirPcs, RemovePcs, NumPcs
    <3> QED
      BY Zenon, <3>1, <3>2
  <2>8. LocalsOK(q)'
    BY Zenon, <2>1, <2>5, <2>7 DEF LocalsOK
  <2> QED
    BY Zenon, <2>8
<1> QED
  BY Zenon, <1>1, <1>2 DEF SemFSInv

\* The locks of the other processes.
LocksKept(p) ==
    \A q \in Proc \ {p} : /\ (semfs_dirlock' = q <=> semfs_dirlock = q)
                          /\ (semfs_tablelock' = q <=> semfs_tablelock = q)
                          /\ \A n \in SemNum : sems_lock'[n] = q <=> sems_lock[n] = q

\* p takes or releases a lock that nobody else holds.
LEMMA LockMoves ==
    ASSUME TypeOK, NEW p \in Proc, NEW n \in SemNum,
           \/ UNCHANGED semfs_dirlock
           \/ semfs_dirlock \in {NONE, p} /\ semfs_dirlock' \in {NONE, p},
           \/ UNCHANGED semfs_tablelock
           \/ semfs_tablelock \in {NONE, p} /\ semfs_tablelock' \in {NONE, p},
           \/ UNCHANGED sems_lock
           \/ sems_lock[n] \in {NONE, p} /\ \E x \in {NONE, p} : sems_lock' = [sems_lock EXCEPT ![n] = x]
    PROVE  /\ LocksKept(p)
           /\ semfs_dirlock' \in Proc \cup {NONE} /\ semfs_tablelock' \in Proc \cup {NONE}
           /\ sems_lock' \in [SemNum -> Proc \cup {NONE}]
<1>1. /\ sems_lock \in [SemNum -> Proc \cup {NONE}]
      /\ semfs_dirlock \in Proc \cup {NONE} /\ semfs_tablelock \in Proc \cup {NONE} /\ NONE \notin Proc
  BY Zenon, SemFSAssumption DEF TypeOK
<1>2. /\ sems_lock' \in [SemNum -> Proc \cup {NONE}]
      /\ \A q \in Proc \ {p} : \A m \in SemNum : sems_lock'[m] = q <=> sems_lock[m] = q
  <2>1. CASE UNCHANGED sems_lock
    BY Zenon, <1>1, <2>1
  <2>2. ASSUME sems_lock[n] \in {NONE, p}, NEW x \in {NONE, p}, sems_lock' = [sems_lock EXCEPT ![n] = x]
        PROVE  /\ sems_lock' \in [SemNum -> Proc \cup {NONE}]
               /\ \A q \in Proc \ {p} : \A m \in SemNum : sems_lock'[m] = q <=> sems_lock[m] = q
    BY Zenon, <1>1, <2>2
  <2> QED
    BY Zenon, <2>1, <2>2
<1>3. semfs_dirlock' \in Proc \cup {NONE} /\ \A q \in Proc \ {p} : semfs_dirlock' = q <=> semfs_dirlock = q
  BY Zenon, <1>1
<1>4. semfs_tablelock' \in Proc \cup {NONE} /\ \A q \in Proc \ {p} : semfs_tablelock' = q <=> semfs_tablelock = q
  BY Zenon, <1>1
<1> QED
  BY Zenon, <1>2, <1>3, <1>4 DEF LocksKept

\* The semaphores stay what they are, except for their counts.
SemsKept ==
    /\ semfs_sems' \in Seq(Sem \cup {NONE}) /\ Len(semfs_sems') <= SEMFS_ROOTDIR
    /\ \A n \in SemNum :
         /\ Live(n)' <=> Live(n)
         /\ Live(n) => /\ semfs_sems'[n].sems_hasvnode = semfs_sems[n].sems_hasvnode
                       /\ semfs_sems'[n].sems_linked = semfs_sems[n].sems_linked

\* A step that changes neither the directory nor the references.
LEMMA KeepStep ==
    ASSUME SemFSInv, NEW p \in Proc, NEW l \in Pcs, NEW r \in Locs, Goto(p, l), Locals(p, r),
           pc[p] \notin WorkPcs, l \notin WorkPcs, UNCHANGED <<semfs_dents, vn_refcount, open, fault>>, SemsKept,
           LocksKept(p), semfs_dirlock' \in Proc \cup {NONE}, semfs_tablelock' \in Proc \cup {NONE},
           sems_lock' \in [SemNum -> Proc \cup {NONE}],
           semfs_dirlock' = p <=> l \in DirPcs, semfs_tablelock' # p,
           \A n \in SemNum : sems_lock'[n] = p <=> l \in SemlockPcs /\ r.semnum = n,
           LocalsAt(l, r, open[p])
    PROVE  SemFSInv'
<1>1. /\ pc' \in [Proc -> Pcs] /\ loc' \in [Proc -> Locs] /\ pc'[p] = l /\ loc'[p] = r
      /\ \A q \in Proc \ {p} : pc'[q] = pc[q] /\ loc'[q] = loc[q]
  BY Zenon, Moved DEF SemFSInv
<1>2. Others(p)
  BY Zenon, <1>1 DEF Others
<1>4. TypeOK'
  BY Zenon, <1>1 DEF SemFSInv, TypeOK, SemsKept
<1>5. RefcountExact'
  BY Zenon DEF SemFSInv, RefcountExact
<1>6. NamesUnique'
  BY Zenon DEF SemFSInv, NamesUnique
<1>7. LocksOK(p)'
  BY Zenon, <1>1 DEF LocksOK, WorkPcs
<1>8. LocalsOK(p)'
  <2>1. LocalsAt(l, r, open[p])'
    BY Zenon DEF LocalsAt, Found, Entry, InDirectory
  <2> QED
    BY Zenon, <1>1, <2>1 DEF LocalsOK
<1>9. ASSUME NEW n \in SemNum PROVE SlotOK(n)'
  <2>1. (Live(n)' <=> Live(n)) /\ (InDirectory(n)' <=> InDirectory(n)) /\ vn_refcount'[n] = vn_refcount[n]
    BY Zenon DEF SemsKept, InDirectory
  <2>2. pc[p] \notin WorkPcs /\ pc'[p] \notin WorkPcs
    BY Zenon, <1>1
  <2> QED
    BY Zenon, <1>2, <2>1, <2>2, OtherSlot DEF SemsKept
<1> QED
  BY Zenon, <1>2, <1>4, <1>5, <1>6, <1>7, <1>8, <1>9, ProcStep DEF LocksKept

\* A step that changes neither the arrays nor the references.
LEMMA QuietStep ==
    ASSUME SemFSInv, NEW p \in Proc, NEW l \in Pcs, NEW r \in Locs, Goto(p, l), Locals(p, r),
           pc[p] \notin WorkPcs, l \notin WorkPcs, UNCHANGED <<arrays, vn_refcount, open, fault>>,
           LocksKept(p), semfs_dirlock' \in Proc \cup {NONE}, semfs_tablelock' \in Proc \cup {NONE},
           sems_lock' \in [SemNum -> Proc \cup {NONE}],
           semfs_dirlock' = p <=> l \in DirPcs, semfs_tablelock' # p,
           \A n \in SemNum : sems_lock'[n] = p <=> l \in SemlockPcs /\ r.semnum = n,
           LocalsAt(l, r, open[p])
    PROVE  SemFSInv'
<1>1. UNCHANGED <<semfs_dents, semfs_sems>>
  BY Zenon DEF arrays
<1>2. SemsKept
  BY Zenon, <1>1 DEF SemsKept, SemFSInv, TypeOK, Live
<1> QED
  BY Zenon, <1>1, <1>2, KeepStep
-----------------------------------------------------------------------------
\* Searches begin: semfs_lookup, semfs_creat and semfs_remove.
LEMMA SearchStep ==
    ASSUME SemFSInv, NEW p \in Proc, NEW nm \in Name, semfs_lookup(p, nm) \/ semfs_creat(p, nm) \/ semfs_remove(p, nm)
    PROVE  SemFSInv'
<1>1. /\ pc[p] = "idle" /\ semfs_dirlock = NONE /\ semfs_dirlock' = p /\ TypeOK /\ LocksOK(p)
      /\ UNCHANGED <<arrays, vn_refcount, semfs_tablelock, sems_lock, open, fault>>
  BY Zenon DEF SemFSInv, semfs_lookup, semfs_creat, semfs_remove
<1>2. /\ LocksKept(p)
      /\ semfs_dirlock' \in Proc \cup {NONE} /\ semfs_tablelock' \in Proc \cup {NONE}
      /\ sems_lock' \in [SemNum -> Proc \cup {NONE}]
  BY Zenon, <1>1, SemFSAssumption DEF LocksKept, TypeOK
<1>3. semfs_tablelock' # p /\ \A n \in SemNum : sems_lock'[n] # p
  BY Zenon, <1>1 DEF LocksOK, SemlockPcs
<1>4. PICK l \in DirPcs \ WorkPcs, r \in Locs : Goto(p, l) /\ Locals(p, r) /\ LocalsAt(l, r, open[p])
  <2>1. ASSUME NEW i \in Found(nm)
        PROVE  /\ semfs_dents[i].semd_semnum \in SemNum /\ i \in Nat /\ Entry(i, semfs_dents[i].semd_semnum)
               /\ InDirectory(semfs_dents[i].semd_semnum)
    <3>1. i \in DOMAIN semfs_dents /\ semfs_dents[i] # NONE /\ semfs_dents \in Seq(Dent \cup {NONE})
      BY Zenon, <1>1 DEF Found, TypeOK
    <3>2. semfs_dents[i] \in Dent /\ i \in Nat
      BY <3>1
    <3> QED
      BY Zenon, <3>1, <3>2 DEF Dent, Entry, InDirectory
  <2>2. CASE semfs_lookup(p, nm)
    <3>1. PICK i \in Found(nm) : Locals(p, [semnum |-> semfs_dents[i].semd_semnum])
      BY Zenon, <2>2 DEF semfs_lookup
    <3> DEFINE r == [semnum |-> semfs_dents[i].semd_semnum]
    <3>2. r \in Locs /\ r \in [semnum : SemNum] /\ InDirectory(r.semnum)
      BY Zenon, <2>1 DEF Locs
    <3>3. Goto(p, "lookup_getvnode") /\ open[p] = NONE
      BY Zenon, <2>2 DEF semfs_lookup
    <3>4. "lookup_getvnode" \in DirPcs \ WorkPcs
      BY Zenon DEF DirPcs, WorkPcs
    <3> HIDE DEF r
    <3>5. LocalsAt("lookup_getvnode", r, open[p])
      BY Zenon, <3>2, <3>3 DEF LocalsAt, RemovePcs
    <3> QED
      BY Zenon, <3>1, <3>2, <3>3, <3>4, <3>5 DEF r
  <2>3. CASE semfs_creat(p, nm)
    <3> DEFINE r == [name |-> nm]
    <3>1. Goto(p, "insert") /\ Locals(p, r) /\ open[p] = NONE /\ Found(nm) = {}
      BY Zenon, <2>3 DEF semfs_creat
    <3>2. r \in Locs /\ r \in [name : Name] /\ r.name = nm
      BY Zenon DEF Locs
    <3>3. "insert" \in DirPcs \ WorkPcs
      BY Zenon DEF DirPcs, WorkPcs
    <3> HIDE DEF r
    <3>4. LocalsAt("insert", r, open[p])
      BY Zenon, <3>1, <3>2 DEF LocalsAt, RemovePcs, NumPcs
    <3> QED
      BY Zenon, <3>1, <3>2, <3>3, <3>4
  <2>4. CASE semfs_remove(p, nm)
    <3>1. PICK i \in Found(nm) : Locals(p, [semnum |-> semfs_dents[i].semd_semnum, dent |-> i])
      BY Zenon, <2>4 DEF semfs_remove
    <3> DEFINE r == [semnum |-> semfs_dents[i].semd_semnum, dent |-> i]
    <3>2. r \in Locs /\ r \in [semnum : SemNum, dent : Nat] /\ Entry(r.dent, r.semnum)
      BY Zenon, <2>1 DEF Locs
    <3>3. Goto(p, "getsembynum")
      BY Zenon, <2>4 DEF semfs_remove
    <3>4. "getsembynum" \in DirPcs \ WorkPcs
      BY Zenon DEF DirPcs, RemovePcs, WorkPcs
    <3> HIDE DEF r
    <3>5. LocalsAt("getsembynum", r, open[p])
      BY Zenon, <3>2 DEF LocalsAt, NumPcs
    <3> QED
      BY Zenon, <3>1, <3>2, <3>3, <3>4, <3>5 DEF r
  <2> QED
    BY Zenon, <2>2, <2>3, <2>4
<1>5. l \in Pcs /\ l \in DirPcs /\ l \notin WorkPcs /\ l \notin SemlockPcs /\ pc[p] \notin WorkPcs
  BY Zenon, <1>1, <1>4 DEF DirPcs, RemovePcs, WorkPcs, SemlockPcs, Pcs
<1> QED
  BY Zenon, <1>1, <1>2, <1>3, <1>4, <1>5, QuietStep

\* Nothing is left to do.
LEMMA IdleLocals ==
    \A o : LocalsAt("idle", NONE, o) /\ "idle" \in Pcs \ (WorkPcs \cup DirPcs \cup SemlockPcs) /\ NONE \in Locs
  BY Zenon DEF LocalsAt, Pcs, WorkPcs, DirPcs, RemovePcs, SemlockPcs, NumPcs, Locs

\* semfs_creat or semfs_lookup fails with the arrays as they were.
LEMMA CreatFailsStep ==
    ASSUME SemFSInv, NEW p \in Proc, pc[p] \in {"insert", "lookup_getvnode"}, CreatFails(p), UNCHANGED arrays
    PROVE  SemFSInv'
<1>1. /\ TypeOK /\ LocksOK(p) /\ pc[p] \in DirPcs /\ pc[p] \notin WorkPcs
      /\ semfs_dirlock' = NONE /\ Goto(p, "idle") /\ Locals(p, NONE)
      /\ UNCHANGED <<vn_refcount, semfs_tablelock, sems_lock, open, fault>>
  BY Zenon DEF SemFSInv, CreatFails, Return, DirPcs, WorkPcs
<1>2. /\ semfs_dirlock = p /\ semfs_tablelock' # p /\ (\A n \in SemNum : sems_lock'[n] # p) /\ semfs_dirlock' # p
  BY Zenon, <1>1, SemFSAssumption DEF LocksOK, SemlockPcs
<1>3. /\ LocksKept(p)
      /\ semfs_dirlock' \in Proc \cup {NONE} /\ semfs_tablelock' \in Proc \cup {NONE}
      /\ sems_lock' \in [SemNum -> Proc \cup {NONE}]
  BY Zenon, <1>1, <1>2, SemFSAssumption DEF LocksKept, TypeOK
<1> QED
  BY Zenon, <1>1, <1>2, <1>3, IdleLocals, QuietStep

\* semfs_remove gets hold of the semaphore.
LEMMA GetsembynumStep ==
    ASSUME SemFSInv, NEW p \in Proc, semfs_getsembynum(p)
    PROVE  SemFSInv'
<1>1. /\ TypeOK /\ LocksOK(p) /\ LocalsOK(p) /\ pc[p] = "getsembynum" /\ Goto(p, "unlink")
      /\ UNCHANGED <<arrays, vn_refcount, semfs_dirlock, semfs_tablelock, sems_lock, loc, open, fault>>
  BY Zenon DEF SemFSInv, semfs_getsembynum, locks
<1>2. Locals(p, loc[p]) /\ loc[p] \in Locs
  BY Zenon, <1>1 DEF Locals, TypeOK
<1>3. /\ "unlink" \in Pcs /\ "unlink" \in DirPcs /\ "unlink" \notin WorkPcs /\ "unlink" \notin SemlockPcs
      /\ pc[p] \notin WorkPcs
  BY Zenon, <1>1 DEF Pcs, DirPcs, RemovePcs, WorkPcs, SemlockPcs
<1>4. semfs_dirlock' = p /\ semfs_tablelock' # p /\ \A n \in SemNum : sems_lock'[n] # p
  BY Zenon, <1>1 DEF LocksOK, SemlockPcs, DirPcs, RemovePcs
<1>5. LocalsAt("unlink", loc[p], open[p])
  BY Zenon, <1>1 DEF LocalsOK, LocalsAt, RemovePcs, NumPcs
<1>6. /\ LocksKept(p)
      /\ semfs_dirlock' \in Proc \cup {NONE} /\ semfs_tablelock' \in Proc \cup {NONE}
      /\ sems_lock' \in [SemNum -> Proc \cup {NONE}]
  BY Zenon, <1>1 DEF LocksKept, TypeOK
<1> QED
  BY Zenon, <1>1, <1>2, <1>3, <1>4, <1>5, <1>6, QuietStep

\* semfs_getsem for an operation on an open semaphore, and the lock of semfs_read.
LEMMA GetsemStep ==
    ASSUME SemFSInv, NEW p \in Proc, semfs_getsem(p)
    PROVE  SemFSInv'
<1> DEFINE r == [semnum |-> open[p]]
<1>1. /\ TypeOK /\ LocksOK(p) /\ pc[p] = "idle" /\ open[p] # NONE /\ Goto(p, "semlock") /\ Locals(p, r)
      /\ UNCHANGED <<arrays, vn_refcount, semfs_dirlock, semfs_tablelock, sems_lock, open, fault>>
  BY Zenon DEF SemFSInv, semfs_getsem, locks
<1>2. r \in Locs /\ r \in [semnum : SemNum] /\ r.semnum = open[p]
  BY Zenon, <1>1 DEF Locs, TypeOK
<1> HIDE DEF r
<1>3. /\ "semlock" \in Pcs /\ "semlock" \notin DirPcs /\ "semlock" \notin WorkPcs /\ "semlock" \notin SemlockPcs
      /\ pc[p] \notin WorkPcs
  BY Zenon, <1>1 DEF Pcs, DirPcs, RemovePcs, WorkPcs, SemlockPcs
<1>4. semfs_dirlock' # p /\ semfs_tablelock' # p /\ \A n \in SemNum : sems_lock'[n] # p
  BY Zenon, <1>1 DEF LocksOK, SemlockPcs, DirPcs, RemovePcs
<1>5. LocalsAt("semlock", r, open[p])
  BY Zenon, <1>1, <1>2 DEF LocalsAt, RemovePcs
<1>6. /\ LocksKept(p)
      /\ semfs_dirlock' \in Proc \cup {NONE} /\ semfs_tablelock' \in Proc \cup {NONE}
      /\ sems_lock' \in [SemNum -> Proc \cup {NONE}]
  BY Zenon, <1>1 DEF LocksKept, TypeOK
<1> QED
  BY Zenon, <1>1, <1>2, <1>3, <1>4, <1>5, <1>6, QuietStep

LEMMA ReadLockStep ==
    ASSUME SemFSInv, NEW p \in Proc, NEW resid \in Count, ReadLock(p, resid)
    PROVE  SemFSInv'
<1> DEFINE n == loc[p].semnum
           r == [semnum |-> n, resid |-> resid]
<1>1. /\ TypeOK /\ LocksOK(p) /\ LocalsOK(p) /\ pc[p] = "semlock" /\ sems_lock[n] = NONE
      /\ sems_lock' = [sems_lock EXCEPT ![n] = p] /\ Goto(p, "read") /\ Locals(p, r)
      /\ UNCHANGED <<arrays, vn_refcount, semfs_dirlock, semfs_tablelock, open, fault>>
  BY Zenon DEF SemFSInv, ReadLock, locks
<1>2. n \in SemNum /\ open[p] = n
  BY Zenon, <1>1 DEF LocalsOK, LocalsAt, NumPcs
<1>3. r \in Locs /\ r \in [semnum : SemNum, resid : Count] /\ r.semnum = n
  BY Zenon, <1>2 DEF Locs
<1> HIDE DEF r
<1>4. /\ "read" \in Pcs /\ "read" \notin DirPcs /\ "read" \notin WorkPcs /\ "read" \in SemlockPcs
      /\ pc[p] \notin WorkPcs
  BY Zenon, <1>1 DEF Pcs, DirPcs, RemovePcs, WorkPcs, SemlockPcs
<1>5. /\ semfs_dirlock' # p /\ semfs_tablelock' # p
      /\ \A m \in SemNum : sems_lock'[m] = p <=> "read" \in SemlockPcs /\ r.semnum = m
  <2>1. \A m \in SemNum : sems_lock[m] # p
    BY Zenon, <1>1 DEF LocksOK, SemlockPcs
  <2>2. \A m \in SemNum : sems_lock'[m] = IF m = n THEN p ELSE sems_lock[m]
    BY Zenon, <1>1, <1>2 DEF TypeOK
  <2>3. semfs_dirlock' # p /\ semfs_tablelock' # p
    BY Zenon, <1>1 DEF LocksOK, DirPcs, RemovePcs
  <2> QED
    BY Zenon, <1>3, <1>4, <2>1, <2>2, <2>3
<1>6. LocalsAt("read", r, open[p])
  BY Zenon, <1>2, <1>3 DEF LocalsAt, RemovePcs, NumPcs
<1>7. /\ LocksKept(p)
      /\ semfs_dirlock' \in Proc \cup {NONE} /\ semfs_tablelock' \in Proc \cup {NONE}
      /\ sems_lock' \in [SemNum -> Proc \cup {NONE}]
  BY Zenon, <1>1, <1>2, LockMoves
<1> QED
  BY Zenon, <1>1, <1>3, <1>4, <1>5, <1>6, <1>7, QuietStep
-----------------------------------------------------------------------------
\* A semaphore somebody has open is there.
LEMMA OpenLive ==
    ASSUME SemFSInv, NEW p \in Proc, open[p] # NONE
    PROVE  open[p] \in SemNum /\ Live(open[p])
<1>1. open[p] \in SemNum /\ vn_refcount[open[p]] \in Nat /\ vn_refcount[open[p]] > 0
  BY Zenon, OpenCounted
<1>2. SlotOK(open[p])
  BY Zenon, <1>1 DEF SemFSInv
<1> QED
  BY <1>1, <1>2 DEF SlotOK

\* Only the count changes.
LEMMA CountKept ==
    ASSUME SemFSInv, NEW n, Live(n), NEW c \in Count, SetCount(n, c)
    PROVE  SemsKept
<1> DEFINE h == semfs_sems[n].sems_hasvnode  k == semfs_sems[n].sems_linked
           e == [sems_count |-> c, sems_hasvnode |-> h, sems_linked |-> k]
<1>1. TypeOK /\ h \in BOOLEAN /\ k \in BOOLEAN /\ n \in SemNum
  BY Zenon, LiveType DEF SemFSInv
<1>2. semfs_sems' = [semfs_sems EXCEPT ![n] = e]
  <2>1. semfs_sems' = [semfs_sems EXCEPT ![n].sems_count = c]
    BY Zenon DEF SetCount
  <2>2. semfs_sems[n] = [sems_count |-> semfs_sems[n].sems_count, sems_hasvnode |-> h, sems_linked |-> k]
    BY Zenon, <1>1, LiveType
  <2>3. [semfs_sems[n] EXCEPT !.sems_count = c] = e
    BY <2>2
  <2> QED
    BY Zenon, <2>1, <2>3
<1>3. e \in Sem /\ e.sems_hasvnode = h /\ e.sems_linked = k
  BY Zenon, <1>1 DEF Sem
<1> HIDE DEF e
<1>4. /\ semfs_sems' \in Seq(Sem \cup {NONE}) /\ Len(semfs_sems') <= SEMFS_ROOTDIR
      /\ semfs_sems'[n] = e /\ (Live(n)' <=> e # NONE)
      /\ \A m \in SemNum \ {n} : (Live(m)' <=> Live(m)) /\ (Live(m) => semfs_sems'[m] = semfs_sems[m])
  BY Zenon, <1>1, <1>2, <1>3, SlotSet
<1>5. e # NONE
  BY Zenon, <1>3, SemFSAssumption
<1> QED
  BY Zenon, <1>3, <1>4, <1>5 DEF SemsKept

\* The new count never wraps, and is never smaller than the old one.
LEMMA WrittenCount ==
    ASSUME NEW count \in Count, NEW resid \in Count
    PROVE  Written(count, resid) \in Count /\ Written(count, resid) >= count
<1>1. CountMod \in Nat \ {0} /\ count \in Nat /\ resid \in Nat
  BY SemFSAssumption DEF Count
<1>2. (count + resid) % CountMod \in 0 .. CountMod - 1
  BY <1>1
<1> QED
  BY <1>1, <1>2 DEF Written, Count

\* semfs_write and semfs_truncate.
LEMMA LockedStep ==
    ASSUME SemFSInv, NEW p \in Proc, NEW c \in Count, Locked(p, c)
    PROVE  SemFSInv'
<1> DEFINE n == loc[p].semnum
<1>1. /\ TypeOK /\ LocksOK(p) /\ LocalsOK(p) /\ pc[p] = "semlock" /\ SetCount(n, c)
      /\ Goto(p, "idle") /\ Locals(p, NONE)
      /\ UNCHANGED <<semfs_dents, vn_refcount, semfs_dirlock, semfs_tablelock, sems_lock, open, fault>>
  BY Zenon DEF SemFSInv, Locked, locks, Return
<1>2. n \in SemNum /\ open[p] = n /\ open[p] # NONE
  BY Zenon, <1>1, SemFSAssumption DEF LocalsOK, LocalsAt, NumPcs
<1>3. SemsKept
  BY Zenon, <1>1, <1>2, OpenLive, CountKept
<1>4. semfs_dirlock' # p /\ semfs_tablelock' # p /\ \A m \in SemNum : sems_lock'[m] # p
  BY Zenon, <1>1 DEF LocksOK, SemlockPcs, DirPcs, RemovePcs
<1>5. /\ LocksKept(p)
      /\ semfs_dirlock' \in Proc \cup {NONE} /\ semfs_tablelock' \in Proc \cup {NONE}
      /\ sems_lock' \in [SemNum -> Proc \cup {NONE}]
  BY Zenon, <1>1 DEF LocksKept, TypeOK
<1>6. pc[p] \notin WorkPcs
  BY Zenon, <1>1 DEF WorkPcs
<1> QED
  BY Zenon, <1>1, <1>3, <1>4, <1>5, <1>6, IdleLocals, KeepStep

LEMMA WriteStep ==
    ASSUME SemFSInv, NEW p \in Proc, NEW resid \in Count, semfs_write(p, resid)
    PROVE  SemFSInv'
<1> DEFINE n == loc[p].semnum
<1>1. pc[p] = "semlock" /\ LocalsOK(p) /\ Locked(p, Written(semfs_sems[n].sems_count, resid)) /\ TypeOK
  BY Zenon DEF semfs_write, SemFSInv
<1>2. n \in SemNum /\ open[p] = n /\ open[p] # NONE
  BY Zenon, <1>1, SemFSAssumption DEF LocalsOK, LocalsAt, NumPcs
<1>3. semfs_sems[n].sems_count \in Count
  BY Zenon, <1>1, <1>2, OpenLive, LiveType
<1>4. Written(semfs_sems[n].sems_count, resid) \in Count
  BY Zenon, <1>3, WrittenCount
<1> QED
  BY Zenon, <1>1, <1>4, LockedStep

LEMMA ReadStep ==
    ASSUME SemFSInv, NEW p \in Proc, semfs_read(p)
    PROVE  SemFSInv'
<1> DEFINE n == loc[p].semnum
           count == semfs_sems[n].sems_count
           consume == IF loc[p].resid > count THEN count ELSE loc[p].resid
<1>1. /\ TypeOK /\ LocksOK(p) /\ LocalsOK(p) /\ pc[p] = "read" /\ SetCount(n, count - consume)
      /\ UNCHANGED <<semfs_dents, vn_refcount, semfs_dirlock, semfs_tablelock, open, fault>>
  BY Zenon DEF SemFSInv, semfs_read
<1>2. loc[p] \in [semnum : SemNum, resid : Count] /\ n \in SemNum /\ open[p] = n /\ open[p] # NONE
  BY Zenon, <1>1, SemFSAssumption DEF LocalsOK, LocalsAt
<1>3. count \in Count
  BY ZenonT(60), <1>1, <1>2, OpenLive, LiveType
<1>4. consume \in Count /\ count - consume \in Count /\ loc[p].resid - consume \in Count
  BY <1>2, <1>3, SemFSAssumption DEF Count
<1> HIDE DEF consume
<1>5. SemsKept
  BY Zenon, <1>1, <1>2, <1>4, OpenLive, CountKept
<1>6. semfs_dirlock' # p /\ semfs_tablelock' # p /\ sems_lock[n] = p /\ \A m \in SemNum \ {n} : sems_lock[m] # p
  BY Zenon, <1>1, <1>2 DEF LocksOK, SemlockPcs, DirPcs, RemovePcs
<1>7. pc[p] \notin WorkPcs /\ "read" \in SemlockPcs /\ "read" \notin DirPcs \cup WorkPcs /\ "read" \in Pcs
  BY Zenon, <1>1 DEF WorkPcs, SemlockPcs, DirPcs, RemovePcs, Pcs
<1>8. CASE consume = loc[p].resid
  <2>1. sems_lock' = [sems_lock EXCEPT ![n] = NONE] /\ Goto(p, "idle") /\ Locals(p, NONE)
    BY Zenon, <1>8 DEF semfs_read, Return, consume
  <2>2. \A m \in SemNum : sems_lock'[m] # p
    BY Zenon, <1>1, <1>2, <1>6, <2>1, SemFSAssumption DEF TypeOK
  <2>3. /\ LocksKept(p)
        /\ semfs_dirlock' \in Proc \cup {NONE} /\ semfs_tablelock' \in Proc \cup {NONE}
        /\ sems_lock' \in [SemNum -> Proc \cup {NONE}]
    BY Zenon, <1>1, <1>2, <1>6, <2>1, LockMoves
  <2> QED
    BY Zenon, <1>1, <1>5, <1>6, <1>7, <2>1, <2>2, <2>3, IdleLocals, KeepStep
<1>9. CASE consume # loc[p].resid
  <2> DEFINE r == [semnum |-> n, resid |-> loc[p].resid - consume]
  <2>1. UNCHANGED <<pc, sems_lock>> /\ Locals(p, [loc[p] EXCEPT !.resid = @ - consume])
    BY Zenon, <1>9 DEF semfs_read, consume
  <2>2. Goto(p, "read") /\ Locals(p, r)
    <3>1. pc' = [pc EXCEPT ![p] = "read"]
      BY Zenon, <1>1, <2>1 DEF TypeOK
    <3>2. [loc[p] EXCEPT !.resid = @ - consume] = r
      BY <1>2
    <3> QED
      BY Zenon, <2>1, <3>1, <3>2 DEF Goto
  <2>3. r \in Locs /\ r \in [semnum : SemNum, resid : Count] /\ r.semnum = n
    BY Zenon, <1>2, <1>4 DEF Locs
  <2> HIDE DEF r
  <2>4. LocalsAt("read", r, open[p])
    BY Zenon, <1>2, <2>3 DEF LocalsAt, RemovePcs, NumPcs
  <2>5. \A m \in SemNum : sems_lock'[m] = p <=> "read" \in SemlockPcs /\ r.semnum = m
    BY Zenon, <1>6, <1>7, <2>1, <2>3
  <2>6. /\ LocksKept(p)
        /\ semfs_dirlock' \in Proc \cup {NONE} /\ semfs_tablelock' \in Proc \cup {NONE}
        /\ sems_lock' \in [SemNum -> Proc \cup {NONE}]
    BY Zenon, <1>1, <2>1 DEF LocksKept, TypeOK
  <2> QED
    BY Zenon, <1>1, <1>5, <1>6, <1>7, <2>2, <2>3, <2>4, <2>5, <2>6, KeepStep
<1> QED
  BY Zenon, <1>8, <1>9
-----------------------------------------------------------------------------
\* Another process is at one of the places S with semaphore n.
OtherWorking(p, S, n) == \E q \in Proc \ {p} : pc[q] \in S /\ loc[q].semnum = n

LEMMA WorkingAfter ==
    ASSUME NEW p \in Proc, Others(p), NEW S, NEW n
    PROVE  /\ Working(S, n) <=> (pc[p] \in S /\ loc[p].semnum = n) \/ OtherWorking(p, S, n)
           /\ Working(S, n)' <=> (pc'[p] \in S /\ loc'[p].semnum = n) \/ OtherWorking(p, S, n)
  BY Zenon DEF Working, OtherWorking, Others

\* The holder of semfs_dirlock, and of semfs_tablelock, works alone.
LEMMA DirWorksAlone ==
    ASSUME SemFSInv, NEW p \in Proc, semfs_dirlock = p, NEW n
    PROVE  /\ ~OtherWorking(p, Unlinked, n)
           /\ ~OtherWorking(p, {"creat_getvnode"}, n) /\ ~OtherWorking(p, {"drop"}, n) /\ ~OtherWorking(p, {"leave"}, n)
  BY Zenon, DirAlone DEF OtherWorking, DirPcs, RemovePcs, Unlinked

LEMMA TableWorksAlone ==
    ASSUME SemFSInv, NEW p \in Proc, semfs_tablelock \in {NONE, p}, NEW n
    PROVE  ~OtherWorking(p, {"linked"}, n)
  BY SemFSAssumption DEF OtherWorking, SemFSInv, LocksOK

\* A step of p that concerns slot n.
LEMMA WorkStep ==
    ASSUME SemFSInv, NEW p \in Proc, NEW l \in Pcs, NEW r \in Locs, Goto(p, l), Locals(p, r),
           NEW n \in SemNum, pc[p] \in WorkPcs => loc[p].semnum = n, l \in WorkPcs => r.semnum = n,
           semfs_dents' \in Seq(Dent \cup {NONE}), NamesUnique', UNCHANGED semfs_dents \/ semfs_dirlock = p,
           semfs_sems' \in Seq(Sem \cup {NONE}), Len(semfs_sems') <= SEMFS_ROOTDIR,
           \A m \in SemNum \ {n} : (Live(m)' <=> Live(m)) /\ (Live(m) => semfs_sems'[m] = semfs_sems[m]),
           \A m \in SemNum \ {n} : InDirectory(m)' <=> InDirectory(m),
           \A m \in SemNum \ {n} : vn_refcount'[m] = vn_refcount[m],
           vn_refcount' \in [SemNum -> Nat], open' \in [Proc -> SemNum \cup {NONE}],
           \A q \in Proc \ {p} : open'[q] = open[q], RefcountExact', UNCHANGED fault,
           LocksKept(p), semfs_dirlock' \in Proc \cup {NONE}, semfs_tablelock' \in Proc \cup {NONE},
           sems_lock' \in [SemNum -> Proc \cup {NONE}],
           semfs_dirlock' = p <=> l \in DirPcs, semfs_tablelock' = p <=> l = "linked",
           \A m \in SemNum : sems_lock'[m] = p <=> l \in SemlockPcs /\ r.semnum = m,
           NEW o, o = open'[p], LocalsAt(l, r, o)', 
           Others(p) /\ pc'[p] = l /\ loc'[p] = r => SlotOK(n)'
    PROVE  SemFSInv'
<1>1. /\ pc' \in [Proc -> Pcs] /\ loc' \in [Proc -> Locs] /\ pc'[p] = l /\ loc'[p] = r
      /\ \A q \in Proc \ {p} : pc'[q] = pc[q] /\ loc'[q] = loc[q]
  BY Zenon, Moved DEF SemFSInv
<1>2. Others(p)
  BY Zenon, <1>1 DEF Others
<1>3. TypeOK'
  BY ZenonT(60), <1>1 DEF SemFSInv, TypeOK
<1>4. LocksOK(p)'
  BY Zenon, <1>1 DEF LocksOK
<1>5. LocalsOK(p)'
  BY Zenon, <1>1 DEF LocalsOK
<1>6. ASSUME NEW m \in SemNum PROVE SlotOK(m)'
  <2>1. CASE m = n
    BY Zenon, <1>1, <1>2, <2>1
  <2>2. CASE m # n
    <3>1. /\ Live(m)' <=> Live(m)
          /\ InDirectory(m)' <=> InDirectory(m)
          /\ vn_refcount'[m] = vn_refcount[m]
          /\ Live(m) => semfs_sems'[m] = semfs_sems[m]
      BY Zenon, <2>2
    <3>2. \/ pc[p] \notin WorkPcs /\ pc'[p] \notin WorkPcs
          \/ pc[p] \in WorkPcs /\ loc[p].semnum # m /\ pc'[p] \notin WorkPcs
          \/ pc'[p] \in WorkPcs /\ loc'[p].semnum # m /\ pc[p] \notin WorkPcs
          \/ pc[p] \in WorkPcs /\ loc[p].semnum # m /\ loc'[p].semnum # m
      BY Zenon, <1>1, <2>2
    <3> QED
      BY ZenonT(60), <1>2, <3>1, <3>2, OtherSlot
  <2> QED
    BY Zenon, <2>1, <2>2
<1> QED
  BY Zenon, <1>2, <1>3, <1>4, <1>5, <1>6, ProcStep DEF LocksKept, SemFSInv

\* The same for a step that ends the operation.
LEMMA WorkDone ==
    ASSUME SemFSInv, NEW p \in Proc, Goto(p, "idle"), Locals(p, NONE),
           NEW n \in SemNum, pc[p] \in WorkPcs => loc[p].semnum = n,
           semfs_dents' \in Seq(Dent \cup {NONE}), NamesUnique', UNCHANGED semfs_dents \/ semfs_dirlock = p,
           semfs_sems' \in Seq(Sem \cup {NONE}), Len(semfs_sems') <= SEMFS_ROOTDIR,
           \A m \in SemNum \ {n} : (Live(m)' <=> Live(m)) /\ (Live(m) => semfs_sems'[m] = semfs_sems[m]),
           \A m \in SemNum \ {n} : InDirectory(m)' <=> InDirectory(m),
           \A m \in SemNum \ {n} : vn_refcount'[m] = vn_refcount[m],
           vn_refcount' \in [SemNum -> Nat], open' \in [Proc -> SemNum \cup {NONE}],
           \A q \in Proc \ {p} : open'[q] = open[q], RefcountExact', UNCHANGED fault,
           LocksKept(p), semfs_dirlock' \in Proc \cup {NONE}, semfs_tablelock' \in Proc \cup {NONE},
           sems_lock' \in [SemNum -> Proc \cup {NONE}],
           semfs_dirlock' # p, semfs_tablelock' # p, \A m \in SemNum : sems_lock'[m] # p,
           Others(p) /\ pc'[p] = "idle" => SlotOK(n)'
    PROVE  SemFSInv'
<1>1. PICK l, r, o : l = "idle" /\ r = NONE /\ o = open'[p]
  BY Zenon
<1>2. l \in Pcs /\ r \in Locs /\ Goto(p, l) /\ Locals(p, r)
  BY Zenon, <1>1 DEF Pcs, Locs
<1>3. l \notin WorkPcs /\ l \notin DirPcs /\ l \notin SemlockPcs /\ l # "linked"
  BY Zenon, <1>1 DEF WorkPcs, DirPcs, RemovePcs, SemlockPcs
<1>4. LocalsAt(l, r, o)'
  BY Zenon, <1>1 DEF LocalsAt, RemovePcs, NumPcs
<1>5. /\ l \in WorkPcs => r.semnum = n
      /\ semfs_dirlock' = p <=> l \in DirPcs
      /\ semfs_tablelock' = p <=> l = "linked"
      /\ \A m \in SemNum : sems_lock'[m] = p <=> l \in SemlockPcs /\ r.semnum = m
  BY Zenon, <1>3
<1>6. Others(p) /\ pc'[p] = l /\ loc'[p] = r => SlotOK(n)'
  BY Zenon, <1>1
<1>7. o = open'[p]
  BY Zenon, <1>1
<1> QED
  BY ZenonT(60), <1>2, <1>4, <1>5, <1>6, <1>7, WorkStep
-----------------------------------------------------------------------------
\* Arrays that stay: what WorkStep asks of them.
LEMMA SameDirectory ==
    ASSUME SemFSInv, UNCHANGED semfs_dents
    PROVE  /\ semfs_dents' \in Seq(Dent \cup {NONE}) /\ NamesUnique'
           /\ \A m : InDirectory(m)' <=> InDirectory(m)
  BY Zenon DEF SemFSInv, TypeOK, NamesUnique, InDirectory

LEMMA SameSems ==
    ASSUME SemFSInv, UNCHANGED semfs_sems
    PROVE  /\ semfs_sems' \in Seq(Sem \cup {NONE}) /\ Len(semfs_sems') <= SEMFS_ROOTDIR
           /\ \A m : Live(m)' <=> Live(m)
  BY Zenon DEF SemFSInv, TypeOK, Live

LEMMA SameLocks ==
    ASSUME SemFSInv, NEW p \in Proc, UNCHANGED locks
    PROVE  /\ LocksKept(p) /\ semfs_dirlock' \in Proc \cup {NONE} /\ semfs_tablelock' \in Proc \cup {NONE}
           /\ sems_lock' \in [SemNum -> Proc \cup {NONE}]
           /\ semfs_dirlock' = p <=> pc[p] \in DirPcs
           /\ semfs_tablelock' = p <=> pc[p] = "linked"
           /\ \A m \in SemNum : sems_lock'[m] = p <=> pc[p] \in SemlockPcs /\ loc[p].semnum = m
<1>1. UNCHANGED <<semfs_dirlock, semfs_tablelock, sems_lock>> /\ LocksOK(p) /\ TypeOK
  BY Zenon DEF locks, SemFSInv
<1> QED
  BY Zenon, <1>1 DEF LocksKept, LocksOK, TypeOK

\* A reference that is not the last is given back.
LEMMA CloseStep ==
    ASSUME SemFSInv, NEW p \in Proc, pc[p] \in {"idle", "reclaim"}, NEW n, n = open[p], n # NONE, vn_refcount[n] > 1,
           vn_refcount' = [vn_refcount EXCEPT ![n] = @ - 1], open' = [open EXCEPT ![p] = NONE],
           NEW r \in Locs, Goto(p, "idle"), Locals(p, r), UNCHANGED <<arrays, locks, fault>>
    PROVE  SemFSInv'
<1>1. /\ TypeOK /\ n \in SemNum /\ vn_refcount[n] \in Nat /\ SlotOK(n) /\ Live(n)
      /\ UNCHANGED <<semfs_dents, semfs_sems>>
  BY Zenon, OpenCounted, OpenLive DEF SemFSInv, arrays
<1>2. vn_refcount' = [vn_refcount EXCEPT ![n] = vn_refcount[n] - 1]
  BY Zenon
<1>3. /\ RefcountExact' /\ open' \in [Proc -> SemNum \cup {NONE}] /\ vn_refcount' \in [SemNum -> Nat]
      /\ open'[p] = NONE /\ vn_refcount'[n] = vn_refcount[n] - 1
      /\ \A q \in Proc \ {p} : open'[q] = open[q]
      /\ \A m \in SemNum \ {n} : vn_refcount'[m] = vn_refcount[m]
  BY Zenon, <1>1, <1>2, Closed DEF SemFSInv
<1>4. vn_refcount'[n] > 0 /\ vn_refcount[n] > 0 /\ vn_refcount[n] # 0
  BY <1>1, <1>3
<1>5. ASSUME Others(p), pc'[p] = "idle" PROVE SlotOK(n)'
  <2>1. pc[p] \notin WorkPcs /\ pc'[p] \notin WorkPcs
    BY Zenon, <1>5 DEF WorkPcs
  <2>2. /\ Working(Unlinked, n)' <=> Working(Unlinked, n)
        /\ Working({"creat_getvnode"}, n)' <=> Working({"creat_getvnode"}, n)
        /\ Working({"linked"}, n)' <=> Working({"linked"}, n)
        /\ Working({"drop"}, n)' <=> Working({"drop"}, n)
        /\ Working({"leave"}, n)' <=> Working({"leave"}, n)
    BY Zenon, <1>5, <2>1, StillWorking
  <2> QED
    BY Zenon, <1>1, <1>4, <2>2, SameSems, SameDirectory DEF SlotOK
<1>6. /\ "idle" \in Pcs /\ "idle" \notin WorkPcs /\ "idle" \notin DirPcs /\ "idle" \notin SemlockPcs
      /\ pc[p] \notin WorkPcs /\ pc[p] \notin DirPcs /\ pc[p] \notin SemlockPcs
      /\ pc[p] # "linked" /\ "idle" # "linked"
  BY Zenon, IdleLocals DEF WorkPcs, DirPcs, RemovePcs, SemlockPcs
<1>7. LocalsAt("idle", r, NONE)'
  BY Zenon DEF LocalsAt, RemovePcs, NumPcs
<1>8. /\ semfs_dents' \in Seq(Dent \cup {NONE}) /\ NamesUnique'
      /\ \A m : InDirectory(m)' <=> InDirectory(m)
  BY Zenon, <1>1, SameDirectory
<1>9. /\ semfs_sems' \in Seq(Sem \cup {NONE}) /\ Len(semfs_sems') <= SEMFS_ROOTDIR
      /\ \A m : Live(m)' <=> Live(m)
      /\ \A m : semfs_sems'[m] = semfs_sems[m]
  BY Zenon, <1>1, SameSems
<1>10. /\ LocksKept(p) /\ semfs_dirlock' \in Proc \cup {NONE} /\ semfs_tablelock' \in Proc \cup {NONE}
       /\ sems_lock' \in [SemNum -> Proc \cup {NONE}]
       /\ semfs_dirlock' # p /\ semfs_tablelock' # p /\ \A m \in SemNum : sems_lock'[m] # p
  BY Zenon, <1>6, SameLocks
<1> QED
  BY Zenon, <1>1, <1>3, <1>5, <1>6, <1>7, <1>8, <1>9, <1>10, WorkStep

LEMMA DecrefStep ==
    ASSUME SemFSInv, NEW p \in Proc, vnode_decref(p)
    PROVE  SemFSInv'
<1>1. /\ pc[p] = "idle" /\ open[p] # NONE /\ UNCHANGED <<arrays, locks, loc, fault>> /\ TypeOK
  BY Zenon DEF vnode_decref, SemFSInv
<1>2. Locals(p, loc[p]) /\ loc[p] \in Locs
  BY Zenon, <1>1 DEF Locals, TypeOK
<1>3. CASE vn_refcount[open[p]] > 1
  <2>1. /\ vn_refcount' = [vn_refcount EXCEPT ![open[p]] = @ - 1] /\ open' = [open EXCEPT ![p] = NONE]
        /\ UNCHANGED pc
    BY Zenon, <1>3 DEF vnode_decref
  <2>2. Goto(p, "idle")
    BY Zenon, <1>1, <2>1 DEF Goto, TypeOK
  <2> QED
    BY Zenon, <1>1, <1>2, <1>3, <2>1, <2>2, CloseStep
<1>4. CASE ~(vn_refcount[open[p]] > 1)
  <2>1. Goto(p, "reclaim") /\ UNCHANGED <<vn_refcount, open>>
    BY Zenon, <1>4 DEF vnode_decref
  <2>2. /\ "reclaim" \in Pcs /\ "reclaim" \notin WorkPcs /\ "reclaim" \notin DirPcs /\ "reclaim" \notin SemlockPcs
        /\ pc[p] \notin WorkPcs /\ pc[p] \notin DirPcs /\ pc[p] \notin SemlockPcs /\ pc[p] # "linked"
    BY Zenon, <1>1 DEF Pcs, WorkPcs, DirPcs, RemovePcs, SemlockPcs
  <2>3. LocalsAt("reclaim", loc[p], open[p])
    BY Zenon, <1>1 DEF LocalsAt, RemovePcs, NumPcs
  <2>4. /\ LocksKept(p) /\ semfs_dirlock' \in Proc \cup {NONE} /\ semfs_tablelock' \in Proc \cup {NONE}
        /\ sems_lock' \in [SemNum -> Proc \cup {NONE}]
        /\ semfs_dirlock' # p /\ semfs_tablelock' # p /\ \A m \in SemNum : sems_lock'[m] # p
    BY Zenon, <1>1, <2>2, SameLocks
  <2> QED
    BY Zenon, <1>1, <1>2, <2>1, <2>2, <2>3, <2>4, QuietStep
<1> QED
  BY Zenon, <1>3, <1>4

\* The last reference goes, and with it the vnode.
LEMMA ReclaimStep ==
    ASSUME SemFSInv, NEW p \in Proc, semfs_reclaim(p)
    PROVE  SemFSInv'
<1>0. PICK n : n = open[p]
  BY Zenon
<1>1. pc[p] = "reclaim" /\ semfs_tablelock = NONE /\ TypeOK /\ LocalsOK(p) /\ LocksOK(p)
  BY Zenon DEF semfs_reclaim, SemFSInv
<1>2. n # NONE
  BY Zenon, <1>0, <1>1 DEF LocalsOK, LocalsAt
<1>3. n \in SemNum /\ vn_refcount[n] \in Nat /\ vn_refcount[n] > 0 /\ Live(n) /\ SlotOK(n)
  BY Zenon, <1>0, <1>2, OpenCounted, OpenLive DEF SemFSInv
<1>4. CASE Busy(n)
  <2>1. /\ vn_refcount' = [vn_refcount EXCEPT ![n] = @ - 1] /\ open' = [open EXCEPT ![p] = NONE]
        /\ Goto(p, "idle") /\ Locals(p, NONE) /\ UNCHANGED <<arrays, locks, fault>>
    BY Zenon, <1>0, <1>4 DEF semfs_reclaim, Return
  <2>2. vn_refcount[n] > 1
    BY Zenon, <1>4 DEF Busy
  <2> QED
    BY Zenon, <1>0, <1>1, <1>2, <2>1, <2>2, IdleLocals, CloseStep
<1>5. CASE ~Busy(n)
  <2> DEFINE r == [semnum |-> n]
  <2>1. /\ vn_refcount' = [vn_refcount EXCEPT ![n] = 0] /\ open' = [open EXCEPT ![p] = NONE]
        /\ semfs_sems' = [semfs_sems EXCEPT ![n].sems_hasvnode = FALSE]
        /\ semfs_tablelock' = p /\ Locals(p, r) /\ Goto(p, "linked")
        /\ UNCHANGED <<semfs_dents, semfs_dirlock, sems_lock, fault>>
    BY Zenon, <1>0, <1>5 DEF semfs_reclaim
  <2>2. vn_refcount[n] = 1 /\ vn_refcount[n] - 1 = 0
    BY <1>3, <1>5 DEF Busy
  <2>3. /\ RefcountExact' /\ open' \in [Proc -> SemNum \cup {NONE}] /\ vn_refcount' \in [SemNum -> Nat]
        /\ open'[p] = NONE /\ vn_refcount'[n] = 0
        /\ \A q \in Proc \ {p} : open'[q] = open[q]
        /\ \A m \in SemNum \ {n} : vn_refcount'[m] = vn_refcount[m]
    BY ZenonT(60), <1>0, <1>1, <1>2, <2>1, <2>2, Closed DEF SemFSInv
  <2> DEFINE k == semfs_sems[n].sems_linked
  <2>4. k \in BOOLEAN /\ semfs_sems' = Flags(n, FALSE, k)
    BY Zenon, <1>1, <1>3, <2>1, LiveType, FlagForms
  <2>5. /\ semfs_sems' \in Seq(Sem \cup {NONE}) /\ Len(semfs_sems') <= SEMFS_ROOTDIR
        /\ Live(n)' /\ semfs_sems'[n].sems_hasvnode = FALSE /\ semfs_sems'[n].sems_linked = k
        /\ \A m \in SemNum \ {n} : (Live(m)' <=> Live(m)) /\ (Live(m) => semfs_sems'[m] = semfs_sems[m])
    BY Zenon, <1>1, <1>3, <2>4, FlagsSet
  <2>6. /\ semfs_dents' \in Seq(Dent \cup {NONE}) /\ NamesUnique'
        /\ \A m : InDirectory(m)' <=> InDirectory(m)
    BY Zenon, <2>1, SameDirectory
  <2>7. r \in Locs /\ r \in [semnum : SemNum] /\ r.semnum = n
    BY Zenon, <1>3 DEF Locs
  <2> HIDE DEF r
  <2>8. /\ "linked" \in Pcs /\ "linked" \notin DirPcs /\ "linked" \notin SemlockPcs
        /\ pc[p] \notin WorkPcs
    BY Zenon, <1>1 DEF Pcs, WorkPcs, DirPcs, RemovePcs, SemlockPcs
  <2>9. semfs_dirlock # p /\ \A m \in SemNum : sems_lock[m] # p
    BY Zenon, <1>1 DEF LocksOK, DirPcs, RemovePcs, SemlockPcs
  <2>10. /\ LocksKept(p) /\ semfs_dirlock' \in Proc \cup {NONE} /\ semfs_tablelock' \in Proc \cup {NONE}
         /\ sems_lock' \in [SemNum -> Proc \cup {NONE}]
    BY Zenon, <1>1, <1>3, <2>1, LockMoves
  <2>11. LocalsAt("linked", r, NONE)'
    BY Zenon, <2>7 DEF LocalsAt, RemovePcs, NumPcs
  <2>12. ASSUME Others(p), pc'[p] = "linked", loc'[p] = r PROVE SlotOK(n)'
    <3>1. /\ Working(Unlinked, n)' <=> Working(Unlinked, n)
          /\ Working({"creat_getvnode"}, n)' <=> Working({"creat_getvnode"}, n)
          /\ Working({"linked"}, n)'
      BY Zenon, <1>1, <2>7, <2>12, WorkingAfter DEF Unlinked
    <3>2. vn_refcount[n] # 0 /\ ~(vn_refcount'[n] > 0)
      BY <2>2, <2>3
    <3> QED
      BY Zenon, <1>3, <2>3, <2>5, <2>6, <3>1, <3>2 DEF SlotOK
  <2> QED
    BY Zenon, <1>3, <2>1, <2>3, <2>5, <2>6, <2>7, <2>8, <2>9, <2>10, <2>11, <2>12, WorkStep
<1> QED
  BY Zenon, <1>4, <1>5

\* The look at sems_linked: the slot stays or is cleared.
LEMMA ReclaimTestStep ==
    ASSUME SemFSInv, NEW p \in Proc, ReclaimTest(p)
    PROVE  SemFSInv'
<1>0. PICK n : n = loc[p].semnum
  BY Zenon
<1>1. /\ pc[p] = "linked" /\ TypeOK /\ LocalsOK(p) /\ LocksOK(p)
      /\ semfs_sems' = (IF Keep(n) THEN semfs_sems ELSE [semfs_sems EXCEPT ![n] = NONE])
      /\ semfs_tablelock' = NONE /\ Goto(p, "idle") /\ Locals(p, NONE)
      /\ UNCHANGED <<semfs_dents, vn_refcount, semfs_dirlock, sems_lock, open, fault>>
  BY Zenon, <1>0 DEF ReclaimTest, SemFSInv, Return
<1>2. loc[p] \in [semnum : SemNum] /\ n \in SemNum /\ open[p] = NONE
  BY Zenon, <1>0, <1>1 DEF LocalsOK, LocalsAt, NumPcs
<1>3. SlotOK(n) /\ Working({"linked"}, n) /\ semfs_tablelock = p
  BY Zenon, <1>0, <1>1, <1>2 DEF SemFSInv, Working, LocksOK
<1>4. Live(n) /\ vn_refcount[n] = 0 /\ vn_refcount[n] \in Nat /\ ~(vn_refcount[n] > 0) /\ ~Working({"creat_getvnode"}, n)
  BY <1>3 DEF SlotOK
<1>5. /\ RefcountExact' /\ open' \in [Proc -> SemNum \cup {NONE}] /\ vn_refcount' \in [SemNum -> Nat]
      /\ \A q : open'[q] = open[q]
      /\ \A m : vn_refcount'[m] = vn_refcount[m]
  BY Zenon, <1>1 DEF SemFSInv, RefcountExact, TypeOK
<1>6. /\ semfs_sems' \in Seq(Sem \cup {NONE}) /\ Len(semfs_sems') <= SEMFS_ROOTDIR
      /\ \A m \in SemNum \ {n} : (Live(m)' <=> Live(m)) /\ (Live(m) => semfs_sems'[m] = semfs_sems[m])
      /\ Keep(n) => Live(n)' /\ semfs_sems'[n] = semfs_sems[n]
      /\ ~Keep(n) => ~Live(n)'
  <2>1. CASE Keep(n)
    <3>1. UNCHANGED semfs_sems
      BY Zenon, <1>1, <2>1
    <3> QED
      BY Zenon, <1>4, <2>1, <3>1, SameSems
  <2>2. CASE ~Keep(n)
    <3>1. semfs_sems' = [semfs_sems EXCEPT ![n] = NONE] /\ NONE \in Sem \cup {NONE}
      BY Zenon, <1>1, <2>2
    <3> QED
      BY Zenon, <1>1, <1>4, <2>2, <3>1, SlotSet
  <2> QED
    BY Zenon, <2>1, <2>2
<1>7. /\ semfs_dents' \in Seq(Dent \cup {NONE}) /\ NamesUnique'
      /\ \A m : InDirectory(m)' <=> InDirectory(m)
  BY Zenon, <1>1, SameDirectory
<1>8. semfs_dirlock' # p /\ semfs_tablelock' # p /\ \A m \in SemNum : sems_lock'[m] # p
  BY Zenon, <1>1, SemFSAssumption DEF LocksOK, DirPcs, RemovePcs, SemlockPcs
<1>9. /\ LocksKept(p) /\ semfs_dirlock' \in Proc \cup {NONE} /\ semfs_tablelock' \in Proc \cup {NONE}
      /\ sems_lock' \in [SemNum -> Proc \cup {NONE}]
  BY Zenon, <1>1, <1>2, <1>3, LockMoves
<1>10. ASSUME Others(p), pc'[p] = "idle" PROVE SlotOK(n)'
  <2>1. ~OtherWorking(p, {"linked"}, n)
    BY Zenon, <1>3, TableWorksAlone
  <2>2. /\ Working(Unlinked, n)' <=> Working(Unlinked, n)
        /\ Working({"creat_getvnode"}, n)' <=> Working({"creat_getvnode"}, n)
        /\ Working({"drop"}, n)' <=> Working({"drop"}, n)
        /\ Working({"leave"}, n)' <=> Working({"leave"}, n)
        /\ ~Working({"linked"}, n)'
    BY Zenon, <1>0, <1>1, <1>10, <2>1, WorkingAfter DEF Unlinked
  <2>3. Keep(n) => InDirectory(n) /\ ~Working({"leave"}, n)
    <3>1. Keep(n) => InDirectory(n) /\ ~Working(Unlinked, n)
      BY Zenon, <1>3, <1>4 DEF SlotOK, Keep
    <3> QED
      BY Zenon, <3>1 DEF Working, Unlinked
  <2> QED
    BY Zenon, <1>3, <1>4, <1>5, <1>6, <1>7, <2>2, <2>3 DEF SlotOK, Keep
<1> QED
  <2>1. loc[p].semnum = n /\ Goto(p, "idle") /\ Locals(p, NONE) /\ UNCHANGED <<semfs_dents, fault>>
    BY Zenon, <1>0, <1>1
  <2> QED
    BY ZenonT(60), <1>2, <1>5, <1>6, <1>7, <1>8, <1>9, <1>10, <2>1, WorkDone
-----------------------------------------------------------------------------
\* An entry of the directory becomes a hole.
LEMMA EntryHole ==
    ASSUME SemFSInv, NEW i, NEW n, Entry(i, n), semfs_dents' = [semfs_dents EXCEPT ![i] = NONE]
    PROVE  /\ semfs_dents' \in Seq(Dent \cup {NONE}) /\ NamesUnique' /\ ~InDirectory(n)'
           /\ \A m : m # n => (InDirectory(m)' <=> InDirectory(m))
<1>1. semfs_dents \in Seq(Dent \cup {NONE}) /\ NamesUnique /\ NONE \in Dent \cup {NONE}
  BY Zenon DEF SemFSInv, TypeOK
<1>2. i \in DOMAIN semfs_dents /\ semfs_dents[i] # NONE /\ semfs_dents[i].semd_semnum = n
  BY Zenon DEF Entry
<1>3. /\ semfs_dents' \in Seq(Dent \cup {NONE}) /\ DOMAIN semfs_dents' = DOMAIN semfs_dents /\ semfs_dents'[i] = NONE
      /\ \A m \in DOMAIN semfs_dents \ {i} : semfs_dents'[m] = semfs_dents[m]
  BY Zenon, <1>1, <1>2, PutAt
<1>4. NamesUnique'
  BY <1>1, <1>3 DEF NamesUnique
<1>5. ~InDirectory(n)'
  BY Zenon, <1>1, <1>2, <1>3 DEF NamesUnique, InDirectory
<1>6. ASSUME NEW m, m # n PROVE InDirectory(m)' <=> InDirectory(m)
  BY Zenon, <1>2, <1>3, <1>6 DEF InDirectory
<1> QED
  BY Zenon, <1>3, <1>4, <1>5, <1>6

\* A new entry goes into the first hole or to the end.
LEMMA EntryAdded ==
    ASSUME SemFSInv, NEW nm \in Name, Found(nm) = {}, NEW n \in SemNum, ~InDirectory(n),
           NEW i, i = FirstHole(semfs_dents),
           semfs_dents' = SetOrAdd(semfs_dents, i, [semd_name |-> nm, semd_semnum |-> n])
    PROVE  /\ i \in Nat /\ semfs_dents' \in Seq(Dent \cup {NONE}) /\ NamesUnique' /\ Entry(i, n)' /\ InDirectory(n)'
           /\ \A m : m # n => (InDirectory(m)' <=> InDirectory(m))
<1> DEFINE e == [semd_name |-> nm, semd_semnum |-> n]
<1>1. semfs_dents \in Seq(Dent \cup {NONE}) /\ NamesUnique
  BY Zenon DEF SemFSInv, TypeOK
<1>2. e \in Dent /\ e.semd_name = nm /\ e.semd_semnum = n
  BY Zenon DEF Dent
<1>3. e # NONE
  BY Zenon, <1>2, SemFSAssumption
<1> HIDE DEF e
<1>4. /\ i \in Nat /\ semfs_dents' \in Seq(Dent \cup {NONE}) /\ DOMAIN semfs_dents' = DOMAIN semfs_dents \cup {i}
      /\ semfs_dents'[i] = e
      /\ \A m \in DOMAIN semfs_dents : m # i => semfs_dents'[m] = semfs_dents[m]
  <2>1. e \in Dent \cup {NONE} /\ semfs_dents' = SetOrAdd(semfs_dents, i, e)
    BY Zenon, <1>2 DEF e
  <2>2. PICK s, S : s = semfs_dents /\ S = Dent \cup {NONE}
    BY Zenon
  <2>3. s \in Seq(S) /\ e \in S
    BY Zenon, <1>1, <2>1, <2>2
  <2>4. /\ FirstHole(s) \in Nat
        /\ SetOrAdd(s, FirstHole(s), e) \in Seq(S)
        /\ DOMAIN SetOrAdd(s, FirstHole(s), e) = DOMAIN s \cup {FirstHole(s)}
        /\ SetOrAdd(s, FirstHole(s), e)[FirstHole(s)] = e
    BY Zenon, <2>3, SetOrAddFacts
  <2>5. ASSUME NEW m \in DOMAIN s, m # FirstHole(s) PROVE SetOrAdd(s, FirstHole(s), e)[m] = s[m]
    BY Zenon, <2>3, <2>5, SetOrAddKeeps
  <2> QED
    BY Zenon, <2>1, <2>2, <2>4, <2>5
<1>5. i \notin DOMAIN semfs_dents \/ semfs_dents[i] = NONE
  BY Zenon, <1>1, HoleFacts
<1>6. \A j \in DOMAIN semfs_dents : semfs_dents[j] # NONE => semfs_dents[j].semd_name # nm /\ semfs_dents[j].semd_semnum # n
  BY Zenon DEF Found, InDirectory
<1>7. NamesUnique'
  BY <1>1, <1>2, <1>4, <1>5, <1>6 DEF NamesUnique
<1>8. Entry(i, n)' /\ InDirectory(n)'
  BY Zenon, <1>2, <1>3, <1>4 DEF Entry, InDirectory
<1>9. ASSUME NEW m, m # n PROVE InDirectory(m)' <=> InDirectory(m)
  BY Zenon, <1>2, <1>4, <1>5, <1>9 DEF InDirectory
<1> QED
  BY Zenon, <1>4, <1>7, <1>8, <1>9

\* What the holder of semfs_dirlock finds in the directory is there and linked.
LEMMA InDirectoryLive ==
    ASSUME SemFSInv, NEW p \in Proc, pc[p] \in {"lookup_getvnode", "getsembynum", "unlink", "insert"},
           NEW n \in SemNum, InDirectory(n)
    PROVE  Live(n) /\ semfs_sems[n].sems_linked
<1>1. semfs_dirlock = p
  BY Zenon DEF SemFSInv, LocksOK, DirPcs, RemovePcs
<1>2. ~Working(Unlinked, n)
  BY Zenon, <1>1, DirAlone DEF Working, DirPcs, RemovePcs, Unlinked
<1> QED
  BY Zenon, <1>2 DEF SemFSInv, SlotOK

\* References that stay.
LEMMA SameReferences ==
    ASSUME SemFSInv, UNCHANGED <<vn_refcount, open>>
    PROVE  /\ RefcountExact' /\ open' \in [Proc -> SemNum \cup {NONE}] /\ vn_refcount' \in [SemNum -> Nat]
           /\ \A q : open'[q] = open[q]
           /\ \A m : vn_refcount'[m] = vn_refcount[m]
  BY Zenon DEF SemFSInv, RefcountExact, TypeOK

LEMMA UnlinkStep ==
    ASSUME SemFSInv, NEW p \in Proc, RemoveUnlink(p)
    PROVE  SemFSInv'
<1>0. PICK n, r, o : n = loc[p].semnum /\ r = loc[p] /\ o = open[p]
  BY Zenon
<1>1. /\ pc[p] = "unlink" /\ TypeOK /\ LocalsOK(p) /\ LocksOK(p) /\ sems_lock[n] = NONE
      /\ sems_lock' = [sems_lock EXCEPT ![n] = p]
      /\ semfs_sems' = [semfs_sems EXCEPT ![n].sems_linked = FALSE] /\ Goto(p, "hasvnode")
      /\ UNCHANGED <<semfs_dents, vn_refcount, semfs_dirlock, semfs_tablelock, loc, open, fault>>
  BY Zenon, <1>0 DEF RemoveUnlink, SemFSInv
<1>2. n \in SemNum /\ r \in [semnum : SemNum, dent : Nat] /\ Entry(r.dent, n)
  BY Zenon, <1>0, <1>1 DEF LocalsOK, LocalsAt, RemovePcs
<1>3. InDirectory(n) /\ SlotOK(n) /\ semfs_dirlock = p
  BY Zenon, <1>1, <1>2 DEF Entry, InDirectory, SemFSInv, LocksOK, DirPcs, RemovePcs
<1>4. Live(n) /\ semfs_sems[n].sems_linked
  BY Zenon, <1>1, <1>2, <1>3, InDirectoryLive
<1> DEFINE h == semfs_sems[n].sems_hasvnode
<1>5. h \in BOOLEAN /\ semfs_sems' = Flags(n, h, FALSE)
  BY Zenon, <1>1, <1>4, LiveType, FlagForms
<1>6. /\ semfs_sems' \in Seq(Sem \cup {NONE}) /\ Len(semfs_sems') <= SEMFS_ROOTDIR
      /\ Live(n)' /\ semfs_sems'[n].sems_hasvnode = h /\ semfs_sems'[n].sems_linked = FALSE
      /\ \A m \in SemNum \ {n} : (Live(m)' <=> Live(m)) /\ (Live(m) => semfs_sems'[m] = semfs_sems[m])
  BY Zenon, <1>1, <1>4, <1>5, FlagsSet
<1>7. /\ semfs_dents' \in Seq(Dent \cup {NONE}) /\ NamesUnique'
      /\ \A m : InDirectory(m)' <=> InDirectory(m)
  BY Zenon, <1>1, SameDirectory
<1>8. /\ RefcountExact' /\ open' \in [Proc -> SemNum \cup {NONE}] /\ vn_refcount' \in [SemNum -> Nat]
      /\ \A q : open'[q] = open[q]
      /\ \A m : vn_refcount'[m] = vn_refcount[m]
  BY Zenon, <1>1, SameReferences
<1>9. /\ LocksKept(p) /\ semfs_dirlock' \in Proc \cup {NONE} /\ semfs_tablelock' \in Proc \cup {NONE}
      /\ sems_lock' \in [SemNum -> Proc \cup {NONE}]
  BY Zenon, <1>1, <1>2, LockMoves
<1>10. "hasvnode" \in Pcs /\ "hasvnode" \in DirPcs /\ "hasvnode" \in SemlockPcs /\ "hasvnode" # "linked" /\ pc[p] \notin WorkPcs
  BY Zenon, <1>1 DEF Pcs, DirPcs, RemovePcs, SemlockPcs, WorkPcs
<1>11. r \in Locs /\ r.semnum = n /\ Locals(p, r)
  BY Zenon, <1>0, <1>1, <1>2 DEF Locs, Locals, TypeOK
<1>12. /\ semfs_dirlock' = p /\ semfs_tablelock' # p
       /\ \A m \in SemNum : sems_lock'[m] = p <=> r.semnum = m
  <2>1. semfs_tablelock # p /\ \A m \in SemNum : sems_lock[m] # p
    BY Zenon, <1>1 DEF LocksOK, SemlockPcs
  <2>2. \A m \in SemNum : sems_lock'[m] = IF m = n THEN p ELSE sems_lock[m]
    BY Zenon, <1>1, <1>2 DEF TypeOK
  <2> QED
    BY Zenon, <1>1, <1>3, <1>11, <2>1, <2>2
<1>13. LocalsAt("hasvnode", r, o)'
  <2>1. Entry(r.dent, r.semnum)'
    BY Zenon, <1>1, <1>2, <1>11 DEF Entry
  <2> QED
    BY Zenon, <1>2, <2>1 DEF LocalsAt, NumPcs
<1>14. ASSUME Others(p), pc'[p] = "hasvnode", loc'[p] = r PROVE SlotOK(n)'
  <2>1. /\ ~OtherWorking(p, {"creat_getvnode"}, n) /\ ~OtherWorking(p, {"drop"}, n) /\ ~OtherWorking(p, {"leave"}, n)
    BY Zenon, <1>3, DirWorksAlone
  <2>2. /\ Working(Unlinked, n)' /\ ~Working({"creat_getvnode"}, n)'
        /\ Working({"linked"}, n)' <=> Working({"linked"}, n)
        /\ ~Working({"drop"}, n)' /\ ~Working({"leave"}, n)'
    BY Zenon, <1>1, <1>11, <1>14, <2>1, WorkingAfter DEF Unlinked
  <2> QED
    BY Zenon, <1>3, <1>4, <1>6, <1>7, <1>8, <2>2 DEF SlotOK
<1> QED
  <2>1. o = open'[p] /\ Goto(p, "hasvnode") /\ UNCHANGED <<semfs_dents, fault>>
    BY Zenon, <1>0, <1>1
  <2> QED
    BY ZenonT(60), <1>2, <1>6, <1>7, <1>8, <1>9, <1>10, <1>11, <1>12, <1>13, <1>14, <2>1, WorkStep
-----------------------------------------------------------------------------
\* The rest of semfs_remove.
LEMMA RemoveFacts ==
    ASSUME SemFSInv, NEW p \in Proc, pc[p] \in {"hasvnode", "drop", "leave"}, NEW n, n = loc[p].semnum
    PROVE  /\ n \in SemNum /\ SlotOK(n) /\ semfs_dirlock = p /\ sems_lock[n] = p /\ semfs_tablelock # p
           /\ \A m \in SemNum \ {n} : sems_lock[m] # p
           /\ loc[p] \in [semnum : SemNum, dent : Nat] /\ Entry(loc[p].dent, n)
           /\ InDirectory(n) /\ Working(Unlinked, n)
           /\ ~OtherWorking(p, Unlinked, n)
           /\ ~OtherWorking(p, {"creat_getvnode"}, n) /\ ~OtherWorking(p, {"drop"}, n) /\ ~OtherWorking(p, {"leave"}, n)
<1>1. LocalsOK(p) /\ LocksOK(p)
  BY Zenon DEF SemFSInv
<1>2. n \in SemNum /\ loc[p] \in [semnum : SemNum, dent : Nat] /\ Entry(loc[p].dent, n)
  BY Zenon, <1>1 DEF LocalsOK, LocalsAt, RemovePcs
<1>3. /\ semfs_dirlock = p /\ sems_lock[n] = p /\ semfs_tablelock # p
      /\ \A m \in SemNum \ {n} : sems_lock[m] # p
  BY Zenon, <1>1, <1>2 DEF LocksOK, DirPcs, RemovePcs, SemlockPcs
<1>4. InDirectory(n) /\ SlotOK(n) /\ Working(Unlinked, n)
  BY Zenon, <1>2 DEF Entry, InDirectory, Working, SemFSInv, Unlinked
<1> QED
  BY Zenon, <1>2, <1>3, <1>4, DirWorksAlone

LEMMA RemoveEntryStep ==
    ASSUME SemFSInv, NEW p \in Proc, pc[p] \in {"hasvnode", "drop", "leave"}, NEW n, n = loc[p].semnum, RemoveEntry(p),
           semfs_sems' \in Seq(Sem \cup {NONE}), Len(semfs_sems') <= SEMFS_ROOTDIR,
           \A m \in SemNum \ {n} : (Live(m)' <=> Live(m)) /\ (Live(m) => semfs_sems'[m] = semfs_sems[m]),
           \/ /\ Live(n)' /\ Live(n) /\ semfs_sems'[n] = semfs_sems[n]
              /\ vn_refcount[n] > 0 \/ Working({"linked"}, n)
           \/ ~Live(n)' /\ vn_refcount[n] = 0 /\ semfs_tablelock = NONE
    PROVE  SemFSInv'
<1>0. PICK i : i = loc[p].dent
  BY Zenon
<1>1. /\ semfs_dents' = [semfs_dents EXCEPT ![i] = NONE] /\ sems_lock' = [sems_lock EXCEPT ![n] = NONE]
      /\ semfs_dirlock' = NONE /\ Goto(p, "idle") /\ Locals(p, NONE)
      /\ UNCHANGED <<vn_refcount, semfs_tablelock, open, fault>> /\ TypeOK
  BY Zenon, <1>0 DEF RemoveEntry, Return, SemFSInv
<1>2. /\ n \in SemNum /\ SlotOK(n) /\ semfs_dirlock = p /\ sems_lock[n] = p /\ semfs_tablelock # p
      /\ \A m \in SemNum \ {n} : sems_lock[m] # p
      /\ Entry(i, n) /\ Working(Unlinked, n)
      /\ ~OtherWorking(p, Unlinked, n)
      /\ ~OtherWorking(p, {"creat_getvnode"}, n) /\ ~OtherWorking(p, {"drop"}, n) /\ ~OtherWorking(p, {"leave"}, n)
  BY Zenon, <1>0, RemoveFacts
<1>3. /\ semfs_dents' \in Seq(Dent \cup {NONE}) /\ NamesUnique' /\ ~InDirectory(n)'
      /\ \A m : m # n => (InDirectory(m)' <=> InDirectory(m))
  BY Zenon, <1>1, <1>2, EntryHole
<1>4. /\ RefcountExact' /\ open' \in [Proc -> SemNum \cup {NONE}] /\ vn_refcount' \in [SemNum -> Nat]
      /\ \A q : open'[q] = open[q]
      /\ \A m : vn_refcount'[m] = vn_refcount[m]
  BY Zenon, <1>1, SameReferences
<1>5. /\ LocksKept(p) /\ semfs_dirlock' \in Proc \cup {NONE} /\ semfs_tablelock' \in Proc \cup {NONE}
      /\ sems_lock' \in [SemNum -> Proc \cup {NONE}]
  BY Zenon, <1>1, <1>2, LockMoves
<1>6. semfs_dirlock' # p /\ semfs_tablelock' # p /\ \A m \in SemNum : sems_lock'[m] # p
  BY ZenonT(60), <1>1, <1>2, SemFSAssumption DEF TypeOK
<1>7. ASSUME Others(p), pc'[p] = "idle" PROVE SlotOK(n)'
  <2>1. /\ ~Working(Unlinked, n)' /\ ~Working({"creat_getvnode"}, n)'
        /\ ~Working({"drop"}, n)' /\ ~Working({"leave"}, n)'
        /\ Working({"linked"}, n)' <=> Working({"linked"}, n)
    BY Zenon, <1>2, <1>7, WorkingAfter DEF Unlinked
  <2>2. CASE /\ Live(n)' /\ Live(n) /\ semfs_sems'[n] = semfs_sems[n]
             /\ vn_refcount[n] > 0 \/ Working({"linked"}, n)
    BY Zenon, <1>2, <1>3, <1>4, <2>1, <2>2 DEF SlotOK
  <2>3. CASE ~Live(n)' /\ vn_refcount[n] = 0 /\ semfs_tablelock = NONE
    <3>1. ~Working({"linked"}, n)
      BY Zenon, <2>3, TableFree
    <3> QED
      BY ZenonT(60), <1>3, <1>4, <2>1, <2>3, <3>1 DEF SlotOK
  <2> QED
    BY Zenon, <2>2, <2>3
<1> QED
  BY ZenonT(60), <1>1, <1>2, <1>3, <1>4, <1>5, <1>6, <1>7, WorkDone

\* A panic: only fault changes.
LEMMA PanicStep ==
    ASSUME SemFSInv, NEW why \in {"lock_do_i_hold", "unset vnode", "null entry", "destroyed sem"}, Panic(why)
    PROVE  SemFSInv'
<1>1. UNCHANGED <<semfs_dents, semfs_sems, vn_refcount, semfs_dirlock, semfs_tablelock, sems_lock, pc, loc, open>>
  BY Zenon DEF Panic, arrays, locks
<1>2. TypeOK'
  BY Zenon, <1>1 DEF SemFSInv, TypeOK, Panic
<1>3. RefcountExact' /\ NamesUnique'
  BY Zenon, <1>1 DEF SemFSInv, RefcountExact, NamesUnique
<1>4. ASSUME NEW q \in Proc PROVE LocksOK(q)' /\ LocalsOK(q)'
  <2>1. LocksOK(q) /\ LocalsOK(q)
    BY Zenon DEF SemFSInv
  <2>2. LocksOK(q)'
    BY Zenon, <1>1, <2>1 DEF LocksOK
  <2>3. LocalsOK(q)'
    BY Zenon, <1>1, <2>1 DEF LocalsOK, LocalsAt, Found, Entry, InDirectory
  <2> QED
    BY Zenon, <2>2, <2>3
<1>5. ASSUME NEW n \in SemNum PROVE SlotOK(n)'
  <2>1. SlotOK(n)
    BY Zenon DEF SemFSInv
  <2> QED
    BY Zenon, <1>1, <2>1 DEF SlotOK, Live, InDirectory, Working
<1> QED
  BY Zenon, <1>2, <1>3, <1>4, <1>5 DEF SemFSInv

LEMMA RemoveTestStep ==
    ASSUME SemFSInv, NEW p \in Proc, RemoveTest(p)
    PROVE  SemFSInv'
<1>0. PICK n, r, o : n = loc[p].semnum /\ r = loc[p] /\ o = open[p]
  BY Zenon
<1>1. pc[p] = "hasvnode" /\ TypeOK
  BY Zenon DEF RemoveTest, SemFSInv
<1>2. CASE ~Live(n)
  <2>1. Panic("destroyed sem")
    BY Zenon, <1>0, <1>2 DEF RemoveTest
  <2> QED
    BY Zenon, <2>1, PanicStep
<1>3. CASE Live(n)
  <2>0. PICK l : l = IF InUse(n) THEN "leave" ELSE "drop"
    BY Zenon
  <2>1. Goto(p, l) /\ UNCHANGED <<arrays, vn_refcount, locks, loc, open, fault>>
    BY Zenon, <1>0, <1>3, <2>0 DEF RemoveTest
  <2>2. /\ n \in SemNum /\ SlotOK(n) /\ semfs_dirlock = p /\ sems_lock[n] = p /\ semfs_tablelock # p
        /\ \A m \in SemNum \ {n} : sems_lock[m] # p
        /\ r \in [semnum : SemNum, dent : Nat] /\ Entry(r.dent, n)
        /\ InDirectory(n) /\ Working(Unlinked, n)
        /\ ~OtherWorking(p, {"creat_getvnode"}, n) /\ ~OtherWorking(p, {"drop"}, n) /\ ~OtherWorking(p, {"leave"}, n)
    BY Zenon, <1>0, <1>1, RemoveFacts
  <2>3. (l = "leave" <=> vn_refcount[n] > 0) /\ vn_refcount[n] \in Nat /\ ~semfs_sems[n].sems_linked
    BY Zenon, <1>1, <1>3, <2>0, <2>2 DEF SlotOK, InUse, TypeOK
  <2>4. l \in {"leave", "drop"} /\ (l = "drop" => vn_refcount[n] = 0)
    <3>1. l \in {"leave", "drop"} /\ (l = "drop" => l # "leave")
      BY Zenon, <2>0
    <3>2. ~(vn_refcount[n] > 0) => vn_refcount[n] = 0
      BY <2>3
    <3> QED
      BY Zenon, <2>3, <3>1, <3>2
  <2>5. UNCHANGED <<semfs_dents, semfs_sems, semfs_dirlock, semfs_tablelock, sems_lock>>
    BY Zenon, <2>1 DEF arrays, locks
  <2>6. /\ semfs_sems' \in Seq(Sem \cup {NONE}) /\ Len(semfs_sems') <= SEMFS_ROOTDIR
        /\ \A m : Live(m)' <=> Live(m)
        /\ \A m : semfs_sems'[m] = semfs_sems[m]
    BY Zenon, <2>5, SameSems
  <2>7. /\ semfs_dents' \in Seq(Dent \cup {NONE}) /\ NamesUnique'
        /\ \A m : InDirectory(m)' <=> InDirectory(m)
    BY Zenon, <2>5, SameDirectory
  <2>8. /\ RefcountExact' /\ open' \in [Proc -> SemNum \cup {NONE}] /\ vn_refcount' \in [SemNum -> Nat]
        /\ \A q : open'[q] = open[q]
        /\ \A m : vn_refcount'[m] = vn_refcount[m]
    BY Zenon, <2>1, SameReferences
  <2>9. /\ LocksKept(p) /\ semfs_dirlock' \in Proc \cup {NONE} /\ semfs_tablelock' \in Proc \cup {NONE}
        /\ sems_lock' \in [SemNum -> Proc \cup {NONE}]
    BY Zenon, <2>1, SameLocks
  <2>10. l \in Pcs /\ l \in DirPcs /\ l \in SemlockPcs /\ l # "linked"
    BY Zenon, <2>4 DEF Pcs, DirPcs, RemovePcs, SemlockPcs
  <2>11. r \in Locs /\ r.semnum = n /\ Locals(p, r)
    BY Zenon, <1>0, <1>1, <2>1, <2>2 DEF Locs, Locals, TypeOK
  <2>12. semfs_dirlock' = p /\ semfs_tablelock' # p /\ \A m \in SemNum : sems_lock'[m] = p <=> r.semnum = m
    BY Zenon, <2>2, <2>5, <2>11
  <2>13. LocalsAt(l, r, o)'
    <3>1. Entry(r.dent, r.semnum)'
      BY Zenon, <2>2, <2>5, <2>11 DEF Entry
    <3> QED
      BY Zenon, <2>2, <2>4, <3>1 DEF LocalsAt, NumPcs
  <2>14. ASSUME Others(p), pc'[p] = l, loc'[p] = r PROVE SlotOK(n)'
    <3>1. /\ Working(Unlinked, n)' /\ ~Working({"creat_getvnode"}, n)'
          /\ Working({"drop"}, n)' => l = "drop"
          /\ Working({"leave"}, n)' => l = "leave"
          /\ Working({"linked"}, n)' <=> Working({"linked"}, n)
      BY Zenon, <1>1, <2>2, <2>4, <2>11, <2>14, WorkingAfter DEF Unlinked
    <3> QED
      BY Zenon, <2>2, <2>3, <2>4, <2>6, <2>7, <2>8, <3>1 DEF SlotOK
  <2>15. o = open'[p] /\ UNCHANGED semfs_dents /\ UNCHANGED fault
    BY Zenon, <1>0, <2>1, <2>5
  <2>17. /\ l \in Pcs /\ Goto(p, l) /\ Locals(p, r) /\ r \in Locs /\ LocalsAt(l, r, o)'
         /\ pc[p] \in WorkPcs => loc[p].semnum = n
         /\ l \in WorkPcs => r.semnum = n
         /\ semfs_dirlock' = p <=> l \in DirPcs
         /\ semfs_tablelock' = p <=> l = "linked"
         /\ \A m \in SemNum : sems_lock'[m] = p <=> l \in SemlockPcs /\ r.semnum = m
         /\ Others(p) /\ pc'[p] = l /\ loc'[p] = r => SlotOK(n)'
    BY Zenon, <1>0, <2>1, <2>10, <2>11, <2>12, <2>13, <2>14
  <2>18. /\ \A m \in SemNum \ {n} : (Live(m)' <=> Live(m)) /\ (Live(m) => semfs_sems'[m] = semfs_sems[m])
         /\ \A m \in SemNum \ {n} : InDirectory(m)' <=> InDirectory(m)
         /\ \A m \in SemNum \ {n} : vn_refcount'[m] = vn_refcount[m]
         /\ \A q \in Proc \ {p} : open'[q] = open[q]
    BY Zenon, <2>6, <2>7, <2>8
  <2>19. /\ semfs_sems' \in Seq(Sem \cup {NONE}) /\ Len(semfs_sems') <= SEMFS_ROOTDIR
         /\ semfs_dents' \in Seq(Dent \cup {NONE}) /\ NamesUnique' /\ RefcountExact'
         /\ open' \in [Proc -> SemNum \cup {NONE}] /\ vn_refcount' \in [SemNum -> Nat] /\ n \in SemNum
    BY Zenon, <2>2, <2>6, <2>7, <2>8
  <2> QED
    BY ZenonT(60), <2>9, <2>15, <2>17, <2>18, <2>19, WorkStep
<1> QED
  BY Zenon, <1>2, <1>3

LEMMA RemoveLeaveStep ==
    ASSUME SemFSInv, NEW p \in Proc, RemoveLeave(p)
    PROVE  SemFSInv'
<1>0. PICK n : n = loc[p].semnum
  BY Zenon
<1>1. pc[p] = "leave" /\ TypeOK
  BY Zenon DEF RemoveLeave, SemFSInv
<1>2. CASE ~Live(n)
  <2>1. Panic("destroyed sem")
    BY Zenon, <1>0, <1>2 DEF RemoveLeave
  <2> QED
    BY Zenon, <2>1, PanicStep
<1>3. CASE Live(n)
  <2>1. RemoveEntry(p) /\ UNCHANGED semfs_sems
    BY Zenon, <1>0, <1>3 DEF RemoveLeave
  <2>2. /\ semfs_sems' \in Seq(Sem \cup {NONE}) /\ Len(semfs_sems') <= SEMFS_ROOTDIR
        /\ \A m : Live(m)' <=> Live(m)
        /\ \A m : semfs_sems'[m] = semfs_sems[m]
    BY Zenon, <2>1, SameSems
  <2>3. n \in SemNum /\ SlotOK(n)
    BY ZenonT(60), <1>0, <1>1, RemoveFacts
  <2>4. Working({"leave"}, n)
    BY Zenon, <1>0, <1>1 DEF Working
  <2>5. vn_refcount[n] > 0 \/ Working({"linked"}, n)
    BY Zenon, <1>3, <2>3, <2>4 DEF SlotOK
  <2> QED
    BY ZenonT(60), <1>0, <1>1, <1>3, <2>1, <2>2, <2>5, RemoveEntryStep
<1> QED
  BY Zenon, <1>2, <1>3

LEMMA RemoveDropStep ==
    ASSUME SemFSInv, NEW p \in Proc, RemoveDrop(p)
    PROVE  SemFSInv'
<1>0. PICK n : n = loc[p].semnum
  BY Zenon
<1>1. pc[p] = "drop" /\ TypeOK /\ semfs_tablelock = NONE
  BY Zenon DEF RemoveDrop, SemFSInv
<1>2. CASE ~Live(n)
  <2>1. Panic("destroyed sem")
    BY Zenon, <1>0, <1>2 DEF RemoveDrop
  <2> QED
    BY Zenon, <2>1, PanicStep
<1>3. CASE Live(n)
  <2>1. RemoveEntry(p) /\ semfs_sems' = [semfs_sems EXCEPT ![n] = NONE] /\ NONE \in Sem \cup {NONE}
    BY Zenon, <1>0, <1>3 DEF RemoveDrop
  <2>2. /\ semfs_sems' \in Seq(Sem \cup {NONE}) /\ Len(semfs_sems') <= SEMFS_ROOTDIR /\ ~Live(n)'
        /\ \A m \in SemNum \ {n} : (Live(m)' <=> Live(m)) /\ (Live(m) => semfs_sems'[m] = semfs_sems[m])
    BY Zenon, <1>1, <1>3, <2>1, SlotSet
  <2>3. n \in SemNum /\ SlotOK(n)
    BY ZenonT(60), <1>0, <1>1, RemoveFacts
  <2>4. vn_refcount[n] = 0
    BY Zenon, <1>0, <1>1, <2>3 DEF SlotOK, Working
  <2> QED
    BY Zenon, <1>0, <1>1, <2>1, <2>2, <2>4, RemoveEntryStep
<1> QED
  BY Zenon, <1>2, <1>3
-----------------------------------------------------------------------------
\* semfs_getvnode by the holder of semfs_dirlock, for a semaphore that is in
\* the directory and linked afterwards.
LEMMA GetvnodeStep ==
    ASSUME SemFSInv, NEW p \in Proc, pc[p] \in {"lookup_getvnode", "creat_getvnode"}, semfs_tablelock = NONE,
           NEW n \in SemNum, n = loc[p].semnum, semfs_getvnode(p, n), InDirectory(n),
           semfs_sems' \in Seq(Sem \cup {NONE}), Len(semfs_sems') <= SEMFS_ROOTDIR,
           \A m \in SemNum \ {n} : (Live(m)' <=> Live(m)) /\ (Live(m) => semfs_sems'[m] = semfs_sems[m]),
           Live(n)', semfs_sems'[n].sems_hasvnode = TRUE, semfs_sems'[n].sems_linked = TRUE
    PROVE  SemFSInv'
<1>1. /\ vn_refcount' = [vn_refcount EXCEPT ![n] = @ + 1] /\ open' = [open EXCEPT ![p] = n]
      /\ semfs_dirlock' = NONE /\ Goto(p, "idle") /\ Locals(p, NONE) /\ TypeOK /\ LocksOK(p) /\ LocalsOK(p)
      /\ UNCHANGED semfs_dents /\ UNCHANGED semfs_tablelock /\ UNCHANGED sems_lock /\ UNCHANGED fault
  BY Zenon DEF semfs_getvnode, Return, SemFSInv
<1>2. open[p] = NONE
  BY Zenon, <1>1 DEF LocalsOK, LocalsAt
<1>3. /\ RefcountExact' /\ open' \in [Proc -> SemNum \cup {NONE}] /\ vn_refcount' \in [SemNum -> Nat]
      /\ vn_refcount'[n] > 0
      /\ \A q \in Proc \ {p} : open'[q] = open[q]
      /\ \A m \in SemNum \ {n} : vn_refcount'[m] = vn_refcount[m]
  BY Zenon, <1>1, <1>2, Opened DEF SemFSInv
<1>4. /\ semfs_dents' \in Seq(Dent \cup {NONE}) /\ NamesUnique'
      /\ \A m : InDirectory(m)' <=> InDirectory(m)
  BY Zenon, <1>1, SameDirectory
<1>5. semfs_dirlock = p /\ semfs_dirlock' # p /\ semfs_tablelock' # p /\ \A m \in SemNum : sems_lock'[m] # p
  BY Zenon, <1>1, SemFSAssumption DEF LocksOK, DirPcs, RemovePcs, SemlockPcs
<1>6. /\ LocksKept(p) /\ semfs_dirlock' \in Proc \cup {NONE} /\ semfs_tablelock' \in Proc \cup {NONE}
      /\ sems_lock' \in [SemNum -> Proc \cup {NONE}]
  BY Zenon, <1>1, <1>5, LockMoves
<1>7. ASSUME Others(p), pc'[p] = "idle" PROVE SlotOK(n)'
  <2>1. /\ ~OtherWorking(p, Unlinked, n)
        /\ ~OtherWorking(p, {"creat_getvnode"}, n) /\ ~OtherWorking(p, {"drop"}, n) /\ ~OtherWorking(p, {"leave"}, n)
        /\ ~OtherWorking(p, {"linked"}, n)
    BY Zenon, <1>5, DirWorksAlone, TableWorksAlone
  <2>2. /\ ~Working(Unlinked, n)' /\ ~Working({"creat_getvnode"}, n)'
        /\ ~Working({"drop"}, n)' /\ ~Working({"leave"}, n)' /\ ~Working({"linked"}, n)'
    BY Zenon, <1>7, <2>1, WorkingAfter DEF Unlinked
  <2> QED
    BY ZenonT(60), <1>3, <1>4, <2>2 DEF SlotOK
<1> QED
  BY ZenonT(60), <1>1, <1>3, <1>4, <1>5, <1>6, <1>7, WorkDone

LEMMA LookupGetvnodeStep ==
    ASSUME SemFSInv, NEW p \in Proc, LookupGetvnode(p)
    PROVE  SemFSInv'
<1>0. PICK n : n = loc[p].semnum
  BY Zenon
<1>1. pc[p] = "lookup_getvnode" /\ semfs_tablelock = NONE /\ TypeOK /\ LocalsOK(p)
  BY Zenon DEF LookupGetvnode, SemFSInv
<1>2. n \in SemNum /\ InDirectory(n)
  BY Zenon, <1>0, <1>1 DEF LocalsOK, LocalsAt, NumPcs
<1>3. Live(n) /\ semfs_sems[n].sems_linked /\ SlotOK(n)
  BY Zenon, <1>1, <1>2, InDirectoryLive DEF SemFSInv
<1>4. CASE vn_refcount[n] > 0 /\ semfs_getvnode(p, n) /\ UNCHANGED semfs_sems
  <2>1. /\ semfs_sems' \in Seq(Sem \cup {NONE}) /\ Len(semfs_sems') <= SEMFS_ROOTDIR
        /\ \A m : Live(m)' <=> Live(m)
        /\ \A m : semfs_sems'[m] = semfs_sems[m]
    BY Zenon, <1>4, SameSems
  <2>2. semfs_sems[n].sems_hasvnode = TRUE /\ semfs_sems[n].sems_linked = TRUE
    <3>1. semfs_sems[n].sems_hasvnode
      BY Zenon, <1>3, <1>4 DEF SlotOK
    <3>2. semfs_sems[n].sems_hasvnode \in BOOLEAN /\ semfs_sems[n].sems_linked \in BOOLEAN
      BY Zenon, <1>1, <1>3, LiveType
    <3> QED
      BY Zenon, <1>3, <3>1, <3>2
  <2> QED
    BY Zenon, <1>0, <1>1, <1>2, <1>3, <1>4, <2>1, <2>2, GetvnodeStep
<1>5. CASE CreatFails(p) /\ UNCHANGED arrays
  BY Zenon, <1>1, <1>5, CreatFailsStep
<1>6. CASE semfs_getvnode(p, n) /\ semfs_sems' = [semfs_sems EXCEPT ![n].sems_hasvnode = TRUE]
  <2> DEFINE k == semfs_sems[n].sems_linked
  <2>1. k \in BOOLEAN /\ semfs_sems' = Flags(n, TRUE, k)
    BY Zenon, <1>1, <1>3, <1>6, LiveType, FlagForms
  <2>2. /\ semfs_sems' \in Seq(Sem \cup {NONE}) /\ Len(semfs_sems') <= SEMFS_ROOTDIR
        /\ Live(n)' /\ semfs_sems'[n].sems_hasvnode = TRUE /\ semfs_sems'[n].sems_linked = k
        /\ \A m \in SemNum \ {n} : (Live(m)' <=> Live(m)) /\ (Live(m) => semfs_sems'[m] = semfs_sems[m])
    BY Zenon, <1>1, <1>3, <2>1, FlagsSet
  <2>3. semfs_sems'[n].sems_linked = TRUE
    BY Zenon, <1>3, <2>1, <2>2
  <2> QED
    BY Zenon, <1>0, <1>1, <1>2, <1>6, <2>2, <2>3, GetvnodeStep
<1> QED
  BY Zenon, <1>0, <1>4, <1>5, <1>6 DEF LookupGetvnode

\* The end of semfs_creat.
LEMMA CreatGetvnodeStep ==
    ASSUME SemFSInv, NEW p \in Proc, CreatGetvnode(p)
    PROVE  SemFSInv'
<1>0. PICK n, i : n = loc[p].semnum /\ i = loc[p].dent
  BY Zenon
<1>1. pc[p] = "creat_getvnode" /\ semfs_tablelock = NONE /\ TypeOK /\ LocalsOK(p) /\ LocksOK(p)
  BY Zenon DEF CreatGetvnode, SemFSInv
<1>2. n \in SemNum /\ Entry(i, n) /\ InDirectory(n)
  <2>1. n \in SemNum /\ Entry(i, n)
    BY Zenon, <1>0, <1>1 DEF LocalsOK, LocalsAt
  <2> QED
    BY Zenon, <2>1 DEF Entry, InDirectory
<1>3. Live(n) /\ vn_refcount[n] = 0
  BY Zenon, <1>0, <1>1, <1>2 DEF SemFSInv, SlotOK, Working
<1>4. CASE /\ semfs_getvnode(p, n)
           /\ semfs_sems' = [semfs_sems EXCEPT ![n].sems_hasvnode = TRUE, ![n].sems_linked = TRUE]
  <2>1. semfs_sems' = Flags(n, TRUE, TRUE)
    BY Zenon, <1>1, <1>3, <1>4, FlagForms
  <2>2. /\ semfs_sems' \in Seq(Sem \cup {NONE}) /\ Len(semfs_sems') <= SEMFS_ROOTDIR
        /\ Live(n)' /\ semfs_sems'[n].sems_hasvnode = TRUE /\ semfs_sems'[n].sems_linked = TRUE
        /\ \A m \in SemNum \ {n} : (Live(m)' <=> Live(m)) /\ (Live(m) => semfs_sems'[m] = semfs_sems[m])
    BY Zenon, <1>1, <1>3, <2>1, FlagsSet
  <2> QED
    BY Zenon, <1>0, <1>1, <1>2, <1>4, <2>2, GetvnodeStep
<1>5. CASE CreatFails(p) /\ Uninsert(semfs_sems, n) /\ semfs_dents' = [semfs_dents EXCEPT ![i] = NONE]
  <2>1. /\ semfs_dirlock' = NONE /\ Goto(p, "idle") /\ Locals(p, NONE) /\ semfs_sems' = [semfs_sems EXCEPT ![n] = NONE]
        /\ UNCHANGED vn_refcount /\ UNCHANGED semfs_tablelock /\ UNCHANGED sems_lock /\ UNCHANGED open /\ UNCHANGED fault
        /\ NONE \in Sem \cup {NONE}
    BY Zenon, <1>5 DEF CreatFails, Return, Uninsert
  <2>2. /\ semfs_sems' \in Seq(Sem \cup {NONE}) /\ Len(semfs_sems') <= SEMFS_ROOTDIR /\ ~Live(n)'
        /\ \A m \in SemNum \ {n} : (Live(m)' <=> Live(m)) /\ (Live(m) => semfs_sems'[m] = semfs_sems[m])
    BY Zenon, <1>1, <1>3, <2>1, SlotSet
  <2>3. /\ semfs_dents' \in Seq(Dent \cup {NONE}) /\ NamesUnique' /\ ~InDirectory(n)'
        /\ \A m : m # n => (InDirectory(m)' <=> InDirectory(m))
    BY Zenon, <1>2, <1>5, EntryHole
  <2>4. /\ RefcountExact' /\ open' \in [Proc -> SemNum \cup {NONE}] /\ vn_refcount' \in [SemNum -> Nat]
        /\ \A q : open'[q] = open[q]
        /\ \A m : vn_refcount'[m] = vn_refcount[m]
    BY Zenon, <2>1, SameReferences
  <2>5. semfs_dirlock = p /\ semfs_dirlock' # p /\ semfs_tablelock' # p /\ \A m \in SemNum : sems_lock'[m] # p
    BY Zenon, <1>1, <2>1, SemFSAssumption DEF LocksOK, DirPcs, RemovePcs, SemlockPcs
  <2>6. /\ LocksKept(p) /\ semfs_dirlock' \in Proc \cup {NONE} /\ semfs_tablelock' \in Proc \cup {NONE}
        /\ sems_lock' \in [SemNum -> Proc \cup {NONE}]
    BY Zenon, <1>1, <1>2, <2>1, <2>5, LockMoves
  <2>7. ASSUME Others(p), pc'[p] = "idle" PROVE SlotOK(n)'
    <3>1. /\ ~OtherWorking(p, Unlinked, n)
          /\ ~OtherWorking(p, {"creat_getvnode"}, n) /\ ~OtherWorking(p, {"drop"}, n) /\ ~OtherWorking(p, {"leave"}, n)
          /\ ~OtherWorking(p, {"linked"}, n)
      BY Zenon, <1>1, <2>5, DirWorksAlone, TableWorksAlone
    <3>2. /\ ~Working(Unlinked, n)' /\ ~Working({"creat_getvnode"}, n)'
          /\ ~Working({"drop"}, n)' /\ ~Working({"leave"}, n)' /\ ~Working({"linked"}, n)'
      BY Zenon, <2>7, <3>1, WorkingAfter DEF Unlinked
    <3> QED
      BY ZenonT(60), <1>3, <2>2, <2>3, <2>4, <3>2 DEF SlotOK
  <2>8. loc[p].semnum = n
    BY Zenon, <1>0
  <2> QED
    BY Zenon, <1>2, <2>1, <2>2, <2>3, <2>4, <2>5, <2>6, <2>7, <2>8, WorkDone
<1> QED
  BY Zenon, <1>0, <1>4, <1>5 DEF CreatGetvnode
-----------------------------------------------------------------------------
\* The slot semfs_sem_insert takes is a number of the table, and nobody's.
LEMMA FreeSlot ==
    ASSUME SemFSInv, NEW p \in Proc, pc[p] = "insert", ~TooMany, NEW n, n = FirstHole(semfs_sems)
    PROVE  /\ n \in SemNum /\ ~Live(n) /\ vn_refcount[n] = 0 /\ ~InDirectory(n)
           /\ ~Working({"linked"}, n)
<1>1. semfs_sems \in Seq(Sem \cup {NONE}) /\ Len(semfs_sems) <= SEMFS_ROOTDIR
  BY Zenon DEF SemFSInv, TypeOK
<1>2. DOMAIN semfs_sems = 1 .. Len(semfs_sems) /\ Len(semfs_sems) \in Nat /\ Len(semfs_sems) # SEMFS_ROOTDIR
  BY <1>1 DEF TooMany
<1>3. \/ n \in DOMAIN semfs_sems /\ semfs_sems[n] = NONE
      \/ n = Len(semfs_sems) + 1 /\ n \notin DOMAIN semfs_sems
  BY Zenon, <1>1, HoleFacts
<1>4. n \in SemNum /\ ~Live(n)
  <2>1. ~Live(n)
    BY Zenon, <1>3 DEF Live
  <2>2. n \in 1 .. Len(semfs_sems) + 1
    BY <1>2, <1>3
  <2>3. SEMFS_ROOTDIR \in Nat
    BY Zenon, SemFSAssumption
  <2>4. \A k, s \in Nat : k <= s /\ k # s => 1 .. k + 1 \subseteq 1 .. s
    OBVIOUS
  <2>5. n \in 1 .. SEMFS_ROOTDIR
    BY Zenon, <1>1, <1>2, <2>2, <2>3, <2>4
  <2> QED
    BY Zenon, <2>1, <2>5 DEF SemNum
<1>5. SlotOK(n)
  BY Zenon, <1>4 DEF SemFSInv
<1>6. ~InDirectory(n)
  BY Zenon, <1>4, InDirectoryLive
<1> QED
  BY Zenon, <1>4, <1>5, <1>6 DEF SlotOK

\* A semaphore, or after all nothing, is put there.
LEMMA SlotAdded ==
    ASSUME SemFSInv, ~TooMany, NEW n \in SemNum, n = FirstHole(semfs_sems), ~Live(n),
           NEW t, t = SetOrAdd(semfs_sems, n, NewSem)
    PROVE  /\ t \in Seq(Sem \cup {NONE}) /\ Len(t) <= SEMFS_ROOTDIR
           /\ n \in DOMAIN t /\ t[n] = NewSem /\ NewSem # NONE
           /\ \A m : m \in DOMAIN t /\ m # n <=> m \in DOMAIN semfs_sems /\ m # n
           /\ \A m \in DOMAIN semfs_sems : m # n => t[m] = semfs_sems[m]
<1>1. semfs_sems \in Seq(Sem \cup {NONE}) /\ Len(semfs_sems) <= SEMFS_ROOTDIR /\ Len(semfs_sems) # SEMFS_ROOTDIR
  BY Zenon DEF SemFSInv, TypeOK, TooMany
<1>2. NewSem \in Sem
  BY SemFSAssumption DEF NewSem, Sem, Count
<1>3. NewSem # NONE
  BY Zenon, <1>2, SemFSAssumption
<1>4. PICK s, S, e : s = semfs_sems /\ S = Sem \cup {NONE} /\ e = NewSem
  BY Zenon
<1>5. s \in Seq(S) /\ e \in S
  BY Zenon, <1>1, <1>2, <1>4
<1>6. /\ SetOrAdd(s, FirstHole(s), e) \in Seq(S)
      /\ DOMAIN SetOrAdd(s, FirstHole(s), e) = DOMAIN s \cup {FirstHole(s)}
      /\ SetOrAdd(s, FirstHole(s), e)[FirstHole(s)] = e
      /\ Len(SetOrAdd(s, FirstHole(s), e)) <= Len(s) + 1
  BY Zenon, <1>5, SetOrAddFacts
<1>7. ASSUME NEW m \in DOMAIN s, m # FirstHole(s) PROVE SetOrAdd(s, FirstHole(s), e)[m] = s[m]
  BY Zenon, <1>5, <1>7, SetOrAddKeeps
<1>8. /\ t \in Seq(Sem \cup {NONE}) /\ DOMAIN t = DOMAIN semfs_sems \cup {n} /\ t[n] = NewSem
      /\ Len(t) <= Len(semfs_sems) + 1
      /\ \A m \in DOMAIN semfs_sems : m # n => t[m] = semfs_sems[m]
  BY Zenon, <1>4, <1>6, <1>7
<1>9. Len(t) <= SEMFS_ROOTDIR
  <2>1. Len(t) \in Nat /\ Len(semfs_sems) \in Nat
    BY <1>1, <1>8
  <2> QED
    BY <1>1, <1>8, <2>1, SemFSAssumption
<1> QED
  BY Zenon, <1>3, <1>8, <1>9

\* Without memory for the entry the slot is left as a hole.
LEMMA InsertUndone ==
    ASSUME SemFSInv, NEW p \in Proc, pc[p] = "insert", ~TooMany, NEW n, n = FirstHole(semfs_sems),
           CreatFails(p), Uninsert(SetOrAdd(semfs_sems, n, NewSem), n), UNCHANGED semfs_dents
    PROVE  SemFSInv'
<1>1. /\ TypeOK /\ LocksOK(p) /\ semfs_dirlock' = NONE /\ Goto(p, "idle") /\ Locals(p, NONE)
      /\ UNCHANGED <<vn_refcount, semfs_tablelock, sems_lock, open, fault>>
  BY Zenon DEF SemFSInv, CreatFails, Return
<1>2. n \in SemNum /\ ~Live(n)
  BY Zenon, FreeSlot
<1>3. PICK t : t = SetOrAdd(semfs_sems, n, NewSem)
  BY Zenon
<1>4. /\ t \in Seq(Sem \cup {NONE}) /\ Len(t) <= SEMFS_ROOTDIR /\ n \in DOMAIN t
      /\ \A m : m \in DOMAIN t /\ m # n <=> m \in DOMAIN semfs_sems /\ m # n
      /\ \A m \in DOMAIN semfs_sems : m # n => t[m] = semfs_sems[m]
  BY Zenon, <1>2, <1>3, SlotAdded
<1>5. semfs_sems' = [t EXCEPT ![n] = NONE] /\ NONE \in Sem \cup {NONE}
  BY Zenon, <1>3 DEF Uninsert
<1>6. /\ semfs_sems' \in Seq(Sem \cup {NONE}) /\ Len(semfs_sems') = Len(t) /\ DOMAIN semfs_sems' = DOMAIN t
      /\ semfs_sems'[n] = NONE /\ \A m \in DOMAIN t \ {n} : semfs_sems'[m] = t[m]
  BY <1>4, <1>5, PutAt
<1>7. ~Live(n)' /\ \A m \in SemNum : m # n => (Live(m)' <=> Live(m)) /\ (Live(m) => semfs_sems'[m] = semfs_sems[m])
  BY Zenon, <1>4, <1>6 DEF Live
<1>8. SemsKept
  BY ZenonT(60), <1>2, <1>4, <1>6, <1>7 DEF SemsKept
<1>9. /\ semfs_dirlock = p /\ semfs_tablelock' # p /\ (\A m \in SemNum : sems_lock'[m] # p) /\ semfs_dirlock' # p
  BY Zenon, <1>1, SemFSAssumption DEF LocksOK, SemlockPcs, DirPcs
<1>10. /\ LocksKept(p)
       /\ semfs_dirlock' \in Proc \cup {NONE} /\ semfs_tablelock' \in Proc \cup {NONE}
       /\ sems_lock' \in [SemNum -> Proc \cup {NONE}]
  BY Zenon, <1>1, <1>9, SemFSAssumption DEF LocksKept, TypeOK
<1>11. pc[p] \notin WorkPcs
  BY Zenon DEF WorkPcs
<1> QED
  BY Zenon, <1>1, <1>8, <1>9, <1>10, <1>11, IdleLocals, KeepStep

\* semfs_sem_insert with the new directory entry.
Inserted(p, n, i, nm, r) ==
    /\ pc[p] = "insert" /\ semfs_tablelock = NONE /\ ~TooMany
    /\ n = FirstHole(semfs_sems) /\ i = FirstHole(semfs_dents) /\ nm = loc[p].name
    /\ semfs_sems' = SetOrAdd(semfs_sems, n, NewSem)
    /\ semfs_dents' = SetOrAdd(semfs_dents, i, [semd_name |-> nm, semd_semnum |-> n])
    /\ r = [semnum |-> n, dent |-> i] /\ Locals(p, r) /\ Goto(p, "creat_getvnode")
    /\ UNCHANGED <<vn_refcount, locks, open, fault>>

LEMMA InsertDone ==
    ASSUME SemFSInv, NEW p \in Proc, NEW n, NEW i, NEW nm, NEW r, Inserted(p, n, i, nm, r)
    PROVE  SemFSInv'
<1>0. /\ pc[p] = "insert" /\ semfs_tablelock = NONE /\ ~TooMany
      /\ n = FirstHole(semfs_sems) /\ i = FirstHole(semfs_dents) /\ nm = loc[p].name
      /\ semfs_sems' = SetOrAdd(semfs_sems, n, NewSem)
      /\ semfs_dents' = SetOrAdd(semfs_dents, i, [semd_name |-> nm, semd_semnum |-> n])
      /\ r = [semnum |-> n, dent |-> i] /\ Locals(p, r) /\ Goto(p, "creat_getvnode")
      /\ UNCHANGED <<vn_refcount, locks, open, fault>>
  BY Zenon DEF Inserted
<1>1. /\ TypeOK /\ LocksOK(p) /\ LocalsOK(p) /\ UNCHANGED vn_refcount /\ UNCHANGED open /\ UNCHANGED fault
      /\ UNCHANGED semfs_dirlock /\ UNCHANGED semfs_tablelock /\ UNCHANGED sems_lock
  BY Zenon, <1>0 DEF SemFSInv, locks
<1>2. /\ n \in SemNum /\ ~Live(n) /\ vn_refcount[n] = 0 /\ ~InDirectory(n) /\ ~Working({"linked"}, n)
  BY Zenon, <1>0, FreeSlot
<1>3. nm \in Name /\ Found(nm) = {} /\ open[p] = NONE
  BY Zenon, <1>0, <1>1 DEF LocalsOK, LocalsAt
<1>4. /\ i \in Nat /\ semfs_dents' \in Seq(Dent \cup {NONE}) /\ NamesUnique' /\ Entry(i, n)' /\ InDirectory(n)'
      /\ \A m : m # n => (InDirectory(m)' <=> InDirectory(m))
  BY Zenon, <1>0, <1>2, <1>3, EntryAdded
<1>5. PICK t : t = semfs_sems'
  BY Zenon
<1>6. /\ t \in Seq(Sem \cup {NONE}) /\ Len(t) <= SEMFS_ROOTDIR
      /\ n \in DOMAIN t /\ t[n] = NewSem /\ NewSem # NONE
      /\ \A m : m \in DOMAIN t /\ m # n <=> m \in DOMAIN semfs_sems /\ m # n
      /\ \A m \in DOMAIN semfs_sems : m # n => t[m] = semfs_sems[m]
  BY Zenon, <1>0, <1>2, <1>5, SlotAdded
<1>7. /\ semfs_sems' \in Seq(Sem \cup {NONE}) /\ Len(semfs_sems') <= SEMFS_ROOTDIR
      /\ Live(n)' /\ semfs_sems'[n] = NewSem
      /\ \A m \in SemNum \ {n} : (Live(m)' <=> Live(m)) /\ (Live(m) => semfs_sems'[m] = semfs_sems[m])
  BY Zenon, <1>5, <1>6 DEF Live
<1>8. NewSem.sems_hasvnode = FALSE /\ NewSem.sems_linked = FALSE
  BY Zenon DEF NewSem
<1>9. /\ RefcountExact' /\ open' \in [Proc -> SemNum \cup {NONE}] /\ vn_refcount' \in [SemNum -> Nat]
      /\ \A q \in Proc \ {p} : open'[q] = open[q]
      /\ \A m \in SemNum : vn_refcount'[m] = vn_refcount[m]
  BY Zenon, <1>1, SameReferences
<1>10. /\ LocksKept(p) /\ semfs_dirlock' \in Proc \cup {NONE} /\ semfs_tablelock' \in Proc \cup {NONE}
       /\ sems_lock' \in [SemNum -> Proc \cup {NONE}]
  BY Zenon, <1>1 DEF LocksKept, TypeOK
<1>11. semfs_dirlock = p /\ semfs_dirlock' = p /\ semfs_tablelock' # p /\ \A m \in SemNum : sems_lock'[m] # p
  BY Zenon, <1>0, <1>1 DEF LocksOK, DirPcs, SemlockPcs
<1>12. r \in Locs /\ r \in [semnum : SemNum, dent : Nat] /\ r.semnum = n /\ r.dent = i
  BY Zenon, <1>0, <1>2, <1>4 DEF Locs
<1>13. PICK l, o : l = "creat_getvnode" /\ o = open'[p]
  BY Zenon
<1>14. l \in Pcs /\ l \in DirPcs /\ l \notin SemlockPcs /\ l # "linked" /\ Goto(p, l) /\ pc[p] \notin WorkPcs /\ o = NONE /\ Locals(p, r)
  BY Zenon, <1>0, <1>1, <1>3, <1>13 DEF Pcs, DirPcs, SemlockPcs, WorkPcs
<1>15. LocalsAt(l, r, o)'
  <2>1. Entry(r.dent, r.semnum)'
    BY Zenon, <1>4, <1>12
  <2> QED
    BY Zenon, <1>12, <1>13, <1>14, <2>1 DEF LocalsAt, NumPcs
<1>16. ASSUME Others(p), pc'[p] = l, loc'[p] = r PROVE SlotOK(n)'
  <2>1. ~OtherWorking(p, {"drop"}, n) /\ ~OtherWorking(p, {"leave"}, n) /\ ~OtherWorking(p, {"linked"}, n)
    BY Zenon, <1>0, <1>11, DirWorksAlone, TableWorksAlone
  <2>2. /\ Working(Unlinked, n)'
        /\ ~Working({"drop"}, n)' /\ ~Working({"leave"}, n)' /\ ~Working({"linked"}, n)'
    BY Zenon, <1>0, <1>12, <1>13, <1>16, <2>1, WorkingAfter DEF Unlinked
  <2>3. vn_refcount'[n] = 0 /\ ~(vn_refcount'[n] > 0)
    BY SMTT(30), <1>1, <1>2
  <2>4. semfs_sems'[n].sems_hasvnode = FALSE /\ semfs_sems'[n].sems_linked = FALSE
    BY Zenon, <1>7, <1>8
  <2> QED
    BY Zenon, <1>4, <1>7, <2>2, <2>3, <2>4 DEF SlotOK
<1>17. /\ l \in WorkPcs => r.semnum = n
       /\ semfs_dirlock' = p <=> l \in DirPcs
       /\ semfs_tablelock' = p <=> l = "linked"
       /\ \A m \in SemNum : sems_lock'[m] = p <=> l \in SemlockPcs /\ r.semnum = m
       /\ o = open'[p]
       /\ \A m \in SemNum \ {n} : InDirectory(m)' <=> InDirectory(m)
       /\ \A m \in SemNum \ {n} : vn_refcount'[m] = vn_refcount[m]
  BY ZenonT(60), <1>4, <1>9, <1>11, <1>12, <1>13, <1>14
<1>18. /\ n \in SemNum /\ semfs_dents' \in Seq(Dent \cup {NONE}) /\ NamesUnique' /\ r \in Locs /\ UNCHANGED fault
  BY Zenon, <1>1, <1>2, <1>4, <1>12
<1> QED
  BY Zenon, <1>7, <1>9, <1>10, <1>11, <1>14, <1>15, <1>16, <1>17, <1>18, WorkStep

LEMMA InsertStep ==
    ASSUME SemFSInv, NEW p \in Proc, semfs_sem_insert(p)
    PROVE  SemFSInv'
<1>1. PICK n, i, nm, r : /\ n = FirstHole(semfs_sems) /\ i = FirstHole(semfs_dents) /\ nm = loc[p].name
                         /\ r = [semnum |-> n, dent |-> i]
  BY Zenon
<1>2. pc[p] = "insert" /\ semfs_tablelock = NONE
  BY Zenon DEF semfs_sem_insert
<1>3. CASE Panic("lock_do_i_hold") \/ Panic("unset vnode")
  BY Zenon, <1>3, PanicStep
<1>4. CASE CreatFails(p) /\ UNCHANGED arrays
  BY Zenon, <1>2, <1>4, CreatFailsStep
<1>5. CASE ~TooMany /\ CreatFails(p) /\ Uninsert(SetOrAdd(semfs_sems, n, NewSem), n) /\ UNCHANGED semfs_dents
  BY Zenon, <1>1, <1>2, <1>5, InsertUndone
<1>6. CASE /\ ~TooMany /\ semfs_sems' = SetOrAdd(semfs_sems, n, NewSem)
           /\ semfs_dents' = SetOrAdd(semfs_dents, i, [semd_name |-> nm, semd_semnum |-> n])
           /\ Locals(p, r) /\ Goto(p, "creat_getvnode")
           /\ UNCHANGED <<vn_refcount, locks, open, fault>>
  <2>1. Inserted(p, n, i, nm, r)
    BY Zenon, <1>1, <1>2, <1>6 DEF Inserted
  <2> QED
    BY Zenon, <2>1, InsertDone
<1> QED
  BY Zenon, <1>1, <1>3, <1>4, <1>5, <1>6 DEF semfs_sem_insert
-----------------------------------------------------------------------------
LEMMA SemFSInit == Init => SemFSInv
<1> SUFFICES ASSUME Init PROVE SemFSInv
  BY Zenon
<1>1. SEMFS_ROOTDIR \in Nat /\ NONE \notin Proc /\ NONE \notin SemNum
  BY Zenon, SemFSAssumption
<1>2. semfs_dents = <<>> /\ semfs_sems = <<>> /\ DOMAIN semfs_dents = {} /\ DOMAIN semfs_sems = {}
  BY DEF Init
<1>3. TypeOK
  BY <1>1 DEF Init, TypeOK, Pcs, Locs
<1>4. RefcountExact
  <2> SUFFICES ASSUME NEW n \in SemNum PROVE vn_refcount[n] = Cardinality({p \in Proc : open[p] = n})
    BY Zenon DEF RefcountExact
  <2>1. {p \in Proc : open[p] = n} = {} /\ vn_refcount[n] = 0
    BY Zenon, <1>1 DEF Init
  <2> QED
    BY Zenon, <2>1, FS_EmptySet
<1>5. NamesUnique
  BY Zenon, <1>2 DEF NamesUnique
<1>6. ASSUME NEW p \in Proc PROVE LocksOK(p) /\ LocalsOK(p)
  BY Zenon, <1>1 DEF Init, LocksOK, LocalsOK, LocalsAt, DirPcs, RemovePcs, NumPcs, SemlockPcs
<1>7. ASSUME NEW n \in SemNum PROVE SlotOK(n)
  <2>1. ~Live(n) /\ ~InDirectory(n) /\ vn_refcount[n] = 0
    BY Zenon, <1>2 DEF Init, Live, InDirectory
  <2>2. \A S : "idle" \notin S => ~Working(S, n)
    BY Zenon DEF Init, Working
  <2> QED
    BY Zenon, <2>1, <2>2 DEF SlotOK
<1> QED
  BY Zenon, <1>3, <1>4, <1>5, <1>6, <1>7 DEF SemFSInv

LEMMA SemFSStep == SemFSInv /\ [Next]_vars => SemFSInv'
<1> SUFFICES ASSUME SemFSInv, [Next]_vars PROVE SemFSInv'
  BY Zenon
<1>1. CASE UNCHANGED vars
  <2>1. UNCHANGED <<semfs_dents, semfs_sems, vn_refcount, semfs_dirlock, semfs_tablelock, sems_lock, pc, loc, open, fault>>
    BY Zenon, <1>1 DEF vars, arrays, locks
  <2>2. TypeOK' /\ RefcountExact' /\ NamesUnique'
    BY Zenon, <2>1 DEF SemFSInv, TypeOK, RefcountExact, NamesUnique
  <2>3. ASSUME NEW q \in Proc PROVE LocksOK(q)' /\ LocalsOK(q)'
    <3>1. LocksOK(q) /\ LocalsOK(q)
      BY Zenon DEF SemFSInv
    <3>2. LocksOK(q)'
      BY Zenon, <2>1, <3>1 DEF LocksOK
    <3>3. LocalsOK(q)'
      BY Zenon, <2>1, <3>1 DEF LocalsOK, LocalsAt, Found, Entry, InDirectory
    <3> QED
      BY Zenon, <3>2, <3>3
  <2>4. ASSUME NEW n \in SemNum PROVE SlotOK(n)'
    <3>1. SlotOK(n)
      BY Zenon DEF SemFSInv
    <3> QED
      BY Zenon, <2>1, <3>1 DEF SlotOK, Live, InDirectory, Working
  <2> QED
    BY Zenon, <2>2, <2>3, <2>4 DEF SemFSInv
<1>2. CASE semfs_getdirentry
  BY Zenon, <1>2, PanicStep DEF semfs_getdirentry
<1>3. ASSUME NEW p \in Proc, Operation(p) PROVE SemFSInv'
  <2>1. ASSUME NEW nm \in Name, semfs_lookup(p, nm) \/ semfs_creat(p, nm) \/ semfs_remove(p, nm) PROVE SemFSInv'
    BY Zenon, <2>1, SearchStep
  <2>2. CASE semfs_sem_insert(p) \/ LookupGetvnode(p) \/ CreatGetvnode(p)
    BY Zenon, <2>2, InsertStep, LookupGetvnodeStep, CreatGetvnodeStep
  <2>3. CASE semfs_getsembynum(p) \/ RemoveUnlink(p) \/ RemoveTest(p) \/ RemoveLeave(p) \/ RemoveDrop(p)
    BY Zenon, <2>3, GetsembynumStep, UnlinkStep, RemoveTestStep, RemoveLeaveStep, RemoveDropStep
  <2>4. CASE vnode_decref(p) \/ semfs_reclaim(p) \/ ReclaimTest(p)
    BY Zenon, <2>4, DecrefStep, ReclaimStep, ReclaimTestStep
  <2>5. CASE semfs_getsem(p) \/ semfs_read(p)
    BY Zenon, <2>5, GetsemStep, ReadStep
  <2>6. ASSUME NEW k \in Count, semfs_write(p, k) \/ semfs_truncate(p, k) \/ ReadLock(p, k) PROVE SemFSInv'
    BY Zenon, <2>6, WriteStep, LockedStep, ReadLockStep DEF semfs_truncate
  <2> QED
    BY Zenon, <1>3, <2>1, <2>2, <2>3, <2>4, <2>5, <2>6 DEF Operation
<1> QED
  BY Zenon, <1>1, <1>2, <1>3 DEF Next

LEMMA SemFSInvariance == Spec => []SemFSInv
  BY SemFSInit, SemFSStep, PTL DEF Spec
-----------------------------------------------------------------------------
LEMMA SemFSAssertions == SemFSInv => SemaphoresStay
<1> SUFFICES ASSUME SemFSInv PROVE SemaphoresStay
  BY Zenon
<1>1. ASSUME NEW p \in Proc, open[p] # NONE PROVE Live(open[p]) /\ semfs_sems[open[p]].sems_hasvnode
  <2>1. open[p] \in SemNum /\ Live(open[p]) /\ vn_refcount[open[p]] > 0
    BY Zenon, <1>1, OpenLive, OpenCounted
  <2> QED
    BY Zenon, <2>1 DEF SemFSInv, SlotOK
<1>2. ASSUME NEW p \in Proc, pc[p] \in {"creat_getvnode", "lookup_getvnode", "getsembynum", "unlink", "linked", "semlock", "read"}
      PROVE  /\ loc[p].semnum \in SemNum /\ Live(loc[p].semnum)
             /\ pc[p] \in {"getsembynum", "unlink"} => semfs_sems[loc[p].semnum].sems_linked
  <2>1. PICK n : n = loc[p].semnum
    BY Zenon
  <2>2. LocalsOK(p)
    BY Zenon DEF SemFSInv
  <2>3. n \in SemNum
    BY Zenon, <1>2, <2>1, <2>2 DEF LocalsOK, LocalsAt, NumPcs, RemovePcs
  <2>4. SlotOK(n)
    BY Zenon, <2>3 DEF SemFSInv
  <2>5. CASE pc[p] \in {"creat_getvnode", "linked"}
    BY Zenon, <2>1, <2>3, <2>4, <2>5 DEF SlotOK, Working
  <2>6. CASE pc[p] \in {"lookup_getvnode", "getsembynum", "unlink"}
    <3>1. InDirectory(n)
      BY Zenon, <2>1, <2>2, <2>6 DEF LocalsOK, LocalsAt, RemovePcs, Entry, InDirectory
    <3>2. Live(n) /\ semfs_sems[n].sems_linked
      BY Zenon, <2>3, <2>6, <3>1, InDirectoryLive
    <3> QED
      BY Zenon, <2>1, <2>3, <3>2
  <2>7. CASE pc[p] \in {"semlock", "read"}
    <3>1. open[p] = n
      BY Zenon, <2>1, <2>2, <2>7 DEF LocalsOK, LocalsAt
    <3>2. Live(n)
      BY Zenon, <2>3, <3>1, OpenLive, SemFSAssumption
    <3> QED
      BY Zenon, <2>1, <2>3, <2>7, <3>2
  <2> QED
    BY Zenon, <1>2, <2>5, <2>6, <2>7
<1>3. ASSUME NEW p \in Proc, pc[p] \in {"creat_getvnode", "lookup_getvnode"}, vn_refcount[loc[p].semnum] = 0
      PROVE  ~semfs_sems[loc[p].semnum].sems_hasvnode
  <2>1. PICK n : n = loc[p].semnum
    BY Zenon
  <2>2. n \in SemNum /\ Live(n) /\ vn_refcount[n] = 0
    BY Zenon, <1>2, <1>3, <2>1
  <2>3. semfs_sems[n].sems_hasvnode <=> vn_refcount[n] > 0
    BY Zenon, <2>2 DEF SemFSInv, SlotOK
  <2>4. ~(vn_refcount[n] > 0)
    BY <2>2
  <2> QED
    BY ZenonT(60), <2>1, <2>3, <2>4
<1>4. TypeOK
  BY Zenon DEF SemFSInv
<1>5. \A p \in Proc : open[p] # NONE => Live(open[p]) /\ semfs_sems[open[p]].sems_hasvnode
  BY Zenon, <1>1
<1>6. \A p \in Proc : pc[p] \in {"creat_getvnode", "lookup_getvnode", "getsembynum", "unlink",
                                "linked", "semlock", "read"} => Live(loc[p].semnum)
  BY Zenon, <1>2
<1>7. \A p \in Proc : pc[p] \in {"creat_getvnode", "lookup_getvnode"}
                     /\ vn_refcount[loc[p].semnum] = 0 /\ semfs_tablelock = NONE
                     => ~semfs_sems[loc[p].semnum].sems_hasvnode
  BY Zenon, <1>3
<1>8. ASSUME NEW p \in Proc, pc[p] \in {"getsembynum", "unlink"} PROVE semfs_sems[loc[p].semnum].sems_linked
  BY Zenon, <1>2, <1>8
<1> QED
  BY Zenon, <1>4, <1>5, <1>6, <1>7, <1>8 DEF SemaphoresStay

LEMMA SemFSLeaksNothing == SemFSInv => NoLeak
<1> SUFFICES ASSUME SemFSInv, semfs_dirlock = NONE, semfs_tablelock = NONE, NEW n \in SemNum
             PROVE  /\ Live(n) <=> InDirectory(n) \/ vn_refcount[n] > 0
                    /\ Live(n) => /\ semfs_sems[n].sems_linked = InDirectory(n)
                                  /\ semfs_sems[n].sems_hasvnode = (vn_refcount[n] > 0)
  BY Zenon DEF NoLeak
<1>1. ~Working({"linked"}, n) /\ ~Working(Unlinked, n)
  <2>1. \A p \in Proc : pc[p] \notin DirPcs
    BY Zenon, SemFSAssumption DEF SemFSInv, LocksOK
  <2> QED
    BY Zenon, <2>1, TableFree DEF Working, DirPcs, RemovePcs, Unlinked
<1>2. SlotOK(n) /\ TypeOK
  BY Zenon DEF SemFSInv
<1>3. Live(n) => semfs_sems[n].sems_linked \in BOOLEAN /\ semfs_sems[n].sems_hasvnode \in BOOLEAN
  BY Zenon, <1>2, LiveType
<1>4. vn_refcount[n] \in Nat
  BY Zenon, <1>2 DEF TypeOK
<1>5. /\ Live(n) <=> InDirectory(n) \/ vn_refcount[n] > 0
      /\ Live(n) => /\ semfs_sems[n].sems_linked <=> InDirectory(n)
                    /\ semfs_sems[n].sems_hasvnode <=> (vn_refcount[n] > 0)
  BY <1>1, <1>2, <1>4 DEF SlotOK
<1>6. InDirectory(n) \in BOOLEAN
  BY Zenon DEF InDirectory
<1>7. (vn_refcount[n] > 0) \in BOOLEAN
  BY <1>4
<1> QED
  BY Zenon, <1>3, <1>5, <1>6, <1>7

\* The holder of semfs_tablelock waits for nobody, and the holder of a sems_lock
\* at most for semfs_tablelock.
LEMMA HoldersWait ==
    ASSUME SemFSInv, NEW w \in Proc
    PROVE  /\ w = semfs_tablelock => WaitsFor(w) = NONE
           /\ \A n \in SemNum : w = sems_lock[n] => WaitsFor(w) \in {NONE, semfs_tablelock}
<1>1. LocksOK(w)
  BY Zenon DEF SemFSInv
<1>2. w = semfs_tablelock => pc[w] = "linked"
  BY Zenon, <1>1 DEF LocksOK
<1>3. \A n \in SemNum : w = sems_lock[n] => pc[w] \in {"hasvnode", "drop", "leave", "read"}
  BY Zenon, <1>1 DEF LocksOK, SemlockPcs
<1>4. /\ pc[w] \in {"linked", "hasvnode", "leave", "read"} => WaitsFor(w) = NONE
      /\ pc[w] = "drop" => WaitsFor(w) = semfs_tablelock
  BY Zenon DEF WaitsFor
<1> QED
  BY Zenon, <1>2, <1>3, <1>4

LEMMA SemFSNoDeadlock == SemFSInv => NoDeadlock
<1> SUFFICES ASSUME SemFSInv PROVE NoDeadlock
  BY Zenon
<1>1. ASSUME NEW S \in SUBSET Proc, S # {}, \A p \in S : WaitsFor(p) \in S PROVE FALSE
  <2>1. NONE \notin S
    BY Zenon, SemFSAssumption
  <2>2. ASSUME semfs_tablelock \in S PROVE FALSE
    BY Zenon, <1>1, <2>1, <2>2, HoldersWait
  <2>3. ASSUME NEW n \in SemNum, sems_lock[n] \in S PROVE FALSE
    <3>1. WaitsFor(sems_lock[n]) \in {NONE, semfs_tablelock} /\ WaitsFor(sems_lock[n]) \in S
      BY Zenon, <1>1, <2>3, HoldersWait
    <3> QED
      BY Zenon, <2>1, <2>2, <3>1
  <2>4. PICK p \in S : TRUE
    BY Zenon, <1>1
  <2>5. pc[p] \in {"unlink", "semlock"} => loc[p].semnum \in SemNum
    <3>1. LocalsOK(p)
      BY Zenon DEF SemFSInv
    <3> QED
      BY Zenon, <3>1 DEF LocalsOK, LocalsAt, RemovePcs, NumPcs
  <2>6. \/ WaitsFor(p) = semfs_tablelock
        \/ WaitsFor(p) = NONE
        \/ pc[p] \in {"unlink", "semlock"} /\ WaitsFor(p) = sems_lock[loc[p].semnum]
    BY Zenon DEF WaitsFor
  <2> QED
    BY Zenon, <1>1, <2>1, <2>2, <2>3, <2>4, <2>5, <2>6
<1>2. ASSUME NEW p \in Proc, pc[p] = "idle"
      PROVE  p \notin {semfs_dirlock, semfs_tablelock} /\ \A n \in SemNum : sems_lock[n] # p
  <2>1. LocksOK(p)
    BY Zenon DEF SemFSInv
  <2> QED
    BY Zenon, <1>2, <2>1 DEF LocksOK, DirPcs, RemovePcs, SemlockPcs
<1>3. \A S \in (SUBSET Proc) \ {{}} : \E p \in S : WaitsFor(p) \notin S
  BY Zenon, <1>1
<1> QED
  BY Zenon, <1>2, <1>3 DEF NoDeadlock
-----------------------------------------------------------------------------
\* The references of a vnode are counted exactly, however semfs_getvnode,
\* vnode_decref and semfs_reclaim of any number of processes overlap.
THEOREM ReferencesCounted == Spec => []RefcountExact
<1>1. SemFSInv => RefcountExact
  BY Zenon DEF SemFSInv
<1> QED
  BY <1>1, SemFSInvariance, PTL

\* A semaphore that somebody has open, or is on the way to opening, reading or
\* writing, stays in the table, and the assertions of semfs_getvnode and
\* semfs_remove about sems_hasvnode and sems_linked hold, in every state up to the
\* fault that stops the kernel.
THEOREM OpenSemaphoresStay == Spec => []SemaphoresStay
  BY SemFSInvariance, SemFSAssertions, PTL

\* A semaphore exists exactly as long as the directory names it or a process
\* has it open, as semfs_remove and semfs_reclaim decide between them.
THEOREM NothingLeaks == Spec => []NoLeak
  BY SemFSInvariance, SemFSLeaksNothing, PTL

\* semfs_creat gives a name and a semaphore to one entry of the directory.
THEOREM NamesStayUnique == Spec => []NamesUnique
<1>1. SemFSInv => NamesUnique
  BY Zenon DEF SemFSInv
<1> QED
  BY <1>1, SemFSInvariance, PTL

\* The three kinds of locks are taken in one order and given back on every path.
THEOREM NobodyDeadlocks == Spec => []NoDeadlock
  BY SemFSInvariance, SemFSNoDeadlock, PTL
=============================================================================
