-------------------------- MODULE ThreadListProofs --------------------------
(***************************************************************************)
(* What the operations of kern/thread/threadlist.c do to the set of        *)
(* threads on a list and to the absence of duplicates.  The proofs about   *)
(* semaphores and the scheduler use lists only through these facts.        *)
(***************************************************************************)
EXTENDS ThreadList, SequenceTheorems, TLAPS

(* A list is a function on 1..tl_count whose values are its members. *)
LEMMA ListShape ==
  ASSUME NEW T, NEW tl \in Seq(T)
  PROVE  /\ Len(tl) \in Nat
         /\ DOMAIN tl = 1..Len(tl)
         /\ \A i \in 1..Len(tl) : tl[i] \in T
         /\ Members(tl) \subseteq T
         /\ tl # <<>> <=> Len(tl) > 0
<1>1. /\ Len(tl) \in Nat
      /\ DOMAIN tl = 1..Len(tl)
      /\ \A i \in 1..Len(tl) : tl[i] \in T
  BY Zenon, LenProperties, ElementOfSeq
<1>2. Members(tl) \subseteq T
  BY Zenon, <1>1 DEF Members
<1>3. tl # <<>> <=> Len(tl) > 0
  BY <1>1, EmptySeq
<1> QED
  BY Zenon, <1>1, <1>2, <1>3

(* An empty list has no members. *)
LEMMA EmptyList ==
  ASSUME NEW T
  PROVE  /\ threadlist_init \in Seq(T)
         /\ Len(threadlist_init) = 0
         /\ Members(threadlist_init) = {}
         /\ NoDup(threadlist_init)
BY DEF threadlist_init, Members, NoDup

(* A list is empty exactly when it has no members. *)
LEMMA EmptyIffNoMembers ==
  ASSUME NEW T, NEW tl \in Seq(T)
  PROVE  tl = <<>> <=> Members(tl) = {}
<1>1. tl = <<>> => Members(tl) = {}
  BY DEF Members
<1>2. tl # <<>> => tl[1] \in Members(tl)
  BY ListShape DEF Members
<1> QED
  BY Zenon, <1>1, <1>2

(* threadlist_addtail adds one thread, which becomes the last. *)
LEMMA AddTail ==
  ASSUME NEW T, NEW tl \in Seq(T), NEW t \in T
  PROVE  /\ threadlist_addtail(tl, t) \in Seq(T)
         /\ Len(threadlist_addtail(tl, t)) = Len(tl) + 1
         /\ Members(threadlist_addtail(tl, t)) = Members(tl) \cup {t}
         /\ NoDup(tl) /\ t \notin Members(tl) => NoDup(threadlist_addtail(tl, t))
<1> DEFINE nl == threadlist_addtail(tl, t)
<1>1. /\ nl \in Seq(T)
      /\ Len(nl) = Len(tl) + 1
      /\ \A i \in 1..Len(tl) : nl[i] = tl[i]
      /\ nl[Len(tl) + 1] = t
  BY AppendProperties DEF threadlist_addtail
<1>2. Len(tl) \in Nat /\ DOMAIN tl = 1..Len(tl) /\ DOMAIN nl = 1..(Len(tl) + 1)
  BY Zenon, <1>1, ListShape
<1>3. Members(nl) = Members(tl) \cup {t}
  <2>1. ASSUME NEW x \in Members(nl) PROVE x \in Members(tl) \cup {t}
    <3>1. PICK i \in 1..(Len(tl) + 1) : nl[i] = x
      BY Zenon, <1>2 DEF Members
    <3> QED
      BY <1>1, <1>2, <3>1 DEF Members
  <2>2. ASSUME NEW x \in Members(tl) PROVE x \in Members(nl)
    <3>1. PICK i \in 1..Len(tl) : tl[i] = x
      BY Zenon, <1>2 DEF Members
    <3>2. i \in DOMAIN nl /\ nl[i] = x
      BY <1>1, <1>2, <3>1
    <3> QED
      BY Zenon, <3>2 DEF Members
  <2>3. t \in Members(nl)
    BY <1>1, <1>2 DEF Members
  <2> QED
    BY Zenon, <2>1, <2>2, <2>3
<1>4. ASSUME NoDup(tl), t \notin Members(tl) PROVE NoDup(nl)
  <2> SUFFICES ASSUME NEW i \in 1..(Len(tl) + 1), NEW j \in 1..(Len(tl) + 1), nl[i] = nl[j]
               PROVE  i = j
    BY Zenon, <1>2 DEF NoDup
  <2>1. \A k \in 1..Len(tl) : tl[k] # t
    BY Zenon, <1>2, <1>4 DEF Members
  <2> QED
    BY <1>1, <1>2, <1>4, <2>1 DEF NoDup
<1> HIDE DEF nl
<1> QED
  BY Zenon, <1>1, <1>3, <1>4 DEF nl

(* threadlist_addhead adds one thread, which becomes the first. *)
LEMMA AddHead ==
  ASSUME NEW T, NEW tl \in Seq(T), NEW t \in T
  PROVE  /\ threadlist_addhead(tl, t) \in Seq(T)
         /\ Len(threadlist_addhead(tl, t)) = Len(tl) + 1
         /\ Members(threadlist_addhead(tl, t)) = Members(tl) \cup {t}
         /\ NoDup(tl) /\ t \notin Members(tl) => NoDup(threadlist_addhead(tl, t))
<1> DEFINE nl == threadlist_addhead(tl, t)
<1>0. <<t>> \in Seq(T) /\ Len(<<t>>) = 1 /\ <<t>>[1] = t
  OBVIOUS
<1>a. Len(tl) \in Nat /\ DOMAIN tl = 1..Len(tl)
  BY Zenon, ListShape
<1>1. /\ nl \in Seq(T)
      /\ Len(nl) = Len(tl) + 1
      /\ \A i \in 1..(Len(tl) + 1) : nl[i] = IF i <= 1 THEN t ELSE tl[i - 1]
  BY <1>0, <1>a, ConcatProperties DEF threadlist_addhead
<1>2. DOMAIN nl = 1..(Len(tl) + 1)
  BY Zenon, <1>1, ListShape
<1> HIDE DEF nl
<1>3. Members(nl) = Members(tl) \cup {t}
  <2>1. ASSUME NEW x \in Members(nl) PROVE x \in Members(tl) \cup {t}
    <3>1. PICK i \in 1..(Len(tl) + 1) : nl[i] = x
      BY Zenon, <1>2 DEF Members
    <3>2. CASE i = 1
      BY <1>1, <1>a, <3>1, <3>2
    <3>3. CASE i # 1
      <4>1. i - 1 \in DOMAIN tl /\ tl[i - 1] = x
        BY <1>1, <1>a, <3>1, <3>3
      <4> QED
        BY Zenon, <4>1 DEF Members
    <3> QED
      BY Zenon, <3>2, <3>3
  <2>2. ASSUME NEW x \in Members(tl) PROVE x \in Members(nl)
    <3>1. PICK i \in 1..Len(tl) : tl[i] = x
      BY Zenon, <1>a DEF Members
    <3>2. i + 1 \in DOMAIN nl /\ nl[i + 1] = x
      BY <1>1, <1>2, <1>a, <3>1
    <3> QED
      BY Zenon, <3>2 DEF Members
  <2>3. t \in Members(nl)
    <3>1. 1 \in DOMAIN nl /\ nl[1] = t
      BY <1>1, <1>2, <1>a
    <3> QED
      BY Zenon, <3>1 DEF Members
  <2> QED
    BY Zenon, <2>1, <2>2, <2>3
<1>4. ASSUME NoDup(tl), t \notin Members(tl) PROVE NoDup(nl)
  <2> SUFFICES ASSUME NEW i \in 1..(Len(tl) + 1), NEW j \in 1..(Len(tl) + 1), nl[i] = nl[j]
               PROVE  i = j
    BY Zenon, <1>2 DEF NoDup
  <2>1. \A k \in 1..Len(tl) : tl[k] # t
    BY Zenon, <1>a, <1>4 DEF Members
  <2>2. CASE i = 1 \/ j = 1
    BY <1>1, <1>a, <2>1, <2>2
  <2>3. CASE i # 1 /\ j # 1
    <3>1. i - 1 \in DOMAIN tl /\ j - 1 \in DOMAIN tl /\ tl[i - 1] = tl[j - 1]
      BY <1>1, <1>a, <2>3
    <3>2. i - 1 = j - 1
      BY Zenon, <1>4, <3>1 DEF NoDup
    <3> QED
      BY <3>2
  <2> QED
    BY Zenon, <2>2, <2>3
<1> QED
  BY Zenon, <1>1, <1>3, <1>4 DEF nl

(* threadlist_remhead takes away the first thread. *)
LEMMA RemHead ==
  ASSUME NEW T, NEW tl \in Seq(T), tl # <<>>
  PROVE  /\ threadlist_head(tl) \in T
         /\ threadlist_head(tl) \in Members(tl)
         /\ threadlist_remhead(tl) \in Seq(T)
         /\ Len(threadlist_remhead(tl)) = Len(tl) - 1
         /\ Members(tl) = Members(threadlist_remhead(tl)) \cup {threadlist_head(tl)}
         /\ NoDup(tl) => /\ NoDup(threadlist_remhead(tl))
                         /\ threadlist_head(tl) \notin Members(threadlist_remhead(tl))
<1> DEFINE nl == threadlist_remhead(tl)
           h == threadlist_head(tl)
<1>1. /\ Len(tl) \in Nat /\ Len(tl) > 0 /\ DOMAIN tl = 1..Len(tl)
      /\ h = tl[1] /\ h \in T
  BY ListShape DEF threadlist_head
<1>2. /\ nl \in Seq(T)
      /\ Len(nl) = Len(tl) - 1
      /\ \A i \in 1..(Len(tl) - 1) : nl[i] = tl[i + 1]
  BY Zenon, HeadTailProperties DEF threadlist_remhead
<1>3. DOMAIN nl = 1..(Len(tl) - 1)
  BY Zenon, <1>2, ListShape
<1> HIDE DEF nl, h
<1>4. Members(tl) = Members(nl) \cup {h}
  <2>1. ASSUME NEW x \in Members(nl) PROVE x \in Members(tl)
    <3>1. PICK i \in 1..(Len(tl) - 1) : nl[i] = x
      BY Zenon, <1>3 DEF Members
    <3>2. i + 1 \in DOMAIN tl /\ tl[i + 1] = x
      BY <1>1, <1>2, <3>1
    <3> QED
      BY Zenon, <3>2 DEF Members
  <2>2. ASSUME NEW x \in Members(tl), x # h PROVE x \in Members(nl)
    <3>1. PICK i \in 1..Len(tl) : tl[i] = x
      BY Zenon, <1>1 DEF Members
    <3>2. i - 1 \in DOMAIN nl /\ nl[i - 1] = x
      BY <1>1, <1>2, <1>3, <2>2, <3>1
    <3> QED
      BY Zenon, <3>2 DEF Members
  <2>3. h \in Members(tl)
    <3>1. 1 \in DOMAIN tl
      BY <1>1
    <3> QED
      BY Zenon, <1>1, <3>1 DEF Members
  <2> QED
    BY Zenon, <2>1, <2>2, <2>3
<1>5. ASSUME NoDup(tl) PROVE NoDup(nl) /\ h \notin Members(nl)
  <2>1. ASSUME NEW i \in 1..(Len(tl) - 1), NEW j \in 1..(Len(tl) - 1), nl[i] = nl[j]
        PROVE  i = j
    <3>1. i + 1 \in DOMAIN tl /\ j + 1 \in DOMAIN tl /\ tl[i + 1] = tl[j + 1]
      BY <1>1, <1>2, <2>1
    <3>2. i + 1 = j + 1
      BY Zenon, <1>5, <3>1 DEF NoDup
    <3> QED
      BY <3>2
  <2>2. ASSUME NEW i \in 1..(Len(tl) - 1) PROVE nl[i] # h
    <3>1. i + 1 \in DOMAIN tl /\ 1 \in DOMAIN tl /\ i + 1 # 1
      BY <1>1
    <3>2. tl[i + 1] # tl[1]
      BY Zenon, <1>5, <3>1 DEF NoDup
    <3> QED
      BY Zenon, <1>1, <1>2, <3>2
  <2> QED
    BY Zenon, <1>3, <2>1, <2>2 DEF NoDup, Members
<1> QED
  BY Zenon, <1>1, <1>2, <1>4, <1>5 DEF nl, h

(* threadlist_remtail takes away the last thread. *)
LEMMA RemTail ==
  ASSUME NEW T, NEW tl \in Seq(T), tl # <<>>
  PROVE  /\ threadlist_tail(tl) \in T
         /\ threadlist_tail(tl) \in Members(tl)
         /\ threadlist_remtail(tl) \in Seq(T)
         /\ Len(threadlist_remtail(tl)) = Len(tl) - 1
         /\ Members(tl) = Members(threadlist_remtail(tl)) \cup {threadlist_tail(tl)}
         /\ NoDup(tl) => /\ NoDup(threadlist_remtail(tl))
                         /\ threadlist_tail(tl) \notin Members(threadlist_remtail(tl))
<1> DEFINE nl == threadlist_remtail(tl)
           h == threadlist_tail(tl)
           n == Len(tl)
<1>1. /\ n \in Nat /\ n > 0 /\ DOMAIN tl = 1..n
      /\ h = tl[n] /\ h \in T
      /\ \A i \in 1..n : tl[i] \in T
  BY ListShape DEF threadlist_tail
<1>2. /\ nl \in Seq(T)
      /\ Len(nl) = n - 1
      /\ \A i \in 1..(n - 1) : nl[i] = tl[i]
  <2>1. \A i \in 1..(n - 1) : tl[i] \in T
    BY <1>1
  <2>2. 1 \in Int /\ n - 1 \in Int
    BY <1>1
  <2> HIDE DEF n
  <2>3. /\ SubSeq(tl, 1, n - 1) \in Seq(T)
        /\ Len(SubSeq(tl, 1, n - 1)) = IF 1 <= n - 1 THEN (n - 1) - 1 + 1 ELSE 0
        /\ \A i \in 1..((n - 1) - 1 + 1) : SubSeq(tl, 1, n - 1)[i] = tl[1 + i - 1]
    BY <2>1, <2>2, SubSeqProperties
  <2>4. nl = SubSeq(tl, 1, n - 1)
    BY Zenon DEF threadlist_remtail, n
  <2> HIDE DEF nl
  <2> QED
    BY <1>1, <2>3, <2>4
<1> HIDE DEF nl, h, n
<1>3. DOMAIN nl = 1..(n - 1)
  BY Zenon, <1>2, ListShape
<1>4. Members(tl) = Members(nl) \cup {h}
  <2>1. ASSUME NEW x \in Members(nl) PROVE x \in Members(tl)
    <3>1. PICK i \in 1..(n - 1) : nl[i] = x
      BY Zenon, <1>3 DEF Members
    <3>2. i \in DOMAIN tl /\ tl[i] = x
      BY <1>1, <1>2, <3>1
    <3> QED
      BY Zenon, <3>2 DEF Members
  <2>2. ASSUME NEW x \in Members(tl), x # h PROVE x \in Members(nl)
    <3>1. PICK i \in 1..n : tl[i] = x
      BY Zenon, <1>1 DEF Members
    <3>2. i \in DOMAIN nl /\ nl[i] = x
      BY <1>1, <1>2, <1>3, <2>2, <3>1
    <3> QED
      BY Zenon, <3>2 DEF Members
  <2>3. h \in Members(tl)
    <3>1. n \in DOMAIN tl
      BY <1>1
    <3> QED
      BY Zenon, <1>1, <3>1 DEF Members
  <2> QED
    BY Zenon, <2>1, <2>2, <2>3
<1>5. ASSUME NoDup(tl) PROVE NoDup(nl) /\ h \notin Members(nl)
  <2>1. ASSUME NEW i \in 1..(n - 1), NEW j \in 1..(n - 1), nl[i] = nl[j]
        PROVE  i = j
    <3>1. i \in DOMAIN tl /\ j \in DOMAIN tl /\ tl[i] = tl[j]
      BY <1>1, <1>2, <2>1
    <3> QED
      BY Zenon, <1>5, <3>1 DEF NoDup
  <2>2. ASSUME NEW i \in 1..(n - 1) PROVE nl[i] # h
    <3>1. i \in DOMAIN tl /\ n \in DOMAIN tl /\ i # n
      BY <1>1
    <3>2. tl[i] # tl[n]
      BY Zenon, <1>5, <3>1 DEF NoDup
    <3> QED
      BY Zenon, <1>1, <1>2, <3>2
  <2> QED
    BY Zenon, <1>3, <2>1, <2>2 DEF NoDup, Members
<1> QED
  BY Zenon, <1>1, <1>2, <1>4, <1>5 DEF nl, h, n

(* A list cut in two: the first n threads and the rest. *)
LEMMA Split ==
  ASSUME NEW T, NEW tl \in Seq(T), NEW n \in Nat, n <= Len(tl)
  PROVE  /\ SubSeq(tl, 1, n) \in Seq(T) /\ SubSeq(tl, n + 1, Len(tl)) \in Seq(T)
         /\ Len(SubSeq(tl, 1, n)) = n /\ Len(SubSeq(tl, n + 1, Len(tl))) = Len(tl) - n
         /\ Members(tl) = Members(SubSeq(tl, 1, n)) \cup Members(SubSeq(tl, n + 1, Len(tl)))
         /\ NoDup(tl) => /\ NoDup(SubSeq(tl, 1, n)) /\ NoDup(SubSeq(tl, n + 1, Len(tl)))
                         /\ Members(SubSeq(tl, 1, n)) \cap Members(SubSeq(tl, n + 1, Len(tl))) = {}
<1> DEFINE len == Len(tl)
           a == SubSeq(tl, 1, n)
           b == SubSeq(tl, n + 1, len)
<1>1. len \in Nat /\ DOMAIN tl = 1..len /\ \A i \in 1..len : tl[i] \in T
  BY Zenon, ListShape
<1>2. a \in Seq(T) /\ Len(a) = n /\ \A i \in 1..n : a[i] = tl[i]
  <2>1. \A i \in 1..n : tl[i] \in T
    BY <1>1
  <2> HIDE DEF len
  <2>2. /\ a \in Seq(T) /\ Len(a) = IF 1 <= n THEN n - 1 + 1 ELSE 0
        /\ \A i \in 1..(n - 1 + 1) : a[i] = tl[1 + i - 1]
    BY <2>1, SubSeqProperties
  <2> HIDE DEF a
  <2>3. /\ \A i \in 1..n : i \in 1..(n - 1 + 1) /\ 1 + i - 1 = i
        /\ (IF 1 <= n THEN n - 1 + 1 ELSE 0) = n
    OBVIOUS
  <2> QED
    BY <2>2, <2>3
<1>3. b \in Seq(T) /\ Len(b) = len - n /\ \A i \in 1..(len - n) : b[i] = tl[n + i]
  <2>1. (\A i \in (n + 1)..len : tl[i] \in T) /\ n + 1 \in Int /\ len \in Int
    BY <1>1
  <2>3. n <= len
    BY Zenon
  <2> HIDE DEF len
  <2>2. /\ b \in Seq(T) /\ Len(b) = IF n + 1 <= len THEN len - (n + 1) + 1 ELSE 0
        /\ \A i \in 1..(len - (n + 1) + 1) : b[i] = tl[(n + 1) + i - 1]
    BY <2>1, SubSeqProperties
  <2> HIDE DEF b
  <2>4. \A i \in 1..(len - n) : i \in 1..(len - (n + 1) + 1) /\ (n + 1) + i - 1 = n + i
    BY <1>1
  <2> QED
    BY <1>1, <2>2, <2>3, <2>4
<1>4. DOMAIN a = 1..n /\ DOMAIN b = 1..(len - n)
  BY Zenon, <1>2, <1>3, ListShape
<1>5. n <= len
  BY Zenon
<1> HIDE DEF len, a, b
<1>6. ASSUME NEW t \in Members(tl) PROVE t \in Members(a) \cup Members(b)
  <2>1. PICK i \in 1..len : tl[i] = t
    BY Zenon, <1>1, <1>6 DEF Members
  <2>2. CASE i <= n
    <3>1. i \in DOMAIN a /\ a[i] = t
      BY <1>1, <1>2, <1>4, <2>1, <2>2
    <3> QED
      BY Zenon, <3>1 DEF Members
  <2>3. CASE ~(i <= n)
    <3>1. i - n \in 1..(len - n) /\ n + (i - n) = i
      BY <1>1, <2>3
    <3>2. i - n \in DOMAIN b /\ b[i - n] = t
      BY Zenon, <1>3, <1>4, <2>1, <3>1
    <3> QED
      BY Zenon, <3>2 DEF Members
  <2> QED
    BY Zenon, <2>2, <2>3
<1>7. ASSUME NEW t \in Members(a) PROVE \E i \in 1..n : tl[i] = t /\ i \in DOMAIN tl
  <2>1. PICK i \in 1..n : a[i] = t
    BY Zenon, <1>4, <1>7 DEF Members
  <2> QED
    BY <1>1, <1>2, <1>5, <2>1
<1>8. ASSUME NEW t \in Members(b) PROVE \E i \in (n + 1)..len : tl[i] = t /\ i \in DOMAIN tl
  <2>1. PICK i \in 1..(len - n) : b[i] = t
    BY Zenon, <1>4, <1>8 DEF Members
  <2>2. n + i \in (n + 1)..len /\ n + i \in DOMAIN tl
    BY <1>1, <1>5
  <2> QED
    BY Zenon, <1>3, <2>1, <2>2
<1>9. Members(tl) = Members(a) \cup Members(b)
  <2>1. \A i \in DOMAIN tl : tl[i] \in Members(tl)
    BY Zenon DEF Members
  <2>2. Members(a) \cup Members(b) \subseteq Members(tl)
    BY Zenon, <1>7, <1>8, <2>1
  <2> QED
    BY Zenon, <1>6, <2>2
<1>10. ASSUME NoDup(tl) PROVE NoDup(a) /\ NoDup(b) /\ Members(a) \cap Members(b) = {}
  <2>1. NoDup(a)
    <3> SUFFICES ASSUME NEW i \in 1..n, NEW j \in 1..n, a[i] = a[j] PROVE i = j
      BY Zenon, <1>4 DEF NoDup
    <3>1. i \in DOMAIN tl /\ j \in DOMAIN tl /\ tl[i] = tl[j]
      BY <1>1, <1>2, <1>5
    <3> QED
      BY Zenon, <1>10, <3>1 DEF NoDup
  <2>2. NoDup(b)
    <3> SUFFICES ASSUME NEW i \in 1..(len - n), NEW j \in 1..(len - n), b[i] = b[j] PROVE i = j
      BY Zenon, <1>4 DEF NoDup
    <3>1. n + i \in DOMAIN tl /\ n + j \in DOMAIN tl /\ tl[n + i] = tl[n + j]
      BY <1>1, <1>3, <1>5
    <3>2. n + i = n + j
      BY Zenon, <1>10, <3>1 DEF NoDup
    <3> QED
      BY <3>2
  <2>3. ASSUME NEW t \in Members(a), t \in Members(b) PROVE FALSE
    <3>1. PICK i \in 1..n : tl[i] = t /\ i \in DOMAIN tl
      BY Zenon, <1>7
    <3>2. PICK j \in (n + 1)..len : tl[j] = t /\ j \in DOMAIN tl
      BY Zenon, <1>8, <2>3
    <3>3. i = j
      BY Zenon, <1>10, <3>1, <3>2 DEF NoDup
    <3> QED
      BY <3>3
  <2> QED
    BY Zenon, <2>1, <2>2, <2>3
<1> QED
  BY Zenon, <1>2, <1>3, <1>9, <1>10 DEF len, a, b

(* Two lists without common threads, one after the other. *)
LEMMA Joined ==
  ASSUME NEW T, NEW tl \in Seq(T), NEW ul \in Seq(T)
  PROVE  /\ tl \o ul \in Seq(T)
         /\ Len(tl \o ul) = Len(tl) + Len(ul)
         /\ Members(tl \o ul) = Members(tl) \cup Members(ul)
         /\ NoDup(tl) /\ NoDup(ul) /\ Members(tl) \cap Members(ul) = {} => NoDup(tl \o ul)
<1> DEFINE l == tl \o ul
           m == Len(tl)
           n == Len(ul)
<1>1. /\ m \in Nat /\ n \in Nat /\ DOMAIN tl = 1..m /\ DOMAIN ul = 1..n
  BY Zenon, ListShape
<1>2. /\ l \in Seq(T) /\ Len(l) = m + n
      /\ \A i \in 1..(m + n) : l[i] = IF i <= m THEN tl[i] ELSE ul[i - m]
  BY Zenon, ConcatProperties
<1>3. DOMAIN l = 1..(m + n)
  BY Zenon, <1>2, ListShape
<1> HIDE DEF l, m, n
<1>4. ASSUME NEW i \in 1..(m + n)
      PROVE  \/ i <= m /\ i \in DOMAIN tl /\ l[i] = tl[i] /\ l[i] \in Members(tl)
             \/ ~(i <= m) /\ i - m \in DOMAIN ul /\ l[i] = ul[i - m] /\ l[i] \in Members(ul)
  <2>1. CASE i <= m
    <3>1. i \in DOMAIN tl /\ l[i] = tl[i]
      BY <1>1, <1>2, <2>1
    <3> QED
      BY Zenon, <2>1, <3>1 DEF Members
  <2>2. CASE ~(i <= m)
    <3>1. i - m \in DOMAIN ul /\ l[i] = ul[i - m]
      BY <1>1, <1>2, <2>2
    <3> QED
      BY Zenon, <2>2, <3>1 DEF Members
  <2> QED
    BY Zenon, <2>1, <2>2
<1>5. Members(l) = Members(tl) \cup Members(ul)
  <2>1. ASSUME NEW t \in Members(tl) PROVE t \in Members(l)
    <3>1. PICK i \in 1..m : tl[i] = t
      BY Zenon, <1>1, <2>1 DEF Members
    <3>2. i \in DOMAIN l /\ l[i] = t
      BY <1>1, <1>2, <1>3, <3>1
    <3> QED
      BY Zenon, <3>2 DEF Members
  <2>2. ASSUME NEW t \in Members(ul) PROVE t \in Members(l)
    <3>1. PICK i \in 1..n : ul[i] = t
      BY Zenon, <1>1, <2>2 DEF Members
    <3>2. m + i \in 1..(m + n) /\ ~(m + i <= m) /\ (m + i) - m = i
      BY <1>1
    <3>3. m + i \in DOMAIN l /\ l[m + i] = t
      BY Zenon, <1>2, <1>3, <3>1, <3>2
    <3> QED
      BY Zenon, <3>3 DEF Members
  <2>3. ASSUME NEW t \in Members(l) PROVE t \in Members(tl) \cup Members(ul)
    BY Zenon, <1>3, <1>4 DEF Members
  <2> QED
    BY Zenon, <2>1, <2>2, <2>3
<1>6. ASSUME NoDup(tl), NoDup(ul), Members(tl) \cap Members(ul) = {} PROVE NoDup(l)
  <2> SUFFICES ASSUME NEW i \in 1..(m + n), NEW j \in 1..(m + n), l[i] = l[j] PROVE i = j
    BY Zenon, <1>3 DEF NoDup
  <2>1. CASE i <= m /\ j <= m
    BY Zenon, <1>4, <1>6, <2>1 DEF NoDup
  <2>2. CASE ~(i <= m) /\ ~(j <= m)
    <3>1. i - m \in DOMAIN ul /\ j - m \in DOMAIN ul /\ ul[i - m] = ul[j - m]
      BY Zenon, <1>4, <2>2
    <3>2. i - m = j - m
      BY Zenon, <1>6, <3>1 DEF NoDup
    <3> QED
      BY <1>1, <3>2
  <2>3. CASE ~(i <= m <=> j <= m)
    BY Zenon, <1>4, <1>6, <2>3
  <2> QED
    BY Zenon, <2>1, <2>2, <2>3
<1> QED
  BY Zenon, <1>2, <1>5, <1>6 DEF l, m, n
=============================================================================
