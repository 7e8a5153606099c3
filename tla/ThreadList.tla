----------------------------- MODULE ThreadList -----------------------------
(***************************************************************************)
(* The list of threads of kern/thread/threadlist.c as a sequence, head     *)
(* first.  Run queues, wait channels, zombie lists and the private lists   *)
(* of wchan_wakeall and thread_consider_migration are such lists.          *)
(***************************************************************************)
EXTENDS Naturals, Sequences

threadlist_init == <<>>
threadlist_isempty(tl) == tl = <<>>

threadlist_addhead(tl, t) == <<t>> \o tl
threadlist_addtail(tl, t) == Append(tl, t)

(* The thread threadlist_remhead (remtail) returns, and the list it leaves. *)
threadlist_head(tl) == tl[1]
threadlist_remhead(tl) == Tail(tl)
threadlist_tail(tl) == tl[Len(tl)]
threadlist_remtail(tl) == SubSeq(tl, 1, Len(tl) - 1)

(* The threads on a list. *)
Members(tl) == {tl[i] : i \in DOMAIN tl}

(* A thread has one t_listnode, so it can be on a list only once. *)
NoDup(tl) == \A i, j \in DOMAIN tl : tl[i] = tl[j] => i = j
=============================================================================
