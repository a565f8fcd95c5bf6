----------------------------- MODULE QueueMacros -----------------------------
(***************************************************************************)
(* The lists of include/sys/queue.h: SLIST, STAILQ, LIST and TAILQ.  A     *)
(* pointer to a link field is modelled by the head or element the field is *)
(* in, so "link" is the first element of a head and the next one of an     *)
(* element, and "back" is the last field of a head and the prev field of   *)
(* an element.  Each macro is a function of these two; beside them runs    *)
(* the list as its clients see it, a sequence.                             *)
(***************************************************************************)
EXTENDS Integers, SequencesExt

CONSTANTS Heads, Elms, NULL, Trash

VARIABLES
  kind,    \* the family of macros in use
  debug,   \* QUEUE_MACRO_DEBUG
  mem,     \* [link, back]
  lists,   \* what the client has put together: a sequence for each head
  loop     \* a FOREACH_SAFE loop over one of the lists

vars == <<kind, debug, mem, lists, loop>>

Mem(link, back) == [link |-> link, back |-> back]

(* f, with x set to v if the condition holds.                              *)
SetIf(f, condition, x, v) == IF condition THEN [f EXCEPT ![x] = v] ELSE f

TRASHIT(f, x) == SetIf(f, debug, x, Trash)

(* The loop of the REMOVE macros of singly-linked lists.                   *)
RECURSIVE Before(_, _, _)
Before(m, x, elm) == IF m.link[x] = elm THEN x ELSE Before(m, m.link[x], elm)

(***************************************************************************)
(* SLIST                                                                   *)
(***************************************************************************)
SLIST_INIT(m, h) == Mem([m.link EXCEPT ![h] = NULL], m.back)

SLIST_INSERT_AFTER(m, x, elm) == Mem([m.link EXCEPT ![elm] = m.link[x], ![x] = elm], m.back)

SLIST_INSERT_HEAD(m, h, elm) == Mem([m.link EXCEPT ![elm] = m.link[h], ![h] = elm], m.back)

SLIST_REMOVE_AFTER(m, x) == Mem([m.link EXCEPT ![x] = m.link[m.link[x]]], m.back)

SLIST_REMOVE_HEAD(m, h) == Mem([m.link EXCEPT ![h] = m.link[m.link[h]]], m.back)

SLIST_REMOVE(m, h, elm) ==
  LET r == IF m.link[h] = elm THEN SLIST_REMOVE_HEAD(m, h) ELSE SLIST_REMOVE_AFTER(m, Before(m, m.link[h], elm))
  IN  Mem(TRASHIT(r.link, elm), r.back)

SLIST_SWAP(m, h1, h2) == Mem([m.link EXCEPT ![h1] = m.link[h2], ![h2] = m.link[h1]], m.back)

(***************************************************************************)
(* STAILQ                                                                  *)
(***************************************************************************)
STAILQ_INIT(m, h) == Mem([m.link EXCEPT ![h] = NULL], [m.back EXCEPT ![h] = h])

(* Variant: the second head keeps its elements.                            *)
CONCAT_Keeps(m, h1, h2) ==
  IF m.link[h2] = NULL THEN m
  ELSE Mem([m.link EXCEPT ![m.back[h1]] = m.link[h2]], [m.back EXCEPT ![h1] = m.back[h2]])

STAILQ_CONCAT(m, h1, h2) ==
  IF m.link[h2] = NULL THEN m
  ELSE STAILQ_INIT(Mem([m.link EXCEPT ![m.back[h1]] = m.link[h2]], [m.back EXCEPT ![h1] = m.back[h2]]), h2)

STAILQ_INSERT_AFTER(m, h, x, elm) ==
  Mem([m.link EXCEPT ![elm] = m.link[x], ![x] = elm], SetIf(m.back, m.link[x] = NULL, h, elm))

STAILQ_INSERT_HEAD(m, h, elm) ==
  Mem([m.link EXCEPT ![elm] = m.link[h], ![h] = elm], SetIf(m.back, m.link[h] = NULL, h, elm))

STAILQ_INSERT_TAIL(m, h, elm) ==
  Mem([m.link EXCEPT ![elm] = NULL, ![m.back[h]] = elm], [m.back EXCEPT ![h] = elm])

STAILQ_LAST(m, h) == IF m.link[h] = NULL THEN NULL ELSE m.back[h]

(* Variant: the last field still leads to the element that was removed.    *)
REMOVE_AFTER_KeepsLast(m, h, x) == Mem([m.link EXCEPT ![x] = m.link[m.link[x]]], m.back)

STAILQ_REMOVE_AFTER(m, h, x) ==
  LET next == m.link[m.link[x]]
  IN  Mem([m.link EXCEPT ![x] = next], SetIf(m.back, next = NULL, h, x))

STAILQ_REMOVE_HEAD(m, h) ==
  LET first == m.link[m.link[h]]
  IN  Mem([m.link EXCEPT ![h] = first], SetIf(m.back, first = NULL, h, h))

STAILQ_REMOVE(m, h, elm) ==
  LET r == IF m.link[h] = elm THEN STAILQ_REMOVE_HEAD(m, h) ELSE STAILQ_REMOVE_AFTER(m, h, Before(m, m.link[h], elm))
  IN  Mem(TRASHIT(r.link, elm), r.back)

STAILQ_SWAP(m, h1, h2) ==
  LET link == [m.link EXCEPT ![h1] = m.link[h2], ![h2] = m.link[h1]]
      back == [m.back EXCEPT ![h1] = m.back[h2], ![h2] = m.back[h1]]
  IN  Mem(link, SetIf(SetIf(back, link[h1] = NULL, h1, h1), link[h2] = NULL, h2, h2))

(***************************************************************************)
(* LIST                                                                    *)
(***************************************************************************)
LIST_INIT(m, h) == Mem([m.link EXCEPT ![h] = NULL], m.back)

LIST_INSERT_AFTER(m, x, elm) ==
  LET back == SetIf(m.back, m.link[x] # NULL, m.link[x], elm)
  IN  Mem([m.link EXCEPT ![elm] = m.link[x], ![x] = elm], [back EXCEPT ![elm] = x])

LIST_INSERT_BEFORE(m, x, elm) ==
  Mem([m.link EXCEPT ![elm] = x, ![m.back[x]] = elm], [m.back EXCEPT ![elm] = m.back[x], ![x] = elm])

LIST_INSERT_HEAD(m, h, elm) ==
  LET back == SetIf(m.back, m.link[h] # NULL, m.link[h], elm)
  IN  Mem([m.link EXCEPT ![elm] = m.link[h], ![h] = elm], [back EXCEPT ![elm] = h])

(* Variant: the next element still leads back to the one removed.          *)
REMOVE_KeepsPrev(m, elm) ==
  Mem(TRASHIT([m.link EXCEPT ![m.back[elm]] = m.link[elm]], elm), TRASHIT(m.back, elm))

LIST_REMOVE(m, elm) ==
  LET back == SetIf(m.back, m.link[elm] # NULL, m.link[elm], m.back[elm])
  IN  Mem(TRASHIT([m.link EXCEPT ![m.back[elm]] = m.link[elm]], elm), TRASHIT(back, elm))

LIST_SWAP(m, h1, h2) ==
  LET link == [m.link EXCEPT ![h1] = m.link[h2], ![h2] = m.link[h1]]
      back == SetIf(m.back, link[h1] # NULL, link[h1], h1)
  IN  Mem(link, SetIf(back, link[h2] # NULL, link[h2], h2))

(***************************************************************************)
(* TAILQ                                                                   *)
(***************************************************************************)
TAILQ_INIT(m, h) == Mem([m.link EXCEPT ![h] = NULL], [m.back EXCEPT ![h] = h])

TAILQ_CONCAT(m, h1, h2) ==
  IF m.link[h2] = NULL THEN m
  ELSE TAILQ_INIT(Mem([m.link EXCEPT ![m.back[h1]] = m.link[h2]],
                      [m.back EXCEPT ![m.link[h2]] = m.back[h1], ![h1] = m.back[h2]]), h2)

TAILQ_INSERT_AFTER(m, h, x, elm) ==
  LET next == m.link[x]
  IN  Mem([m.link EXCEPT ![elm] = next, ![x] = elm],
          [m.back EXCEPT ![IF next # NULL THEN next ELSE h] = elm, ![elm] = x])

TAILQ_INSERT_BEFORE(m, x, elm) ==
  Mem([m.link EXCEPT ![elm] = x, ![m.back[x]] = elm], [m.back EXCEPT ![elm] = m.back[x], ![x] = elm])

TAILQ_INSERT_HEAD(m, h, elm) ==
  LET first == m.link[h]
  IN  Mem([m.link EXCEPT ![elm] = first, ![h] = elm],
          [m.back EXCEPT ![IF first # NULL THEN first ELSE h] = elm, ![elm] = h])

TAILQ_INSERT_TAIL(m, h, elm) ==
  Mem([m.link EXCEPT ![elm] = NULL, ![m.back[h]] = elm], [m.back EXCEPT ![elm] = m.back[h], ![h] = elm])

(* The last field of a head and the prev field of an element are at the    *)
(* same place, right after the link: that is what the cast relies on.      *)
TAILQ_LAST(m, h) == m.link[m.back[m.back[h]]]

TAILQ_PREV(m, elm) == m.link[m.back[m.back[elm]]]

TAILQ_REMOVE(m, h, elm) ==
  LET next == m.link[elm]
      back == [m.back EXCEPT ![IF next # NULL THEN next ELSE h] = m.back[elm]]
  IN  Mem(TRASHIT([m.link EXCEPT ![m.back[elm]] = next], elm), TRASHIT(back, elm))

TAILQ_SWAP(m, h1, h2) ==
  LET link == [m.link EXCEPT ![h1] = m.link[h2], ![h2] = m.link[h1]]
      back == [m.back EXCEPT ![h1] = m.back[h2], ![h2] = m.back[h1]]
      fix1 == [back EXCEPT ![IF link[h1] # NULL THEN link[h1] ELSE h1] = h1]
  IN  Mem(link, [fix1 EXCEPT ![IF link[h2] # NULL THEN link[h2] ELSE h2] = h2])

(***************************************************************************)
(* The conditions under which the checks of INVARIANTS kernels pass.       *)
(***************************************************************************)
QMD_LIST_CHECK_HEAD(h) == mem.link[h] # NULL => mem.back[mem.link[h]] = h
QMD_LIST_CHECK_NEXT(elm) == mem.link[elm] # NULL => mem.back[mem.link[elm]] = elm
QMD_LIST_CHECK_PREV(elm) == mem.link[mem.back[elm]] = elm
QMD_TAILQ_CHECK_HEAD(h) == mem.link[h] # NULL => mem.back[mem.link[h]] = h
QMD_TAILQ_CHECK_TAIL(h) == mem.link[mem.back[h]] = NULL
QMD_TAILQ_CHECK_NEXT(elm) == mem.link[elm] # NULL => mem.back[mem.link[elm]] = elm
QMD_TAILQ_CHECK_PREV(elm) == mem.link[mem.back[elm]] = elm

(***************************************************************************)
(* The client                                                              *)
(***************************************************************************)
HasLast == kind \in {"STAILQ", "TAILQ"}
HasPrev == kind \in {"LIST", "TAILQ"}

NoLoop == [head |-> NULL, var |-> NULL, tvar |-> NULL, todo |-> <<>>, reverse |-> FALSE]

INIT(m, h) ==
  CASE kind = "SLIST" -> SLIST_INIT(m, h) [] kind = "STAILQ" -> STAILQ_INIT(m, h)
    [] kind = "LIST"  -> LIST_INIT(m, h)  [] kind = "TAILQ"  -> TAILQ_INIT(m, h)

(* What is in the memory of a head or an element at first does not matter. *)
Init ==
  /\ kind \in {"SLIST", "STAILQ", "LIST", "TAILQ"} /\ debug \in BOOLEAN
  /\ LET fresh == [x \in Heads \cup Elms |-> Trash]
     IN  mem = FoldSet(LAMBDA h, m : INIT(m, h), Mem(fresh, fresh), Heads)
  /\ lists = [h \in Heads |-> <<>>]
  /\ loop = NoLoop

Used == UNION {ToSet(lists[h]) : h \in Heads}

Becomes(h, s) == lists' = [lists EXCEPT ![h] = s]
Position(h, elm) == CHOOSE k \in DOMAIN lists[h] : lists[h][k] = elm

INSERT_HEAD(h, elm) ==
  /\ Becomes(h, <<elm>> \o lists[h])
  /\ mem' = CASE kind = "SLIST"  -> SLIST_INSERT_HEAD(mem, h, elm)
              [] kind = "STAILQ" -> STAILQ_INSERT_HEAD(mem, h, elm)
              [] kind = "LIST"   -> LIST_INSERT_HEAD(mem, h, elm)
              [] kind = "TAILQ"  -> TAILQ_INSERT_HEAD(mem, h, elm)

INSERT_TAIL(h, elm) ==
  /\ HasLast /\ Becomes(h, Append(lists[h], elm))
  /\ mem' = IF kind = "TAILQ" THEN TAILQ_INSERT_TAIL(mem, h, elm) ELSE STAILQ_INSERT_TAIL(mem, h, elm)

INSERT_AFTER(h, x, elm) ==
  /\ Becomes(h, InsertAt(lists[h], Position(h, x) + 1, elm))
  /\ mem' = CASE kind = "SLIST"  -> SLIST_INSERT_AFTER(mem, x, elm)
              [] kind = "STAILQ" -> STAILQ_INSERT_AFTER(mem, h, x, elm)
              [] kind = "LIST"   -> LIST_INSERT_AFTER(mem, x, elm)
              [] kind = "TAILQ"  -> TAILQ_INSERT_AFTER(mem, h, x, elm)

INSERT_BEFORE(h, x, elm) ==
  /\ HasPrev /\ Becomes(h, InsertAt(lists[h], Position(h, x), elm))
  /\ mem' = IF kind = "LIST" THEN LIST_INSERT_BEFORE(mem, x, elm) ELSE TAILQ_INSERT_BEFORE(mem, x, elm)

REMOVE(h, elm) ==
  /\ Becomes(h, Remove(lists[h], elm))
  /\ mem' = CASE kind = "SLIST"  -> SLIST_REMOVE(mem, h, elm)
              [] kind = "STAILQ" -> STAILQ_REMOVE(mem, h, elm)
              [] kind = "LIST"   -> LIST_REMOVE(mem, elm)
              [] kind = "TAILQ"  -> TAILQ_REMOVE(mem, h, elm)

REMOVE_HEAD(h) ==
  /\ ~HasPrev /\ lists[h] # <<>> /\ Becomes(h, Tail(lists[h]))
  /\ mem' = IF kind = "SLIST" THEN SLIST_REMOVE_HEAD(mem, h) ELSE STAILQ_REMOVE_HEAD(mem, h)

REMOVE_AFTER(h, x) ==
  /\ ~HasPrev /\ x # Last(lists[h]) /\ Becomes(h, RemoveAt(lists[h], Position(h, x) + 1))
  /\ mem' = IF kind = "SLIST" THEN SLIST_REMOVE_AFTER(mem, x) ELSE STAILQ_REMOVE_AFTER(mem, h, x)

CONCAT(h1, h2) ==
  /\ HasLast /\ h1 # h2 /\ lists' = [lists EXCEPT ![h1] = @ \o lists[h2], ![h2] = <<>>]
  /\ mem' = IF kind = "TAILQ" THEN TAILQ_CONCAT(mem, h1, h2) ELSE STAILQ_CONCAT(mem, h1, h2)

SWAP(h1, h2) ==
  /\ lists' = [lists EXCEPT ![h1] = lists[h2], ![h2] = lists[h1]]
  /\ mem' = CASE kind = "SLIST"  -> SLIST_SWAP(mem, h1, h2)
              [] kind = "STAILQ" -> STAILQ_SWAP(mem, h1, h2)
              [] kind = "LIST"   -> LIST_SWAP(mem, h1, h2)
              [] kind = "TAILQ"  -> TAILQ_SWAP(mem, h1, h2)

Change ==
  /\ loop = NoLoop /\ UNCHANGED <<kind, debug, loop>>
  /\ \E h \in Heads :
       \/ \E elm \in Elms \ Used :
            \/ INSERT_HEAD(h, elm) \/ INSERT_TAIL(h, elm)
            \/ \E x \in ToSet(lists[h]) : INSERT_AFTER(h, x, elm) \/ INSERT_BEFORE(h, x, elm)
       \/ \E x \in ToSet(lists[h]) : REMOVE(h, x) \/ REMOVE_AFTER(h, x)
       \/ REMOVE_HEAD(h)
       \/ \E other \in Heads : CONCAT(h, other) \/ SWAP(h, other)

(***************************************************************************)
(* FOREACH_SAFE and FOREACH_REVERSE_SAFE, with a body that removes the     *)
(* element it is at, and perhaps puts it into another list.                *)
(***************************************************************************)
Step(x, reverse) == IF x \notin Elms THEN NULL ELSE IF reverse THEN TAILQ_PREV(mem, x) ELSE mem.link[x]

FOREACH_SAFE(h, reverse) ==
  LET var == IF reverse THEN TAILQ_LAST(mem, h) ELSE mem.link[h]
  IN  /\ loop = NoLoop /\ var # NULL
      /\ loop' = [head |-> h, var |-> var, tvar |-> Step(var, reverse), reverse |-> reverse,
                  todo |-> IF reverse THEN Reverse(lists[h]) ELSE lists[h]]
      /\ UNCHANGED <<kind, debug, mem, lists>>

Body ==
  /\ loop # NoLoop /\ UNCHANGED <<kind, debug, loop>>
  /\ \/ Contains(lists[loop.head], loop.var) /\ REMOVE(loop.head, loop.var)
     \/ \E h \in Heads \ {loop.head} :
          loop.var \notin Used /\ (INSERT_HEAD(h, loop.var) \/ INSERT_TAIL(h, loop.var))

(* Variant: FOREACH, which looks for the next element after the body.      *)
FOREACH_Next == Step(loop.var, loop.reverse)

FOREACH_SAFE_Next == loop.tvar

Advance ==
  LET var == FOREACH_SAFE_Next
  IN  /\ loop # NoLoop
      /\ loop' = IF var = NULL /\ Len(loop.todo) = 1 THEN NoLoop
                 ELSE [loop EXCEPT !.var = var, !.tvar = Step(var, loop.reverse), !.todo = Tail(@)]
      /\ UNCHANGED <<kind, debug, mem, lists>>

Next ==
  \/ Change
  \/ \E h \in Heads : FOREACH_SAFE(h, FALSE) \/ (kind = "TAILQ" /\ FOREACH_SAFE(h, TRUE))
  \/ Body
  \/ Advance

Spec == Init /\ [][Next]_vars

(***************************************************************************)
(* Properties                                                              *)
(***************************************************************************)
RECURSIVE Walk(_, _, _)
Walk(x, reverse, fuel) ==
  IF x \notin Elms \/ fuel = 0 THEN <<>> ELSE <<x>> \o Walk(Step(x, reverse), reverse, fuel - 1)

Fuel == 1 + Cardinality(Elms)

(* After any sequence of operations FOREACH over a head meets exactly the  *)
(* elements the client has put there, in the client's order, whatever was  *)
(* left in the fields of elements that were removed or moved.              *)
ListsAgree == \A h \in Heads : Walk(mem.link[h], FALSE, Fuel) = lists[h]

(* The last element is found without a walk, also of a list that was       *)
(* emptied, joined to another or exchanged with it, and TAILQ_PREV leads   *)
(* from it through the list backwards and stops before the first element,  *)
(* although it reads the head as if it were an element.                    *)
EndsAgree ==
  \A h \in Heads :
    LET last == IF lists[h] = <<>> THEN NULL ELSE Last(lists[h])
    IN  /\ kind = "STAILQ" => STAILQ_LAST(mem, h) = last
        /\ kind = "TAILQ" => TAILQ_LAST(mem, h) = last /\ Walk(last, TRUE, Fuel) = Reverse(lists[h])

(* No check of an INVARIANTS kernel panics on a list that was only ever    *)
(* changed by the macros.                                                  *)
NoPanic ==
  \A h \in Heads :
    /\ kind = "LIST" =>
         QMD_LIST_CHECK_HEAD(h) /\ \A x \in ToSet(lists[h]) : QMD_LIST_CHECK_NEXT(x) /\ QMD_LIST_CHECK_PREV(x)
    /\ kind = "TAILQ" =>
         /\ QMD_TAILQ_CHECK_HEAD(h) /\ QMD_TAILQ_CHECK_TAIL(h)
         /\ \A x \in ToSet(lists[h]) : QMD_TAILQ_CHECK_NEXT(x) /\ QMD_TAILQ_CHECK_PREV(x)

(* A FOREACH_SAFE loop visits each element that was in the list when it    *)
(* began once and in order, although its body may remove the element and   *)
(* put it into another list, with its fields overwritten or trashed.       *)
VisitsAll == loop # NoLoop => loop.todo # <<>> /\ loop.var = Head(loop.todo)
=============================================================================
