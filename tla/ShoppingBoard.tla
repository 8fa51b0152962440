---------------------------- MODULE ShoppingBoard ----------------------------
(* What the backend promises of the shared shopping lists, with every         *)
(* operation a single step: the Repository interface of lists/lists.go as its *)
(* callers understand it.  ListStore implements it in many steps.             *)
EXTENDS FiniteSets

CONSTANTS Lists, Items, Actors, SeedLists, SeedItems, None

VARIABLES
  board,     \* [Lists -> {"absent", "present", "gone"}]
  author,    \* who created each list
  shelf,     \* [Items -> {"absent", "present", "hidden", "gone"}]
  card       \* what each item says: its list, whether bought, by whom, for whom

state == <<board, author, shelf, card>>

Blank == [list |-> None, bought |-> FALSE, addedBy |-> None, boughtBy |-> None]

On(l) == {i \in Items : shelf[i] \in {"present", "hidden"} /\ card[i].list = l}
Absent == {i \in Items : shelf[i] = "absent"}

Start ==
  /\ board = [l \in Lists |-> IF l \in SeedLists THEN "present" ELSE "absent"]
  /\ author = [l \in Lists |-> None]
  /\ \A i \in Items : IF i \in SeedItems
                      THEN shelf[i] \in {"present", "hidden"} /\ card[i].list \in SeedLists
                      ELSE shelf[i] = "absent" /\ card[i] = Blank

\* A list appears whole: empty when it is created, with the open cards of its
\* maker when it is copied from `source`, which is there at that very moment.
Appear(l, a, cards) ==
  /\ board[l] = "absent"
  /\ board' = [board EXCEPT ![l] = "present"]
  /\ author' = [author EXCEPT ![l] = a]
  /\ shelf' = [i \in Items |-> IF i \in cards THEN "present" ELSE shelf[i]]
  /\ card' = [i \in Items |-> IF i \in cards
                              THEN [Blank EXCEPT !.list = l, !.addedBy = a]
                              ELSE card[i]]

Create(l, a) == Appear(l, a, {})

Copy(source, l, a) ==
  /\ board[source] = "present"
  /\ \E cards \in SUBSET Absent : Appear(l, a, cards)

\* A list goes with everything on it.
Discard(l) ==
  /\ board[l] = "present"
  /\ board' = [board EXCEPT ![l] = "gone"]
  /\ author' = [author EXCEPT ![l] = None]
  /\ shelf' = [i \in Items |-> IF i \in On(l) THEN "gone" ELSE shelf[i]]
  /\ card' = [i \in Items |-> IF i \in On(l) THEN Blank ELSE card[i]]

\* Buying at once is the add an offline client has already ticked off.
Add(i, l, a, bought) ==
  /\ board[l] = "present" /\ shelf[i] = "absent"
  /\ shelf' = [shelf EXCEPT ![i] = "present"]
  /\ card' = [card EXCEPT ![i] = [list |-> l, bought |-> bought, addedBy |-> a,
                                  boughtBy |-> IF bought THEN a ELSE None]]
  /\ UNCHANGED <<board, author>>

Hide(i) ==
  /\ shelf[i] = "present"
  /\ shelf' = [shelf EXCEPT ![i] = "hidden"]
  /\ UNCHANGED <<board, author, card>>

Unhide(i) ==
  /\ shelf[i] = "hidden"
  /\ shelf' = [shelf EXCEPT ![i] = "present"]
  /\ UNCHANGED <<board, author, card>>

Buy(i, a) ==
  /\ shelf[i] = "present"
  /\ card' = [card EXCEPT ![i].bought = TRUE, ![i].boughtBy = a]
  /\ UNCHANGED <<board, author, shelf>>

PutBack(i) ==
  /\ shelf[i] = "present"
  /\ card' = [card EXCEPT ![i].bought = FALSE, ![i].boughtBy = None]
  /\ UNCHANGED <<board, author, shelf>>

Act ==
  \/ \E l \in Lists : Discard(l)
  \/ \E l \in Lists, a \in Actors : Create(l, a)
  \/ \E l, source \in Lists, a \in Actors : Copy(source, l, a)
  \/ \E i \in Items, l \in Lists, a \in Actors, b \in BOOLEAN : Add(i, l, a, b)
  \/ \E i \in Items : Hide(i) \/ Unhide(i) \/ PutBack(i)
  \/ \E i \in Items, a \in Actors : Buy(i, a)

BoardSpec == Start /\ [][Act]_state
=============================================================================
