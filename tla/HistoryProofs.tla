---------------------------- MODULE HistoryProofs --------------------------
(***************************************************************************)
(* Proofs about the input history, for every set of lines and every size   *)
(* of the ring: its indices stay inside it and no slot that was never used *)
(* is met (TypeCorrect), and what the user sees of it is a plain list of   *)
(* the last lines with a cursor (RingImplementsList).                      *)
(***************************************************************************)
EXTENDS History, TLAPS

(***************************************************************************)
(* The slots in use may hold a null pointer in one case only: the ring has *)
(* just grown and pos is its new, last slot.  Until the ring is full, pos  *)
(* is the last slot, which is why growing never leaves a hole behind.      *)
(* The cursor leaves pos only by storing the entry there, so coming back   *)
(* finds a line.                                                           *)
(***************************************************************************)
Filled == \A i \in 0..size - 1 : 
    list[i] = NULL => i = pos /\ i = cur /\ i = size - 1 /\ i > 0

Growing == size < max => pos = size - 1

IInv == TypeOK /\ Filled /\ Growing

-----------------------------------------------------------------------------

\* One step forward in a ring of n slots either is the next slot or goes
\* round to the first.
LEMMA Forward ==
    ASSUME NEW n \in Nat \ {0}, NEW i \in 0..n - 1
    PROVE  (i + 1) % n = IF i = n - 1 THEN 0 ELSE i + 1
  <1>1. CASE i = n - 1
    <2>1. n % n = 0
      BY SMT
    <2> QED BY <1>1, <2>1
  <1>2. CASE i # n - 1
    <2>1. i + 1 \in 0..n - 1
      BY <1>2
    <2> QED BY <1>2, <2>1
  <1> QED BY <1>1, <1>2

\* Storing the entry in the slot of the cursor fills it.
LEMMA StoredLemma ==
    ASSUME IInv
    PROVE  /\ Stored \in [Slot -> Line \cup {NULL}]
           /\ Stored[cur] # NULL
           /\ \A i \in Slot \ {cur} : Stored[i] = list[i]
           /\ cur \in Slot /\ pos \in Slot /\ Newest \in 0..size - 1
  BY HistoryAssumption DEF IInv, TypeOK, Stored, Slot, Newest

-----------------------------------------------------------------------------

LEMMA InitInv == Init => IInv
  <1> SUFFICES ASSUME Init PROVE IInv
    OBVIOUS
  <1> USE HistoryAssumption
  <1>1. /\ list = [i \in Slot |-> IF i = 0 THEN EMPTY ELSE NULL]
        /\ size = 1 /\ pos = 0 /\ cur = 0 /\ ent = EMPTY
        /\ hide_input = FALSE /\ sent = EMPTY
    BY DEF Init
  <1>2. list \in [Slot -> Line \cup {NULL}] /\ 0 \in Slot /\ list[0] = EMPTY
    BY <1>1 DEF Slot
  <1>3. EMPTY # NULL /\ EMPTY \in Line
    OBVIOUS
  <1>4. TypeOK
    <2>1. Newest = 0
      BY <1>1 DEF Newest
    <2>2. size \in 1..max /\ pos \in 0..size - 1 /\ cur \in 0..size - 1
      BY <1>1
    <2> QED BY <1>1, <1>2, <1>3, <2>1, <2>2 DEF TypeOK
  <1>5. Filled
    BY <1>1, <1>2, <1>3 DEF Filled
  <1> QED BY <1>1, <1>4, <1>5 DEF IInv, Growing

\* A line that is remembered fills the slot at pos, and pos moves to a slot
\* in use or to the one the ring has just gained.
LEMMA AddKeeps ==
    ASSUME IInv, NEW x \in Line, hist_add(x), ent' \in Line, sent' \in Line,
           hide_input' \in BOOLEAN
    PROVE  IInv'
  <1> USE HistoryAssumption
  <1>1. CASE UNCHANGED hist
    BY <1>1 DEF IInv, TypeOK, Filled, Growing, hist, Newest
  <1>2. CASE ~(hide_input \/ Repeats(x))
    <2>1. /\ list' = [list EXCEPT ![pos] = x]
          /\ size' = Grown /\ pos' = Advanced /\ cur' = Advanced
      BY <1>2 DEF hist_add
    <2>2. /\ Grown \in Nat \ {0} /\ Grown \in 1..max /\ pos \in 0..Grown - 1
          /\ size \in 1..max /\ pos \in 0..size - 1
      BY DEF IInv, TypeOK, Grown
    <2>3. Advanced = IF pos = Grown - 1 THEN 0 ELSE pos + 1
      BY <2>2, Forward DEF Advanced
    <2>4. /\ size' \in 1..max /\ pos' \in 0..size' - 1 /\ cur' \in 0..size' - 1
          /\ list' \in [Slot -> Line \cup {NULL}]
          /\ list'[pos] = x /\ x # NULL
          /\ \A i \in Slot \ {pos} : list'[i] = list[i]
      BY <2>1, <2>2, <2>3 DEF IInv, TypeOK, Slot
    <2>5. Filled'
      BY <2>1, <2>2, <2>3, <2>4 DEF IInv, TypeOK, Filled, Growing, Grown, Slot
    <2>6. Growing'
      BY <2>1, <2>2, <2>3 DEF IInv, TypeOK, Growing, Grown
    <2>7. list'[Newest'] # NULL
      BY <2>1, <2>2, <2>3, <2>4, <2>5 DEF IInv, TypeOK, Filled, Growing, Grown, Slot, Newest
    <2> QED BY <2>4, <2>5, <2>6, <2>7 DEF IInv, TypeOK
  <1> QED BY <1>1, <1>2 DEF hist_add

LEMMA UpKeeps ==
    ASSUME IInv, Up
    PROVE  IInv'
  <1> USE HistoryAssumption
  <1>1. CASE UNCHANGED <<hist, ent>>
    BY <1>1 DEF IInv, TypeOK, Filled, Growing, Up, hist, Newest
  <1>2. CASE ~AtOldest
    <2>1. /\ list' = Stored
          /\ cur' = (IF cur = 0 THEN size - 1 ELSE cur - 1)
          /\ ent' = Stored[cur']
          /\ UNCHANGED <<size, pos, hide_input, sent>>
      BY <1>2 DEF Up, hist_prev
    <2>2. cur' \in 0..size - 1
      BY <2>1 DEF IInv, TypeOK
    <2>3. Filled' /\ list'[Newest'] # NULL
      BY <2>1, StoredLemma DEF IInv, TypeOK, Filled, Slot, Newest
    \* The cursor leaves pos for a slot that is full, and never comes to pos.
    <2>4. cur' # pos
      BY <1>2, <2>1, Forward DEF AtOldest, IInv, TypeOK
    <2>5. ent' \in Line
      BY <2>1, <2>2, <2>4, StoredLemma DEF IInv, TypeOK, Filled, Slot
    <2> QED BY <2>1, <2>2, <2>3, <2>5, StoredLemma DEF IInv, TypeOK, Growing
  <1> QED BY <1>1, <1>2 DEF Up, hist_prev

LEMMA DownKeeps ==
    ASSUME IInv, Down
    PROVE  IInv'
  <1> USE HistoryAssumption
  <1>1. CASE cur = pos
    <2>1. ent' = EMPTY /\ UNCHANGED <<list, size, pos, cur, hide_input, sent>>
      BY <1>1 DEF Down, hist_next, hist
    <2> QED BY <2>1 DEF IInv, TypeOK, Filled, Growing, Newest
  <1>2. CASE cur # pos
    <2>1. /\ list' = Stored /\ cur' = (cur + 1) % size /\ ent' = Stored[cur']
          /\ UNCHANGED <<size, pos, hide_input, sent>>
      BY <1>2 DEF Down, hist_next
    <2>2. cur' \in 0..size - 1 /\ cur' \in Slot
      BY <2>1, Forward DEF IInv, TypeOK, Slot
    <2>3. \A i \in 0..size - 1 : list'[i] # NULL
      BY <1>2, <2>1, StoredLemma DEF IInv, TypeOK, Filled, Slot
    <2>4. Newest' \in 0..size - 1
      BY <2>1, StoredLemma DEF Newest
    <2>5. ent' \in Line
      BY <2>1, <2>2, <2>3, StoredLemma
    <2> QED BY <2>1, <2>2, <2>3, <2>4, <2>5, StoredLemma DEF IInv, TypeOK, Filled, Growing
  <1> QED BY <1>1, <1>2

\* The inductive invariant is preserved by every key, every line sent and
\* every change of the ECHO option.
LEMMA Step == IInv /\ [Next]_vars => IInv'
  <1> SUFFICES ASSUME IInv, [Next]_vars PROVE IInv'
    OBVIOUS
  <1> USE HistoryAssumption
  <1>1. CASE Type
    BY <1>1 DEF Type, hist, IInv, TypeOK, Filled, Growing, Newest
  <1>2. CASE Up
    BY <1>2, UpKeeps
  <1>3. CASE Down
    BY <1>3, DownKeeps
  <1>4. CASE SendToConnection
    <2>1. hist_add(ent) /\ ent \in Line /\ ent' \in Line /\ sent' \in Line
          /\ hide_input' \in BOOLEAN
      BY <1>4 DEF SendToConnection, IInv, TypeOK
    <2> QED BY <2>1, AddKeeps
  <1>5. ASSUME NEW state \in BOOLEAN, input_line_visible(state)
        PROVE  IInv'
    BY <1>5 DEF input_line_visible, hist, IInv, TypeOK, Filled, Growing, Newest
  <1>6. CASE UNCHANGED vars
    BY <1>6 DEF vars, hist, IInv, TypeOK, Filled, Growing, Newest
  <1> QED BY <1>1, <1>2, <1>3, <1>4, <1>5, <1>6 DEF Next

\* Whatever the user types, sends and browses, and whenever the mud hides the
\* input, the ring's indices stay inside it (hist_add, hist_prev, hist_next)
\* and strcmp() in input_line_visible() and gtk_entry_set_text() get a line.
THEOREM TypeCorrect == Spec => []TypeOK
  <1>1. IInv => TypeOK
    BY DEF IInv
  <1> QED BY InitInv, Step, <1>1, PTL DEF Spec

-----------------------------------------------------------------------------
(* The ring implements the list of Recall. *)

\* The slot k steps on from the first, at most once round.
Ring(n, k) == IF k < n THEN k ELSE k - n

LEMMA Around ==
    ASSUME NEW n \in Nat \ {0}, NEW k \in 0..2 * n - 1
    PROVE  k % n = Ring(n, k)
  <1>1. CASE k < n
    BY <1>1 DEF Ring
  <1>2. CASE k >= n
    <2>1. k - n \in 0..n - 1 /\ k = (k - n) + n
      BY <1>2
    <2>2. ((k - n) + n) % n = k - n
      BY <2>1, SMT
    <2> QED BY <1>2, <2>1, <2>2 DEF Ring
  <1> QED BY <1>1, <1>2

\* The lines as the slots of the ring after pos, and how far back cur is.
LEMMA Seen ==
    ASSUME IInv
    PROVE  /\ Lines \in Seq(Line \cup {NULL}) /\ Len(Lines) = size - 1
           /\ DOMAIN Lines = 1..size - 1
           /\ \A i \in 1..size - 1 : Lines[i] = list[Ring(size, pos + i)]
           /\ Back = IF cur <= pos THEN pos - cur ELSE pos - cur + size
           /\ Back \in 0..size - 1
           /\ Back = 0 <=> cur = pos
  <1> USE HistoryAssumption
  <1>1. size \in Nat \ {0} /\ pos \in 0..size - 1 /\ cur \in 0..size - 1 /\ size <= max
    BY DEF IInv, TypeOK
  <1>2. \A i \in 1..size - 1 : (pos + i) % size = Ring(size, pos + i)
    <2> TAKE i \in 1..size - 1
    <2>1. pos + i \in 0..2 * size - 1
      BY <1>1
    <2> QED BY <1>1, <2>1, Around
  <1>3. \A i \in 1..size - 1 : Ring(size, pos + i) \in Slot
    BY <1>1 DEF Ring, Slot
  <1>4. Lines \in [1..size - 1 -> Line \cup {NULL}]
    BY <1>1, <1>2, <1>3 DEF Lines, IInv, TypeOK
  <1>5. Lines \in Seq(Line \cup {NULL}) /\ Len(Lines) = size - 1
    <2>1. size - 1 \in Nat
      BY <1>1
    <2> QED BY <1>4, <2>1
  <1>6. \A i \in 1..size - 1 : Lines[i] = list[Ring(size, pos + i)]
    BY <1>2 DEF Lines
  <1>7. pos - cur + size \in 0..2 * size - 1
    BY <1>1
  <1>8. Back = Ring(size, pos - cur + size)
    BY <1>1, <1>7, Around DEF Back
  <1>9. DOMAIN Lines = 1..size - 1
    BY <1>4
  <1> QED BY <1>1, <1>5, <1>6, <1>8, <1>9 DEF Ring

\* The browser sees the same when ring and cursor stay.
LEMMA SeenSame ==
    ASSUME IInv, UNCHANGED hist
    PROVE  Lines' = Lines /\ Back' = Back /\ list' = list /\ pos' = pos
  BY DEF hist, Lines, Back

\* What leaving a line does to the list: nothing at rest, for then the entry
\* goes to the slot at pos, which is none of the lines.
LEMMA LeavesLine ==
    ASSUME IInv, list' = Stored, UNCHANGED <<size, pos>>
    PROVE  Lines' = TheRecall!Left
  <1> USE HistoryAssumption
  <1>1. size \in Nat \ {0} /\ pos \in 0..size - 1 /\ cur \in 0..size - 1 /\ size <= max
        /\ list \in [Slot -> Line \cup {NULL}]
    BY DEF IInv, TypeOK
  <1>2. \A i \in 1..size - 1 : (pos + i) % size = Ring(size, pos + i)
    <2> TAKE i \in 1..size - 1
    <2>1. pos + i \in 0..2 * size - 1
      BY <1>1
    <2> QED BY <1>1, <2>1, Around
  <1>3. Lines' = [i \in 1..size - 1 |-> Stored[Ring(size, pos + i)]]
    BY <1>2 DEF Lines
  <1>9. /\ Back = IF cur <= pos THEN pos - cur ELSE pos - cur + size
        /\ \A i \in 1..size - 1 : Lines[i] = list[Ring(size, pos + i)]
    BY Seen
  <1>4. ASSUME NEW i \in 1..size - 1
        PROVE  /\ Ring(size, pos + i) \in Slot
               /\ Ring(size, pos + i) # pos
               /\ (Ring(size, pos + i) = cur) <=> (cur # pos /\ i = size - Back)
    <2>1. Back = IF cur <= pos THEN pos - cur ELSE pos - cur + size
      BY <1>9
    <2>2. Ring(size, pos + i) \in Slot /\ Ring(size, pos + i) # pos
      BY <1>1 DEF Ring, Slot
    <2>3. (Ring(size, pos + i) = cur) <=> (cur # pos /\ i = size - Back)
      BY <1>1, <2>1 DEF Ring
    <2> QED BY <2>2, <2>3
  <1>5. \A i \in 1..size - 1 :
          Stored[Ring(size, pos + i)] = IF cur # pos /\ i = size - Back THEN ent ELSE Lines[i]
    <2> TAKE i \in 1..size - 1
    <2>1. cur \in DOMAIN list /\ Ring(size, pos + i) \in DOMAIN list
      <3>1. DOMAIN list = Slot
        BY <1>1
      <3>2. Ring(size, pos + i) \in Slot
        BY <1>4
      <3> QED BY <3>1, <3>2, StoredLemma
    <2>2. Stored[Ring(size, pos + i)]
            = IF Ring(size, pos + i) = cur THEN ent ELSE list[Ring(size, pos + i)]
      BY <2>1 DEF Stored
    <2> QED BY <1>4, <1>9, <2>2
  <1>6. Lines = [i \in 1..size - 1 |-> Lines[i]]
    BY DEF Lines
  <1>7. CASE cur = pos
    <2>1. TheRecall!Left = Lines
      BY <1>7, Seen DEF TheRecall!Left
    <2> QED BY <1>3, <1>5, <1>6, <1>7, <2>1
  <1>8. CASE cur # pos
    <2>1. TheRecall!Left = [Lines EXCEPT ![size - Back] = ent]
      <3>1. Len(Lines) + 1 - Back = size - Back
        BY <1>1, Seen
      <3> QED BY <1>8, <3>1, Seen DEF TheRecall!Left
    <2>2. [Lines EXCEPT ![size - Back] = ent]
            = [i \in 1..size - 1 |-> IF i = size - Back THEN ent ELSE Lines[i]]
      BY <1>6, Seen
    <2> QED BY <1>3, <1>5, <1>8, <2>1, <2>2
  <1> QED BY <1>7, <1>8

\* Up shows the line before, or stays at the oldest.
LEMMA UpIsOlder ==
    ASSUME IInv, Up
    PROVE  TheRecall!Older \/ UNCHANGED TheRecall!vars
  <1> USE HistoryAssumption
  <1>0. size \in Nat \ {0} /\ pos \in 0..size - 1 /\ cur \in 0..size - 1
    BY DEF IInv, TypeOK
  <1>1. CASE AtOldest
    BY <1>1, SeenSame DEF Up, hist_prev, TheRecall!vars
  <1>2. CASE ~AtOldest
    <2>1. /\ list' = Stored
          /\ cur' = (IF cur = 0 THEN size - 1 ELSE cur - 1)
          /\ ent' = Stored[cur']
          /\ UNCHANGED <<size, pos, hide_input, sent>>
      BY <1>2 DEF Up, hist_prev
    <2>2. Ring(size, pos + 1) # cur
      <3>1. pos + 1 \in 0..2 * size - 1
        BY <1>0
      <3> QED BY <1>0, <1>2, <3>1, Around DEF AtOldest
    <2>3. Back < size - 1
      BY <1>0, <2>2, Seen DEF Ring
    <2>4. IInv'
      BY UpKeeps
    <2>5. Back' = IF cur' <= pos THEN pos - cur' ELSE pos - cur' + size
      <3>1. pos - cur' + size \in 0..2 * size - 1
        BY <1>0, <2>1
      <3>2. Back' = Ring(size, pos - cur' + size)
        BY <1>0, <2>1, <3>1, Around DEF Back
      <3> QED BY <1>0, <2>1, <3>2 DEF Ring
    <2>6. Back' = Back + 1
      <3>1. Back = IF cur <= pos THEN pos - cur ELSE pos - cur + size
        BY Seen
      <3>2. cur' = IF cur = 0 THEN size - 1 ELSE cur - 1
        BY <2>1
      <3> QED BY <1>0, <2>3, <2>5, <3>1, <3>2
    <2>7. Lines' = TheRecall!Left
      BY <2>1, LeavesLine
    <2>8. ent' = Lines'[Len(Lines) - Back]
      <3>1. size - 1 - Back \in 1..size - 1 /\ Ring(size, pos + (size - 1 - Back)) = cur'
        <4>1. /\ Back = IF cur <= pos THEN pos - cur ELSE pos - cur + size
              /\ Back \in 0..size - 1
          BY Seen
        <4>2. size - 1 - Back \in 1..size - 1
          BY <1>0, <2>3, <4>1
        <4>3. pos + (size - 1 - Back) = IF cur <= pos THEN size - 1 + cur ELSE cur - 1
          BY <1>0, <4>1
        <4> QED BY <1>0, <2>1, <4>2, <4>3 DEF Ring
      <3>2. Lines'[size - 1 - Back] = list'[cur']
        <4>1. pos + (size - 1 - Back) \in 0..2 * size - 1
          BY <1>0, <3>1
        <4>2. (pos + (size - 1 - Back)) % size = cur'
          BY <1>0, <3>1, <4>1, Around
        <4> QED BY <2>1, <3>1, <4>2 DEF Lines
      <3> QED BY <2>1, <3>2, Seen
    <2>9. (IF Back' = 0 THEN EMPTY ELSE list'[pos'])
             = IF Back = 0 THEN ent ELSE (IF Back = 0 THEN EMPTY ELSE list[pos])
      <3>1. Back' # 0
        BY <2>6, Seen
      <3>2. Stored[pos] = IF Back = 0 THEN ent ELSE list[pos]
        BY Seen, StoredLemma DEF Stored, IInv, TypeOK
      <3> QED BY <2>1, <3>1, <3>2
    <2> QED BY <2>1, <2>3, <2>6, <2>7, <2>8, <2>9, Seen DEF TheRecall!Older
  <1> QED BY <1>1, <1>2

\* Down shows the line after, and in the end what was being typed; at rest it
\* empties the entry.
LEMMA DownIsNewer ==
    ASSUME IInv, Down
    PROVE  TheRecall!Newer \/ TheRecall!Edit
  <1> USE HistoryAssumption
  <1>0. size \in Nat \ {0} /\ pos \in 0..size - 1 /\ cur \in 0..size - 1
    BY DEF IInv, TypeOK
  <1>1. CASE cur = pos
    <2>1. ent' = EMPTY /\ UNCHANGED hist /\ UNCHANGED sent
      BY <1>1 DEF Down, hist_next
    <2> QED BY <2>1, SeenSame DEF TheRecall!Edit
  <1>2. CASE cur # pos
    <2>1. /\ list' = Stored
          /\ cur' = (cur + 1) % size
          /\ ent' = Stored[cur']
          /\ UNCHANGED <<size, pos, hide_input, sent>>
      BY <1>2 DEF Down, hist_next
    <2>2. cur' = Ring(size, cur + 1)
      <3>1. cur + 1 \in 0..2 * size - 1
        BY <1>0
      <3> QED BY <1>0, <2>1, <3>1, Around
    <2>3. Back \in 1..size - 1 /\ Back = IF cur <= pos THEN pos - cur ELSE pos - cur + size
      BY <1>0, <1>2, Seen
    <2>4. Back' = IF cur' <= pos THEN pos - cur' ELSE pos - cur' + size
      <3>1. pos - cur' + size \in 0..2 * size - 1
        BY <1>0, <2>2 DEF Ring
      <3>2. Back' = Ring(size, pos - cur' + size)
        BY <1>0, <2>1, <3>1, Around DEF Back
      <3> QED BY <1>0, <2>2, <3>2 DEF Ring
    <2>5. Back' = Back - 1
      BY <1>0, <1>2, <2>2, <2>3, <2>4 DEF Ring
    <2>6. Lines' = TheRecall!Left
      BY <2>1, LeavesLine
    <2>7. list'[pos'] = list[pos]
      BY <1>2, <2>1, StoredLemma
    <2>8. ent' = IF Back = 1 THEN list[pos] ELSE Lines'[Len(Lines) + 2 - Back]
      <3>1. CASE Back = 1
        <4>1. cur' = pos
          BY <1>0, <2>2, <2>3, <3>1 DEF Ring
        <4> QED BY <2>1, <2>7, <3>1, <4>1
      <3>2. CASE Back # 1
        <4>1. size + 1 - Back \in 1..size - 1 /\ Ring(size, pos + (size + 1 - Back)) = cur'
          BY <1>0, <2>2, <2>3, <3>2 DEF Ring
        <4>2. pos + (size + 1 - Back) \in 0..2 * size - 1
          BY <1>0, <4>1
        <4>3. (pos + (size + 1 - Back)) % size = cur'
          BY <1>0, <4>1, <4>2, Around
        <4>4. Lines'[size + 1 - Back] = list'[cur']
          BY <2>1, <4>1, <4>3 DEF Lines
        <4>5. Len(Lines) + 2 - Back = size + 1 - Back
          BY <1>0, <2>3, Seen
        <4> QED BY <2>1, <3>2, <4>4, <4>5
      <3> QED BY <3>1, <3>2
    <2>9. (IF Back' = 0 THEN EMPTY ELSE list'[pos'])
             = IF Back = 1 THEN EMPTY ELSE (IF Back = 0 THEN EMPTY ELSE list[pos])
      BY <2>3, <2>5, <2>7
    <2>10. ent' = IF Back = 1 THEN (IF Back = 0 THEN EMPTY ELSE list[pos])
                  ELSE Lines'[Len(Lines) + 2 - Back]
      BY <2>3, <2>8
    <2> QED BY <2>1, <2>3, <2>5, <2>6, <2>9, <2>10 DEF TheRecall!Newer
  <1> QED BY <1>1, <1>2

\* A line that is remembered is the newest, and the oldest goes if there are
\* enough: the slot of the line being typed takes it.
LEMMA AddedLine ==
    ASSUME IInv, ent \in Line,
           list' = [list EXCEPT ![pos] = ent],
           size' = Grown, pos' = Advanced, cur' = Advanced
    PROVE  Lines' = TheRecall!Last(Append(Lines, ent)) /\ Back' = 0
  <1> USE HistoryAssumption
  <1>1. /\ size \in Nat \ {0} /\ size <= max /\ max \in Nat
        /\ pos \in 0..size - 1
        /\ Grown = (IF size < max THEN size + 1 ELSE size)
        /\ size < max => pos = size - 1
    BY DEF IInv, TypeOK, Grown, Growing
  <1>2. Advanced = IF pos = Grown - 1 THEN 0 ELSE pos + 1
    <2>1. Grown \in Nat \ {0} /\ pos \in 0..Grown - 1
      BY <1>1
    <2> QED BY <2>1, Forward DEF Advanced
  <1>3. Back' = 0
    <2>1. pos' - cur' + size' = size' /\ size' \in 0..2 * size' - 1 /\ size' \in Nat \ {0}
      BY <1>1, <1>2
    <2>2. size' % size' = Ring(size', size')
      BY <2>1, Around
    <2>3. Ring(size', size') = 0
      BY <2>1 DEF Ring
    <2> QED BY <2>1, <2>2, <2>3 DEF Back
  <1>4. Lines' = [i \in 1..size' - 1 |-> list'[Ring(size', pos' + i)]]
    <2>1. \A i \in 1..size' - 1 : (pos' + i) % size' = Ring(size', pos' + i)
      <3> TAKE i \in 1..size' - 1
      <3>1. size' \in Nat \ {0} /\ pos' + i \in 0..2 * size' - 1
        BY <1>1, <1>2
      <3> QED BY <3>1, Around
    <2> QED BY <2>1 DEF Lines
  <1>5. /\ Lines \in Seq(Line \cup {NULL}) /\ Len(Lines) = size - 1
        /\ \A i \in 1..size - 1 : Lines[i] = list[Ring(size, pos + i)]
    BY Seen
  <1>6. /\ Append(Lines, ent) \in Seq(Line \cup {NULL}) /\ Len(Append(Lines, ent)) = size
        /\ \A i \in 1..size - 1 : Append(Lines, ent)[i] = Lines[i]
        /\ Append(Lines, ent)[size] = ent
    BY <1>1, <1>5
  <1>7. \A k \in 0..size - 1 : k \in Slot /\ list'[k] = IF k = pos THEN ent ELSE list[k]
    BY <1>1 DEF IInv, TypeOK, Slot
  <1>8. CASE size < max
    <2>1. TheRecall!Last(Append(Lines, ent)) = SubSeq(Append(Lines, ent), 1, size)
      <3>1. ~(Len(Append(Lines, ent)) > max - 1)
        BY <1>1, <1>6, <1>8
      <3> QED BY <1>6, <3>1 DEF TheRecall!Last
    <2>2. SubSeq(Append(Lines, ent), 1, size) = [i \in 1..size |-> Append(Lines, ent)[i]]
      BY <1>1, <1>6
    <2>3. size' - 1 = size
      BY <1>1, <1>8
    <2>4. ASSUME NEW i \in 1..size
          PROVE  list'[Ring(size', pos' + i)] = Append(Lines, ent)[i]
      <3>1. Ring(size', pos' + i) = i - 1
        BY <1>1, <1>2, <1>8 DEF Ring
      <3>2. CASE i = size
        BY <1>1, <1>6, <1>7, <1>8, <3>1, <3>2
      <3>3. CASE i # size
        <4>1. Ring(size, pos + i) = i - 1 /\ i - 1 \in 0..size - 1 /\ i - 1 # pos
          BY <1>1, <1>8, <3>3 DEF Ring
        <4> QED BY <1>5, <1>6, <1>7, <3>1, <3>3, <4>1
      <3> QED BY <3>2, <3>3
    <2> QED BY <1>3, <1>4, <2>1, <2>2, <2>3, <2>4
  <1>9. CASE size = max
    <2>1. TheRecall!Last(Append(Lines, ent)) = SubSeq(Append(Lines, ent), 2, size)
      <3>1. Len(Append(Lines, ent)) > max - 1
        BY <1>1, <1>6, <1>9
      <3> QED BY <1>6, <3>1 DEF TheRecall!Last
    <2>2. SubSeq(Append(Lines, ent), 2, size)
            = [i \in 1..size - 1 |-> Append(Lines, ent)[i + 1]]
      BY <1>1, <1>6
    <2>3. size' = size
      BY <1>1, <1>9
    <2>4. ASSUME NEW i \in 1..size - 1
          PROVE  list'[Ring(size', pos' + i)] = Append(Lines, ent)[i + 1]
      <3>1. CASE i + 1 = size
        <4>1. Ring(size', pos' + i) = pos
          BY <1>1, <1>2, <1>9, <2>3, <3>1 DEF Ring
        <4> QED BY <1>1, <1>6, <1>7, <3>1, <4>1
      <3>2. CASE i + 1 # size
        <4>1. /\ i + 1 \in 1..size - 1 /\ Ring(size', pos' + i) = Ring(size, pos + (i + 1))
              /\ Ring(size', pos' + i) \in 0..size - 1 /\ Ring(size', pos' + i) # pos
          BY <1>1, <1>2, <1>9, <2>3, <3>2 DEF Ring
        <4> QED BY <1>5, <1>6, <1>7, <4>1
      <3> QED BY <3>1, <3>2
    <2> QED BY <1>3, <1>4, <2>1, <2>2, <2>3, <2>4
  <1> QED BY <1>1, <1>8, <1>9

LEMMA SendIsSent ==
    ASSUME IInv, SendToConnection
    PROVE  TheRecall!Sent \/ TheRecall!Edit
  <1> USE HistoryAssumption
  <1>0. /\ size \in Nat \ {0} /\ pos \in 0..size - 1 /\ ent \in Line
    BY DEF IInv, TypeOK
  <1>1. CASE hide_input
    <2>1. UNCHANGED hist /\ ent' = EMPTY /\ sent' = sent
      BY <1>1 DEF SendToConnection, hist_add
    <2> QED BY <2>1, SeenSame DEF TheRecall!Edit
  <1>2. CASE ~hide_input /\ Repeats(ent)
    <2>1. UNCHANGED hist /\ ent' \in {ent, EMPTY} /\ sent' = ent
      BY <1>2 DEF SendToConnection, hist_add
    <2>2. pos > 0 /\ list[pos - 1] = ent
      BY <1>2 DEF Repeats
    <2>3. size - 1 \in 1..size - 1 /\ Ring(size, pos + (size - 1)) = pos - 1
      BY <1>0, <2>2 DEF Ring
    <2>4. Len(Lines) = size - 1 /\ Lines[Len(Lines)] = ent /\ Lines # <<>>
      BY <2>2, <2>3, Seen
    <2> QED BY <2>1, <2>4, SeenSame DEF TheRecall!Sent
  <1>3. CASE ~hide_input /\ ~Repeats(ent)
    <2>1. /\ list' = [list EXCEPT ![pos] = ent]
          /\ size' = Grown /\ pos' = Advanced /\ cur' = Advanced
          /\ ent' \in {ent, EMPTY} /\ sent' = ent
      BY <1>3 DEF SendToConnection, hist_add
    <2>2. Lines' = TheRecall!Last(Append(Lines, ent)) /\ Back' = 0
      BY <1>0, <2>1, AddedLine
    <2> QED BY <2>1, <2>2 DEF TheRecall!Sent
  <1> QED BY <1>1, <1>2, <1>3

LEMMA InitIsRecall == Init => TheRecall!Init
  <1> SUFFICES ASSUME Init PROVE TheRecall!Init
    OBVIOUS
  <1>1. IInv
    BY InitInv
  <1>2. Back = 0
    BY <1>1, Seen DEF Init
  <1>3. Lines = <<>>
    <2>1. Len(Lines) = 0 /\ Lines \in Seq(Line \cup {NULL})
      BY <1>1, Seen DEF Init
    <2> QED BY <2>1
  <1> QED BY <1>2, <1>3 DEF Init, TheRecall!Init

\* Every step of the ring is a step of the list, or changes nothing of it.
LEMMA StepIsRecall == IInv /\ [Next]_vars => [TheRecall!Next]_TheRecall!vars
  <1> SUFFICES ASSUME IInv, [Next]_vars PROVE TheRecall!Next \/ UNCHANGED TheRecall!vars
    OBVIOUS
  <1> USE HistoryAssumption
  <1>1. CASE Type
    <2>1. TheRecall!Edit
      BY <1>1, SeenSame DEF Type, TheRecall!Edit
    <2> QED BY <2>1 DEF TheRecall!Next
  <1>2. CASE Up
    BY <1>2, UpIsOlder DEF TheRecall!Next
  <1>3. CASE Down
    BY <1>3, DownIsNewer DEF TheRecall!Next
  <1>4. CASE SendToConnection
    BY <1>4, SendIsSent DEF TheRecall!Next
  <1>5. ASSUME NEW state \in BOOLEAN, input_line_visible(state)
        PROVE  TheRecall!Next
    <2>1. ent' \in Line /\ UNCHANGED hist /\ UNCHANGED sent
      BY <1>5 DEF input_line_visible, IInv, TypeOK
    <2>2. TheRecall!Edit
      BY <2>1, SeenSame DEF TheRecall!Edit
    <2> QED BY <2>2 DEF TheRecall!Next
  <1>6. CASE UNCHANGED vars
    <2>1. UNCHANGED hist /\ UNCHANGED <<ent, sent>>
      BY <1>6 DEF vars
    <2> QED BY <2>1, SeenSame DEF TheRecall!vars
  <1> QED BY <1>1, <1>2, <1>3, <1>4, <1>5, <1>6 DEF Next

\* For every size of the ring, hist_add(), hist_prev() and hist_next() give the
\* user a list of the last lines and a cursor in it: no line inside the limit
\* is lost, doubled or shown out of order while the ring grows and goes round.
THEOREM RingImplementsList == Spec => ImplementsRecall
  <1>1. Spec => []IInv
    BY InitInv, Step, PTL DEF Spec
  <1> QED BY <1>1, InitIsRecall, StepIsRecall, PTL DEF Spec, ImplementsRecall, TheRecall!Spec
=============================================================================
