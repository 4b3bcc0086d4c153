------------------------------- MODULE DriverProofs -------------------------------
(***************************************************************************)
(* Proofs about the parts of the drivers: the ring buffer of every size,   *)
(* the spinlock with any number of callers, the start of the drivers on    *)
(* every machine, and the network card with its two rings.                 *)
(***************************************************************************)
EXTENDS Ring, Spinlock, Drivers, Network, SequenceTheorems, TLAPS

-------------------------------------------------------------------------------
(***************************************************************************)
(* The ring buffer (Ring)                                                  *)
(***************************************************************************)

\* The index arithmetic of the ring: "% SIZE" on a sum of two indices.
LEMMA Wrap ==
  ASSUME NEW k \in Nat, k < 2 * SIZE
  PROVE  k % SIZE = IF k < SIZE THEN k ELSE k - SIZE
<1>1. CASE k < SIZE
  BY <1>1, SizeAssumption
<1>2. CASE k >= SIZE
  BY <1>2, SizeAssumption
<1> QED
  BY <1>1, <1>2, SizeAssumption

\* The next index after i.
LEMMA NextIndex ==
  ASSUME NEW i \in 0 .. SIZE - 1
  PROVE  (i + 1) % SIZE = IF i + 1 = SIZE THEN 0 ELSE i + 1
<1>1. SIZE \in Nat /\ SIZE > 0 /\ i \in Nat /\ i < SIZE
  BY SizeAssumption
<1> QED
  BY <1>1

\* The k-th place of the contents, without "%".
Place(k) == IF key_head + k - 1 < SIZE THEN key_head + k - 1 ELSE key_head + k - 1 - SIZE

\* The contents are a sequence of fewer than SIZE values, read from the head.
ContentsRead ==
  /\ Count \in 0 .. SIZE - 1
  /\ Contents \in Seq(Values)
  /\ Len(Contents) = Count
  /\ \A k \in 1 .. Count : Contents[k] = key_queue[Place(k)]
  /\ Count = 0 <=> key_head = key_tail

\* That is so in every state of the right type.
LEMMA ContentsFacts == TypeOK => ContentsRead
<1> SUFFICES ASSUME TypeOK PROVE ContentsRead
  BY Zenon
<1>1. Count \in 0 .. SIZE - 1 /\ (Count = 0 <=> key_head = key_tail)
  BY SizeAssumption DEF TypeOK, Count
<1>2. ASSUME NEW k \in 1 .. Count
      PROVE  (key_head + k - 1) % SIZE = Place(k) /\ Place(k) \in 0 .. SIZE - 1
  <2> DEFINE j == key_head + k - 1
  <2>1. j \in Nat /\ j < 2 * SIZE
    BY <1>1, SizeAssumption DEF TypeOK
  <2>a. key_head \in Int /\ k \in Int /\ SIZE \in Int
    BY <1>1, SizeAssumption DEF TypeOK
  <2>2. Place(k) = IF j < SIZE THEN j ELSE j - SIZE
    BY <2>a DEF Place
  <2> HIDE DEF j
  <2>3. j % SIZE = Place(k)
    BY <2>1, <2>2, Wrap, Zenon
  <2>4. Place(k) \in 0 .. SIZE - 1
    BY <2>1, <2>2, SizeAssumption
  <2> QED
    BY <2>3, <2>4, Zenon DEF j
<1>3. \A k \in 1 .. Count : key_queue[(key_head + k - 1) % SIZE] \in Values
  BY <1>2, Zenon DEF TypeOK
<1>4. \A k \in 1 .. Count : Contents[k] = key_queue[Place(k)]
  BY <1>2, Zenon DEF Contents
<1> HIDE DEF Count, Place
<1>5. Contents \in Seq(Values) /\ Len(Contents) = Count
  BY <1>1, <1>3 DEF Contents
<1> QED
  BY <1>1, <1>4, <1>5, Zenon DEF ContentsRead

\* No index ever leaves the ring (key_head and key_tail in keyboard.c).
THEOREM RingTypeCorrect == Spec => []TypeOK
<1>1. Init => TypeOK
  BY SizeAssumption DEF Init, TypeOK
<1>2. TypeOK /\ [Next]_vars => TypeOK'
  <2> SUFFICES ASSUME TypeOK, [Next]_vars PROVE TypeOK'
    BY Zenon
  <2>1. ASSUME NEW c \in Values, QueueChar(c) PROVE TypeOK'
    <3>1. (key_tail + 1) % SIZE \in 0 .. SIZE - 1
      BY NextIndex, SizeAssumption DEF TypeOK
    <3> QED
      BY <2>1, <3>1, Zenon DEF QueueChar, TypeOK
  <2>2. ASSUME ReadChar PROVE TypeOK'
    <3>1. (key_head + 1) % SIZE \in 0 .. SIZE - 1
      BY NextIndex, SizeAssumption DEF TypeOK
    <3> QED
      BY <2>2, <3>1, Zenon DEF ReadChar, TypeOK
  <2>3. ASSUME UNCHANGED vars PROVE TypeOK'
    BY <2>3, Zenon DEF vars, TypeOK
  <2> QED
    BY <2>1, <2>2, <2>3, Zenon DEF Next
<1> QED
  BY <1>1, <1>2, PTL DEF Spec

\* keyboard_queue_char adds at the end when a place is free.
LEMMA QueueCharAppends ==
  ASSUME TypeOK, TypeOK', NEW c \in Values, QueueChar(c)
  PROVE  Q!Put(c)
<1> DEFINE n == Count
<1>1. /\ n \in 0 .. SIZE - 1 /\ Contents \in Seq(Values) /\ Len(Contents) = n
      /\ \A k \in 1 .. n : Contents[k] = key_queue[Place(k)]
  BY ContentsFacts, Zenon DEF ContentsRead
<1>2. (key_tail + 1) % SIZE = IF key_tail + 1 = SIZE THEN 0 ELSE key_tail + 1
  BY NextIndex, Zenon DEF TypeOK
<1>3. /\ key_head \in 0 .. SIZE - 1 /\ key_tail \in 0 .. SIZE - 1
      /\ SIZE \in Nat /\ DOMAIN key_queue = 0 .. SIZE - 1
  BY SizeAssumption, Zenon DEF TypeOK
<1>4. (key_tail + 1) % SIZE # key_head <=> n < SIZE - 1
  BY <1>2, <1>3 DEF Count
<1>5. CASE (key_tail + 1) % SIZE # key_head
  <2>1. /\ key_queue' = [key_queue EXCEPT ![key_tail] = c]
        /\ key_tail' = IF key_tail + 1 = SIZE THEN 0 ELSE key_tail + 1
        /\ key_head' = key_head /\ out' = NONE
    BY <1>5, <1>2, Zenon DEF QueueChar
  <2>2. Count' = n + 1
    BY <1>2, <1>3, <1>5, <2>1 DEF Count
  <2>3. \A k \in 1 .. n : Place(k) \in 0 .. SIZE - 1 /\ Place(k) # key_tail
    BY <1>3 DEF Place, Count
  <2>4. Place(n + 1) = key_tail
    BY <1>3 DEF Place, Count
  <2>5. /\ Contents' \in Seq(Values) /\ Len(Contents') = n + 1
        /\ \A k \in 1 .. n + 1 : Contents'[k] = key_queue'[Place(k)']
    <3>1. ContentsRead'
      BY ContentsFacts, PTL
    <3> QED
      BY <2>2, <3>1, Zenon DEF ContentsRead
  <2>6. \A k \in 1 .. n + 1 : Place(k)' = Place(k)
    BY <2>1, Zenon DEF Place
  <2> HIDE DEF n
  <2>7. \A k \in 1 .. n : Contents'[k] = Contents[k]
    BY <1>1, <1>3, <2>1, <2>3, <2>5, <2>6
  <2>8. Contents'[n + 1] = c
    BY <1>1, <1>3, <2>1, <2>4, <2>5, <2>6
  <2>9. Contents' = Append(Contents, c)
    BY <1>1, <2>5, <2>7, <2>8
  <2> QED
    BY <1>1, <1>4, <1>5, <2>1, <2>9, Zenon DEF Q!Put
<1>6. CASE (key_tail + 1) % SIZE = key_head
  <2>1. key_queue' = key_queue /\ key_tail' = key_tail /\ key_head' = key_head /\ out' = NONE
    BY <1>6, Zenon DEF QueueChar
  <2>2. Contents' = Contents
    BY <2>1, Zenon DEF Contents, Count
  <2>3. ~(Len(Contents) < SIZE - 1)
    BY <1>1, <1>4, <1>6, Zenon
  <2> QED
    BY <2>1, <2>2, <2>3, Zenon DEF Q!Put
<1> QED
  BY <1>5, <1>6, Zenon

\* keyboard_read_char takes the oldest value.
LEMMA ReadCharTakes ==
  ASSUME TypeOK, TypeOK', ReadChar
  PROVE  Q!Take
<1> DEFINE n == Count
<1>1. /\ n \in 0 .. SIZE - 1 /\ Contents \in Seq(Values) /\ Len(Contents) = n
      /\ \A k \in 1 .. n : Contents[k] = key_queue[Place(k)]
      /\ n = 0 <=> key_head = key_tail
  BY ContentsFacts, Zenon DEF ContentsRead
<1>2. (key_head + 1) % SIZE = IF key_head + 1 = SIZE THEN 0 ELSE key_head + 1
  BY NextIndex, Zenon DEF TypeOK
<1>3. /\ key_head \in 0 .. SIZE - 1 /\ key_tail \in 0 .. SIZE - 1 /\ SIZE \in Nat
  BY SizeAssumption, Zenon DEF TypeOK
<1>4. CASE key_head = key_tail
  <2>1. out' = NONE /\ UNCHANGED <<key_queue, key_head, key_tail>>
    BY <1>4, Zenon DEF ReadChar
  <2>2. Contents' = Contents
    BY <2>1, Zenon DEF Contents, Count
  <2>3. Contents = << >>
    BY <1>1, <1>4
  <2> QED
    BY <2>1, <2>2, <2>3, Zenon DEF Q!Take
<1>5. CASE key_head # key_tail
  <2>1. /\ out' = key_queue[key_head] /\ key_queue' = key_queue /\ key_tail' = key_tail
        /\ key_head' = IF key_head + 1 = SIZE THEN 0 ELSE key_head + 1
    BY <1>5, <1>2, Zenon DEF ReadChar
  <2>2. Count' = n - 1 /\ n > 0
    BY <1>3, <1>5, <2>1 DEF Count
  <2>3. \A k \in 1 .. n - 1 : Place(k)' = Place(k + 1)
    BY <1>1, <1>3, <2>1 DEF Place
  <2>4. Place(1) = key_head
    BY <1>3 DEF Place
  <2>5. /\ Contents' \in Seq(Values) /\ Len(Contents') = n - 1
        /\ \A k \in 1 .. n - 1 : Contents'[k] = key_queue'[Place(k)']
    <3>1. ContentsRead'
      BY ContentsFacts, PTL
    <3> QED
      BY <2>2, <3>1, Zenon DEF ContentsRead
  <2> HIDE DEF n
  <2>6. \A k \in 1 .. n - 1 : Contents'[k] = Contents[k + 1]
    BY <1>1, <2>1, <2>3, <2>5
  <2>7. Contents # << >> /\ Head(Contents) = key_queue[key_head]
    BY <1>1, <2>2, <2>4
  <2>8. Contents' = Tail(Contents)
    BY <1>1, <2>2, <2>5, <2>6, <2>7
  <2> QED
    BY <2>1, <2>7, <2>8, Zenon DEF Q!Take
<1> QED
  BY <1>4, <1>5, Zenon

\* A ring of any size is a queue with room for one value less: keyboard.c
\* loses, repeats and reorders nothing that it had room for.
THEOREM RingRefinement == Spec => ImplementsQueue
<1>1. Init => Q!Init
  <2> SUFFICES ASSUME Init PROVE Q!Init
    OBVIOUS
  <2>1. TypeOK /\ key_head = key_tail /\ out = NONE
    BY SizeAssumption DEF Init, TypeOK
  <2>2. Contents \in Seq(Values) /\ Len(Contents) = 0
    BY <2>1, ContentsFacts, Zenon DEF ContentsRead
  <2> QED
    BY <2>1, <2>2 DEF Q!Init
<1>2. TypeOK /\ TypeOK' /\ [Next]_vars => [Q!Next]_(Q!vars) /\ [CallMatches]_vars
  <2> SUFFICES ASSUME TypeOK, TypeOK', [Next]_vars
               PROVE  [Q!Next]_(Q!vars) /\ CallMatches
    BY Zenon
  <2>1. CallMatches
    BY QueueCharAppends, ReadCharTakes, Zenon DEF CallMatches
  <2>2. ASSUME UNCHANGED vars PROVE UNCHANGED Q!vars
    BY <2>2, Zenon DEF vars, Q!vars, Contents, Count
  <2> QED
    BY <2>1, <2>2, Zenon DEF Next, CallMatches, Q!Next
<1> QED
  BY <1>1, <1>2, RingTypeCorrect, PTL DEF Spec, ImplementsQueue, Q!Spec

-------------------------------------------------------------------------------
(***************************************************************************)
(* The spinlock (Spinlock)                                                 *)
(***************************************************************************)

\* However many callers spin and work, spin_lock lets only one at a time in, and
\* the byte is clear only when spin_unlock has let the last one out.
THEOREM LockCorrect == LockSpec => []LockInv
<1>1. LockInit => LockInv
  BY Zenon DEF LockInit, LockInv, LockTypes, LockExclusive, ByteTells
<1>2. LockInv /\ [LockNext]_lockVars => LockInv'
  <2> SUFFICES ASSUME LockInv, [LockNext]_lockVars PROVE LockInv'
    OBVIOUS
  <2> USE DEF LockInv, LockTypes, LockExclusive, ByteTells, Moves
  <2>1. ASSUME NEW c \in Callers, CallSpinLock(c) PROVE LockInv'
    BY <2>1, Zenon DEF CallSpinLock
  <2>2. ASSUME NEW c \in Callers, SpinLock(c) PROVE LockInv'
    BY <2>2, Zenon DEF SpinLock
  <2>3. ASSUME NEW c \in Callers, SpinUnlock(c) PROVE LockInv'
    BY <2>3, Zenon DEF SpinUnlock
  <2>4. CASE UNCHANGED lockVars
    BY <2>4, Zenon DEF lockVars
  <2> QED
    BY <2>1, <2>2, <2>3, <2>4, Zenon DEF LockNext
<1> QED
  BY <1>1, <1>2, PTL DEF LockSpec

-------------------------------------------------------------------------------
(***************************************************************************)
(* The start of the drivers (Drivers)                                      *)
(***************************************************************************)

\* What is still to be looked for.
Rest == {todo[k] : k \in 1 .. Len(todo)}

\* The loops have come past no function of class c, and got to the functions
\* behind a device's first one only if that says there are more.
Passed(c) == \A t \in Candidates(c) : ~Before(t, at)
Inside == at[3] # 0 => board[<<at[1], at[2], 0>>] # ABSENT /\ board[<<at[1], at[2], 0>>].multi

\* A class that is not looked for again has its controller, if it has one.
Settled(c) == controller[c] = NOWHERE => \A s \in Candidates(c) : IsFirst(s, c) => ~board[s].bar

DriversInv ==
  /\ board \in Boards /\ todo \in Seq(DOMAIN BUSES \cup {"tone"})
  /\ at \in Nat \X (0 .. DEVICES - 1) \X (0 .. FUNCTIONS - 1)
  /\ DOMAIN controller = DOMAIN BUSES
  /\ Inside
  /\ todo # << >> => IF class = "tone" THEN at = FIRST ELSE Passed(class)
  /\ \A c \in DOMAIN BUSES : controller[c] # NOWHERE => IsFirst(controller[c], c)
  /\ \A s \in mastering : \E c \in {"nic", "hda", "ahci"} : IsFirst(s, c)
  /\ \A c \in DOMAIN BUSES \ {"hda"} : c \notin Rest => Settled(c)

\* The order of the loops is total, and has no ties.
LEMMA LoopOrder ==
  ASSUME NEW s \in Nat \X Nat \X Nat, NEW t \in Nat \X Nat \X Nat
  PROVE  /\ Before(s, t) \/ Before(t, s) \/ s = t
         /\ ~(Before(s, t) /\ Before(t, s))
<1>1. /\ s = <<s[1], s[2], s[3]>> /\ t = <<t[1], t[2], t[3]>>
      /\ {s[1], s[2], s[3], t[1], t[2], t[3]} \subseteq Nat
  OBVIOUS
<1>2. s # t => s[1] # t[1] \/ s[2] # t[2] \/ s[3] # t[3]
  BY <1>1, Zenon
<1> QED
  BY <1>1, <1>2 DEF Before

LEMMA CandidatesAre ==
  ASSUME board \in Boards, NEW c, NEW s \in Candidates(c)
  PROVE  /\ s \in Nat \X (0 .. DEVICES - 1) \X (0 .. FUNCTIONS - 1)
         /\ s \in Nat \X Nat \X Nat
         /\ board[s].class = c /\ s[1] < BUSES[c] /\ Visible(s)
<1>1. s \in DOMAIN board /\ board[s].class = c /\ s[1] < BUSES[c] /\ Visible(s)
  BY Zenon DEF Candidates
<1>2. s \in Nat \X (0 .. DEVICES - 1) \X (0 .. FUNCTIONS - 1)
  BY <1>1, DriversAssumption, Zenon
<1> QED
  BY <1>1, <1>2, DriversAssumption

\* There is one first.
LEMMA FirstUnique ==
  ASSUME board \in Boards, NEW c, NEW s, NEW t, IsFirst(s, c), IsFirst(t, c)
  PROVE  s = t
<1>1. s \in Candidates(c) /\ t \in Candidates(c)
  BY Zenon DEF IsFirst
<1>2. s \in Nat \X Nat \X Nat /\ t \in Nat \X Nat \X Nat
  BY <1>1, CandidatesAre, Zenon
<1>3. s # t => Before(s, t) /\ Before(t, s)
  BY <1>1, Zenon DEF IsFirst
<1> QED
  BY <1>2, <1>3, LoopOrder, Zenon

\* Where the loops go when the function is not the one they look for.
LEMMA AtMoves ==
  ASSUME at \in Nat \X (0 .. DEVICES - 1) \X (0 .. FUNCTIONS - 1)
  PROVE  /\ NextDevice \in Nat \X (0 .. DEVICES - 1) \X (0 .. FUNCTIONS - 1)
         /\ NextDevice[3] = 0
         /\ NextFunction \in Nat \X (0 .. DEVICES - 1) \X (0 .. FUNCTIONS - 1)
         /\ \/ NextFunction[3] = 0
            \/ /\ NextFunction[1] = at[1] /\ NextFunction[2] = at[2]
               /\ NextFunction[3] = at[3] + 1
         /\ \A t \in Nat \X (0 .. DEVICES - 1) \X (0 .. FUNCTIONS - 1) :
              /\ Before(t, NextFunction) => Before(t, at) \/ t = at
              /\ Before(t, NextDevice) =>
                   Before(t, at) \/ t = at \/ (t[1] = at[1] /\ t[2] = at[2] /\ t[3] > at[3])
<1>1. /\ DEVICES \in Nat \ {0} /\ FUNCTIONS \in Nat \ {0} /\ at[1] \in Nat
      /\ at[2] \in 0 .. DEVICES - 1 /\ at[3] \in 0 .. FUNCTIONS - 1
      /\ at = <<at[1], at[2], at[3]>>
  BY DriversAssumption
<1>2. /\ NextDevice \in Nat \X (0 .. DEVICES - 1) \X (0 .. FUNCTIONS - 1)
      /\ NextDevice[3] = 0
  BY <1>1 DEF NextDevice
<1>3. /\ NextFunction \in Nat \X (0 .. DEVICES - 1) \X (0 .. FUNCTIONS - 1)
      /\ \/ NextFunction[3] = 0
         \/ /\ NextFunction[1] = at[1] /\ NextFunction[2] = at[2]
            /\ NextFunction[3] = at[3] + 1
  BY <1>1, <1>2 DEF NextFunction
<1>4. ASSUME NEW t \in Nat \X (0 .. DEVICES - 1) \X (0 .. FUNCTIONS - 1)
      PROVE  /\ Before(t, NextFunction) => Before(t, at) \/ t = at
             /\ Before(t, NextDevice) =>
                  Before(t, at) \/ t = at \/ (t[1] = at[1] /\ t[2] = at[2] /\ t[3] > at[3])
  <2>1. /\ t[1] \in Nat /\ t[2] \in 0 .. DEVICES - 1 /\ t[3] \in 0 .. FUNCTIONS - 1
        /\ t = <<t[1], t[2], t[3]>>
    OBVIOUS
  <2>2. t = at <=> t[1] = at[1] /\ t[2] = at[2] /\ t[3] = at[3]
    BY <1>1, <2>1, Zenon
  <2>3. Before(t, NextDevice) =>
          Before(t, at) \/ t = at \/ (t[1] = at[1] /\ t[2] = at[2] /\ t[3] > at[3])
    <3>1. CASE at[2] + 1 < DEVICES
      <4>1. NextDevice[1] = at[1] /\ NextDevice[2] = at[2] + 1 /\ NextDevice[3] = 0
        BY <3>1, Zenon DEF NextDevice
      <4> QED
        BY <1>1, <2>1, <2>2, <4>1 DEF Before
    <3>2. CASE ~(at[2] + 1 < DEVICES)
      <4>1. NextDevice[1] = at[1] + 1 /\ NextDevice[2] = 0 /\ NextDevice[3] = 0
        BY <3>2, Zenon DEF NextDevice
      <4> QED
        BY <1>1, <2>1, <2>2, <3>2, <4>1 DEF Before
    <3> QED
      BY <3>1, <3>2, Zenon
  <2>4. Before(t, NextFunction) => Before(t, at) \/ t = at
    <3>1. CASE at[3] + 1 < FUNCTIONS
      <4>1. NextFunction[1] = at[1] /\ NextFunction[2] = at[2] /\ NextFunction[3] = at[3] + 1
        BY <3>1, Zenon DEF NextFunction
      <4> QED
        BY <1>1, <2>1, <2>2, <4>1 DEF Before
    <3>2. CASE ~(at[3] + 1 < FUNCTIONS)
      <4>1. NextFunction = NextDevice /\ ~(t[3] > at[3])
        BY <1>1, <2>1, <3>2 DEF NextFunction
      <4> QED
        BY <2>3, <4>1, Zenon
    <3> QED
      BY <3>1, <3>2, Zenon
  <2> QED
    BY <2>3, <2>4, Zenon
<1> QED
  BY <1>2, <1>3, <1>4, Zenon

\* One round of the loops passes no function of the class.
LEMMA ScanOnStep ==
  ASSUME DriversInv, NEW c \in DOMAIN BUSES, ScanOn(c)
  PROVE  DriversInv'
<1> DEFINE Places == Nat \X (0 .. DEVICES - 1) \X (0 .. FUNCTIONS - 1)
<1>1. /\ board \in Boards /\ at \in Places /\ Inside /\ Passed(c)
      /\ todo # << >> /\ class = c /\ c # "tone" /\ here.class # c
  BY Zenon DEF DriversInv, ScanOn, Scanning, Searching
<1>2. board' = board /\ todo' = todo /\ controller' = controller /\ mastering' = mastering
  BY Zenon DEF ScanOn
<1>3. at' = IF LeavesDevice THEN NextDevice ELSE NextFunction
  BY Zenon DEF ScanOn
<1>4. \A d : Candidates(d)' = Candidates(d)
  BY <1>2, Zenon DEF Candidates, Visible
<1>5. at \notin Candidates(c)
  BY <1>1, Zenon DEF Candidates, here
<1>6. at' \in Places /\ Inside' /\ Passed(c)'
  <2>1. CASE LeavesDevice
    <3>1. at' = NextDevice
      BY <1>3, <2>1, Zenon
    <3>2. Inside'
      BY <1>1, <3>1, AtMoves, Zenon DEF Inside
    <3>3. ASSUME NEW t \in Candidates(c) PROVE ~Before(t, at')
      <4>1. t \in Places /\ Visible(t) /\ t # at /\ ~Before(t, at)
        BY <1>1, <1>5, <3>3, CandidatesAre, Zenon DEF Passed
      <4>2. ~(t[1] = at[1] /\ t[2] = at[2] /\ t[3] > at[3])
        <5> SUFFICES ASSUME t[1] = at[1], t[2] = at[2], t[3] > at[3] PROVE FALSE
          BY Zenon
        <5>1. at[3] = 0 /\ at = <<at[1], at[2], 0>> /\ t[3] # 0
          BY <1>1, <2>1, <4>1 DEF LeavesDevice
        <5>2. board[at] # ABSENT /\ board[at].multi
          BY <4>1, <5>1, Zenon DEF Visible
        <5> QED
          BY <2>1, <5>2, Zenon DEF LeavesDevice, here
      <4> QED
        BY <1>1, <3>1, <4>1, <4>2, AtMoves, Zenon
    <3> QED
      BY <1>1, <1>4, <3>1, <3>2, <3>3, AtMoves, Zenon DEF Passed
  <2>2. CASE ~LeavesDevice
    <3>1. at' = NextFunction
      BY <1>3, <2>2, Zenon
    <3>2. Inside'
      <4>1. CASE NextFunction[3] = 0
        BY <3>1, <4>1, Zenon DEF Inside
      <4>2. CASE NextFunction[1] = at[1] /\ NextFunction[2] = at[2]
        <5>1. board[<<at[1], at[2], 0>>] # ABSENT /\ board[<<at[1], at[2], 0>>].multi
          <6>1. CASE at[3] = 0
            <7>1. at = <<at[1], at[2], 0>>
              BY <1>1, <6>1
            <7> QED
              BY <2>2, <6>1, <7>1, Zenon DEF LeavesDevice, here
          <6>2. CASE at[3] # 0
            BY <1>1, <6>2, Zenon DEF Inside
          <6> QED
            BY <6>1, <6>2, Zenon
        <5> QED
          BY <1>2, <3>1, <4>2, <5>1, Zenon DEF Inside
      <4> QED
        BY <1>1, <4>1, <4>2, AtMoves, Zenon
    <3>3. ASSUME NEW t \in Candidates(c) PROVE ~Before(t, at')
      <4>1. t \in Places /\ t # at /\ ~Before(t, at)
        BY <1>1, <1>5, <3>3, CandidatesAre, Zenon DEF Passed
      <4> QED
        BY <1>1, <3>1, <4>1, AtMoves, Zenon
    <3> QED
      BY <1>1, <1>4, <3>1, <3>2, <3>3, AtMoves, Zenon DEF Passed
  <2> QED
    BY <2>1, <2>2, Zenon
<1>7. class' = c
  BY <1>1, <1>2, Zenon DEF class
<1>8. \A d, s : IsFirst(s, d)' = IsFirst(s, d)
  BY <1>4, Zenon DEF IsFirst, Before
<1>9. \A d : Settled(d)' = Settled(d)
  BY <1>2, <1>4, <1>8, Zenon DEF Settled
<1>10. Rest' = Rest
  BY <1>2, Zenon DEF Rest
<1> QED
  BY <1>1, <1>2, <1>6, <1>7, <1>8, <1>9, <1>10, Zenon DEF DriversInv

\* A new search begins at the first function, with one name less on the list.
LEMMA NextSearch ==
  ASSUME DriversInv, todo # << >>, todo' = Tail(todo), at' = FIRST, board' = board
  PROVE  /\ board' \in Boards /\ todo' \in Seq(DOMAIN BUSES \cup {"tone"})
         /\ at' \in Nat \X (0 .. DEVICES - 1) \X (0 .. FUNCTIONS - 1)
         /\ Inside'
         /\ todo' # << >> => IF class' = "tone" THEN at' = FIRST ELSE Passed(class)'
         /\ Rest = Rest' \cup {class}
         /\ \A c : Candidates(c)' = Candidates(c)
         /\ \A c, s : IsFirst(s, c)' = IsFirst(s, c)
<1>1. todo \in Seq(DOMAIN BUSES \cup {"tone"}) /\ board \in Boards
  BY Zenon DEF DriversInv
<1>2. /\ todo' \in Seq(DOMAIN BUSES \cup {"tone"}) /\ Len(todo') = Len(todo) - 1
      /\ \A k \in 1 .. Len(todo') : todo'[k] = todo[k + 1]
      /\ Len(todo) \in Nat \ {0} /\ class = todo[1]
  <2>1. Len(todo) \in Nat \ {0} /\ Head(todo) = todo[1]
    BY <1>1, EmptySeq
  <2> QED
    BY <1>1, <2>1, HeadTailProperties, Zenon DEF class
<1>3. Rest = Rest' \cup {class}
  <2>1. \A k \in 1 .. Len(todo) : todo[k] \in Rest' \cup {class}
    <3> TAKE k \in 1 .. Len(todo)
    <3>1. CASE k = 1
      BY <1>2, <3>1, Zenon
    <3>2. CASE k # 1
      <4>1. k - 1 \in 1 .. Len(todo') /\ todo'[k - 1] = todo[k]
        BY <1>2, <3>2
      <4> QED
        BY <4>1, Zenon DEF Rest
    <3> QED
      BY <3>1, <3>2, Zenon
  <2>2. \A k \in 1 .. Len(todo') : todo'[k] \in Rest
    BY <1>2 DEF Rest
  <2>3. class \in Rest
    BY <1>2 DEF Rest
  <2> QED
    BY <2>1, <2>2, <2>3 DEF Rest
<1>4. \A c : Candidates(c)' = Candidates(c)
  BY Zenon DEF Candidates, Visible
<1>5. \A c, s : IsFirst(s, c)' = IsFirst(s, c)
  BY <1>4, Zenon DEF IsFirst, Before
<1>6. \A c : Passed(c)'
  <2> SUFFICES ASSUME NEW c, NEW t \in Candidates(c) PROVE ~Before(t, FIRST)
    BY <1>4, Zenon DEF Passed
  <2>1. t \in Nat \X Nat \X Nat
    BY <1>1, CandidatesAre, Zenon
  <2> QED
    BY <2>1 DEF Before, FIRST
<1>7. at' \in Nat \X (0 .. DEVICES - 1) \X (0 .. FUNCTIONS - 1) /\ Inside'
  BY DriversAssumption DEF FIRST, Inside
<1> QED
  BY <1>1, <1>2, <1>3, <1>4, <1>5, <1>6, <1>7, Zenon

\* What the loops stop at is the first function of the class.
LEMMA StopsAtFirst ==
  ASSUME DriversInv, NEW c \in DOMAIN BUSES, Scanning, class = c, here.class = c
  PROVE  IsFirst(at, c)
<1> DEFINE Places == Nat \X (0 .. DEVICES - 1) \X (0 .. FUNCTIONS - 1)
<1>1. board \in Boards /\ at \in Places /\ Inside /\ Passed(c) /\ at[1] < BUSES[c]
  BY Zenon DEF DriversInv, Scanning, Searching
<1>2. BUSES[c] \in Nat /\ at \in (0 .. BUSES[c] - 1) \X (0 .. DEVICES - 1) \X (0 .. FUNCTIONS - 1)
  BY <1>1, DriversAssumption
<1>3. at \in DOMAIN board
  BY <1>1, <1>2, DriversAssumption, Zenon
<1>4. board[at] # ABSENT
  <2>1. c # "none"
    BY DriversAssumption, Zenon
  <2> QED
    BY <2>1 DEF ABSENT, here
<1>5. Visible(at)
  <2>1. CASE at[3] = 0
    <3>1. at = <<at[1], at[2], 0>>
      BY <1>1, <2>1
    <3> QED
      BY <1>4, <2>1, <3>1, Zenon DEF Visible
  <2>2. CASE at[3] # 0
    BY <1>1, <1>4, <2>2, Zenon DEF Inside, Visible
  <2> QED
    BY <2>1, <2>2, Zenon
<1>6. at \in Candidates(c)
  BY <1>1, <1>3, <1>5, Zenon DEF Candidates, here
<1>7. \A t \in Candidates(c) \ {at} : Before(at, t)
  BY <1>1, <1>6, CandidatesAre, LoopOrder, Zenon DEF Passed
<1> QED
  BY <1>6, <1>7, Zenon DEF IsFirst

LEMMA TakesStep ==
  ASSUME DriversInv, NEW c \in DOMAIN BUSES, NEW works \in BOOLEAN, NEW masters,
         NEW returns \in BOOLEAN,
         masters => c \in {"nic", "hda", "ahci"}, c # "hda" => works,
         Takes(c, works, masters, returns)
  PROVE  DriversInv'
<1>1. IsFirst(at, c)
  BY StopsAtFirst, Zenon DEF Takes
<1>2. /\ todo # << >> /\ board' = board /\ class = c
      /\ \/ todo' = Tail(todo) /\ at' = FIRST
         \/ todo' = todo /\ at' = at
      /\ controller' = [controller EXCEPT ![c] = IF here.bar /\ works THEN at ELSE NOWHERE]
      /\ mastering' = IF masters THEN mastering \cup {at} ELSE mastering
  BY Zenon DEF Takes, Scanning, Searching
<1>3. /\ board \in Boards
      /\ DOMAIN controller = DOMAIN BUSES
      /\ \A d \in DOMAIN BUSES : controller[d] # NOWHERE => IsFirst(controller[d], d)
      /\ \A s \in mastering : \E d \in {"nic", "hda", "ahci"} : IsFirst(s, d)
      /\ \A d \in DOMAIN BUSES \ {"hda"} : d \notin Rest => Settled(d)
  BY Zenon DEF DriversInv
<1>4. /\ board' \in Boards /\ todo' \in Seq(DOMAIN BUSES \cup {"tone"})
      /\ at' \in Nat \X (0 .. DEVICES - 1) \X (0 .. FUNCTIONS - 1)
      /\ Inside'
      /\ todo' # << >> => IF class' = "tone" THEN at' = FIRST ELSE Passed(class)'
      /\ \A d : d \notin Rest' => d = c \/ d \notin Rest
      /\ \A d : Candidates(d)' = Candidates(d)
      /\ \A d, s : IsFirst(s, d)' = IsFirst(s, d)
  <2>1. CASE todo' = Tail(todo) /\ at' = FIRST
    BY <1>2, <2>1, NextSearch, Zenon
  <2>2. CASE todo' = todo /\ at' = at
    <3>1. class' = class /\ Rest' = Rest /\ Inside' = Inside
      BY <1>2, <2>2, Zenon DEF class, Rest, Inside
    <3>2. \A d : Candidates(d)' = Candidates(d)
      BY <1>2, Zenon DEF Candidates, Visible
    <3>3. \A d, s : IsFirst(s, d)' = IsFirst(s, d)
      BY <3>2, Zenon DEF IsFirst, Before
    <3>4. \A d : Passed(d)' = Passed(d)
      BY <2>2, <3>2, Zenon DEF Passed, Before
    <3> QED
      BY <1>2, <2>2, <3>1, <3>2, <3>3, <3>4, Zenon DEF DriversInv
  <2> QED
    BY <1>2, <2>1, <2>2, Zenon
<1>5. DOMAIN controller' = DOMAIN BUSES
  BY <1>2, <1>3, Zenon
<1>6. \A d \in DOMAIN BUSES : (controller[d] # NOWHERE => IsFirst(controller[d], d))'
  BY <1>1, <1>2, <1>3, <1>4, Zenon
<1>7. \A s \in mastering' : \E d \in {"nic", "hda", "ahci"} : IsFirst(s, d)'
  BY <1>1, <1>2, <1>3, <1>4, Zenon
<1>8. ASSUME NEW d \in DOMAIN BUSES \ {"hda"}, d \notin Rest' PROVE Settled(d)'
  <2>1. CASE d # c
    <3>1. Settled(d) /\ controller'[d] = controller[d]
      BY <1>2, <1>3, <1>4, <1>8, <2>1, Zenon
    <3> QED
      BY <1>2, <1>4, <3>1, Zenon DEF Settled
  <2>2. CASE d = c
    <3> SUFFICES ASSUME controller'[c] = NOWHERE, NEW s \in Candidates(c), IsFirst(s, c)
                 PROVE  ~board[s].bar
      BY <1>2, <1>4, <2>2, Zenon DEF Settled
    <3>1. s = at
      BY <1>1, <1>3, FirstUnique, Zenon
    <3>2. at # NOWHERE
      <4>1. at \in Nat \X (0 .. DEVICES - 1) \X (0 .. FUNCTIONS - 1)
        BY Zenon DEF DriversInv
      <4>2. at = <<at[1], at[2], at[3]>> /\ Len(<<at[1], at[2], at[3]>>) = 3
        BY <4>1
      <4> QED
        BY <4>2, EmptySeq, Zenon DEF NOWHERE
    <3> QED
      BY <1>2, <1>3, <2>2, <3>1, <3>2, Zenon DEF here
  <2> QED
    BY <2>1, <2>2, Zenon
<1> QED
  BY <1>4, <1>5, <1>6, <1>7, <1>8, Zenon DEF DriversInv

\* The loops end without a function of the class only if there is none.
LEMMA NotFoundStep == ASSUME DriversInv, NotFound PROVE DriversInv'
<1>1. /\ todo # << >> /\ todo' = Tail(todo) /\ at' = FIRST /\ board' = board
      /\ controller' = controller /\ mastering' = mastering
      /\ class # "tone" /\ ~(at[1] < BUSES[class])
  BY Zenon DEF NotFound, Scanning, Searching
<1>2. class \in DOMAIN BUSES /\ BUSES[class] \in Nat
  <2>1. class \in DOMAIN BUSES \cup {"tone"}
    BY <1>1, HeadTailProperties, Zenon DEF DriversInv, class
  <2> QED
    BY <1>1, <2>1, DriversAssumption, Zenon
<1>3. Candidates(class) = {}
  <2> SUFFICES ASSUME NEW t \in Candidates(class) PROVE FALSE
    BY Zenon
  <2>1. t[1] \in Nat /\ t[1] < BUSES[class]
    BY CandidatesAre, Zenon DEF DriversInv
  <2>2. at[1] \in Nat /\ ~Before(t, at)
    BY <1>1, Zenon DEF DriversInv, Passed
  <2> QED
    BY <1>1, <1>2, <2>1, <2>2 DEF Before
<1>4. Settled(class)
  BY <1>3, Zenon DEF Settled
<1>5. /\ Rest = Rest' \cup {class}
      /\ \A d : Candidates(d)' = Candidates(d)
      /\ \A d, s : IsFirst(s, d)' = IsFirst(s, d)
  BY <1>1, NextSearch, Zenon
<1>6. \A d : Settled(d)' = Settled(d)
  BY <1>1, <1>5, Zenon DEF Settled
<1>7. \A d \in DOMAIN BUSES \ {"hda"} : d \notin Rest' => Settled(d)'
  BY <1>4, <1>5, <1>6, Zenon DEF DriversInv
<1> QED
  BY <1>1, <1>5, <1>7, NextSearch, Zenon DEF DriversInv

\* A tone leaves the search where it is, at the start.
LEMMA ToneSteps ==
  ASSUME DriversInv, UNCHANGED <<board, at, controller, mastering>>,
         todo' = todo \/ (todo # << >> /\ class = "tone" /\ todo' = Tail(todo))
  PROVE  DriversInv'
<1>1. CASE todo' = todo
  <2>1. class' = class /\ Rest' = Rest
    BY <1>1, Zenon DEF class, Rest
  <2>2. \A d : Candidates(d)' = Candidates(d)
    BY Zenon DEF Candidates, Visible
  <2>3. \A d, s : IsFirst(s, d)' = IsFirst(s, d)
    BY <2>2, Zenon DEF IsFirst, Before
  <2>4. \A d : Settled(d)' = Settled(d) /\ Passed(d)' = Passed(d)
    BY <2>2, <2>3, Zenon DEF Settled, Passed, Before
  <2>5. Inside' = Inside
    BY Zenon DEF Inside
  <2> QED
    BY <1>1, <2>1, <2>2, <2>3, <2>4, <2>5, Zenon DEF DriversInv
<1>2. CASE todo # << >> /\ class = "tone" /\ todo' = Tail(todo)
  <2>1. at' = FIRST
    BY <1>2, Zenon DEF DriversInv
  <2>2. /\ Rest = Rest' \cup {"tone"}
        /\ \A d : Candidates(d)' = Candidates(d)
        /\ \A d, s : IsFirst(s, d)' = IsFirst(s, d)
    BY <1>2, <2>1, NextSearch, Zenon
  <2>3. \A d : Settled(d)' = Settled(d)
    BY <2>2, Zenon DEF Settled
  <2>4. \A d \in DOMAIN BUSES \ {"hda"} : d \notin Rest' => Settled(d)'
    BY <2>2, <2>3, DriversAssumption, Zenon DEF DriversInv
  <2> QED
    BY <1>2, <2>1, <2>2, <2>4, NextSearch, Zenon DEF DriversInv
<1> QED
  BY <1>1, <1>2, Zenon

THEOREM DriversInvariance == DriversSpec => []DriversInv
<1>1. DriversInit => DriversInv
  <2> SUFFICES ASSUME DriversInit PROVE DriversInv
    OBVIOUS
  <2>1. todo = StartOrder /\ at = FIRST /\ board \in Boards /\ mastering = {}
    BY Zenon DEF DriversInit
  <2>2. /\ DOMAIN BUSES = {"xhci", "hda", "nic", "ahci"}
        /\ controller = [c \in DOMAIN BUSES |-> NOWHERE]
    BY DriversAssumption, Zenon DEF DriversInit
  <2>3. todo \in Seq(DOMAIN BUSES \cup {"tone"}) /\ class = "xhci"
    BY <2>1, <2>2 DEF StartOrder, class
  <2>4. DOMAIN BUSES \subseteq Rest
    BY <2>1, <2>2 DEF StartOrder, Rest
  <2>5. Inside /\ at \in Nat \X (0 .. DEVICES - 1) \X (0 .. FUNCTIONS - 1)
    BY <2>1, DriversAssumption DEF Inside, FIRST
  <2>6. Passed(class)
    <3> SUFFICES ASSUME NEW t \in Candidates(class) PROVE ~Before(t, FIRST)
      BY <2>1, Zenon DEF Passed
    <3>1. t \in Nat \X Nat \X Nat
      BY <2>1, CandidatesAre, Zenon
    <3> QED
      BY <3>1 DEF Before, FIRST
  <2> QED
    BY <2>1, <2>2, <2>3, <2>4, <2>5, <2>6, Zenon DEF DriversInv
<1>2. DriversInv /\ [DriversNext]_driverVars => DriversInv'
  <2> SUFFICES ASSUME DriversInv, [DriversNext]_driverVars PROVE DriversInv'
    OBVIOUS
  <2>1. DOMAIN BUSES = {"xhci", "hda", "nic", "ahci"}
    BY DriversAssumption, Zenon
  <2>2. CASE PciFindXhciController \/ PciFindClass \/ PciFindDevice \/ PciFindAhciController
    BY <2>1, <2>2, ScanOnStep, Zenon
    DEF PciFindXhciController, PciFindClass, PciFindDevice, PciFindAhciController
  <2>3. CASE UsbInitialize
    BY <2>1, <2>3, TakesStep, Zenon DEF UsbInitialize
  <2>4. ASSUME NEW returns \in BOOLEAN, NetworkInitialize(returns) PROVE DriversInv'
    BY <2>1, <2>4, TakesStep, Zenon DEF NetworkInitialize
  <2>5. ASSUME NEW returns \in BOOLEAN, AhciInitialize(returns) PROVE DriversInv'
    BY <2>1, <2>5, TakesStep, Zenon DEF AhciInitialize
  <2>6. CASE \E resets \in BOOLEAN : AudioInitialize(resets)
    BY <2>1, <2>6, TakesStep, Zenon DEF AudioInitialize
  <2>7. ASSUME NEW f, NEW d, PlayTone(f, d) PROVE DriversInv'
    BY <2>7, ToneSteps, Zenon DEF PlayTone
  <2>8. CASE ToneEnds \/ Stopped \/ UNCHANGED driverVars
    BY <2>8, ToneSteps, Zenon DEF ToneEnds, Stopped, driverVars
  <2> QED
    BY <2>2, <2>3, <2>4, <2>5, <2>6, <2>7, <2>8, NotFoundStep, Zenon DEF DriversNext
<1> QED
  BY <1>1, <1>2, PTL DEF DriversSpec

\* Whatever functions a machine has and wherever they are, the nested loops of
\* pci_find_class and its copies stop at the first visible function of the class
\* and miss none.
THEOREM DriversCorrect == DriversSpec => []TakesFirst
<1>1. DriversInv => TakesFirst
  <2> SUFFICES ASSUME DriversInv PROVE TakesFirst
    BY Zenon
  <2>1. todo = << >> => Rest = {}
    BY EmptySeq DEF Rest
  <2> QED
    BY <2>1, Zenon DEF DriversInv, TakesFirst, Settled
<1> QED
  BY <1>1, DriversInvariance, PTL

-------------------------------------------------------------------------------
(***************************************************************************)
(* The transmit buffers.  They are used in turn, so the ones the card may  *)
(* still own are among the last that were filled without a wait that ended *)
(* well; the one that is filled next is the oldest of all.                 *)
(***************************************************************************)
TxInv ==
  /\ late \in 0 .. TX_DESC_COUNT
  /\ tx_index \in 0 .. TX_DESC_COUNT - 1
  /\ in_flight \subseteq 0 .. TX_DESC_COUNT - 1
  /\ \A d \in in_flight : Age(d) < late

LEMMA TxChanges ==
  ASSUME [NetworkNext]_networkVars
  PROVE  \/ \E done \in BOOLEAN : Send(done)
         \/ in_flight' \subseteq in_flight /\ UNCHANGED <<tx_index, late, torn>>
<1>1. CASE UNCHANGED networkVars
  BY <1>1, Zenon DEF networkVars, tx
<1>2. CASE ProcessRx
  <2>1. PICK seen \in Found : Handle(seen[1])
    BY <1>2 DEF ProcessRx, Receive
  <2> DEFINE f == seen[1]
  <2> HIDE DEF f
  <2>2. Handle(f)
    BY <2>1 DEF f
  <2>3. CASE SendArpReply
    BY <2>3, Zenon DEF SendArpReply
  <2>4. CASE UNCHANGED tx
    BY <2>4, Zenon DEF tx
  <2> QED
    BY <2>2, <2>3, <2>4, Zenon DEF Handle, tx
<1>3. CASE \E found \in BOOLEAN : Begin(found)
  BY <1>3, Zenon DEF Begin, Setup
<1>4. CASE Discover \/ Request
  BY <1>4, Zenon DEF Discover, Request, SendDhcpPacket
<1>5. CASE OffersPolled \/ AnswersPolled \/ Poll \/ PollReturns
  BY <1>5, Zenon DEF OffersPolled, AnswersPolled, Poll, PollReturns, tx
<1>6. CASE Finished
  BY <1>6, Zenon DEF Finished
<1>7. CASE \E f \in Frames : Arrive(f)
  BY <1>7, Zenon DEF Arrive, tx
<1>8. CASE Done
  BY <1>8, Zenon DEF Done, networkVars, tx
<1> QED
  BY <1>1, <1>2, <1>3, <1>4, <1>5, <1>6, <1>7, <1>8, Zenon DEF NetworkNext, NetworkDriver

\* How the age of a buffer changes when the next one is filled.
LEMMA AgeStep ==
  ASSUME NEW n \in Nat \ {0}, NEW i \in 0 .. n - 1, NEW d \in 0 .. n - 1
  PROVE  /\ (i - i - 1) % n = n - 1
         /\ (((i + 1) % n) - i - 1) % n = 0
         /\ (i - d - 1) % n \in 0 .. n - 1
         /\ (i - d - 1) % n < n - 1 => (((i + 1) % n) - d - 1) % n = ((i - d - 1) % n) + 1
<1>1. ASSUME NEW a \in -n .. n - 1
      PROVE  a % n = IF a < 0 THEN a + n ELSE a
  BY <1>1
<1>2. (i + 1) % n = IF i + 1 = n THEN 0 ELSE i + 1
  BY SMT
<1>3. (i - i - 1) % n = n - 1
  BY <1>1
<1>4. (((i + 1) % n) - i - 1) % n = 0
  BY <1>1, <1>2
<1>5. (i - d - 1) % n = IF i - d - 1 < 0 THEN i - d - 1 + n ELSE i - d - 1
  BY <1>1
<1>6. ASSUME (i - d - 1) % n < n - 1
      PROVE  (((i + 1) % n) - d - 1) % n = ((i - d - 1) % n) + 1
  <2>1. CASE i + 1 = n
    <3>1. ((i + 1) % n) - d - 1 = -d - 1 /\ -d - 1 \in -n .. n - 1
      BY <1>2, <2>1
    <3>2. (-d - 1) % n = n - d - 1
      BY <1>1, <3>1
    <3>3. i - d - 1 >= 0
      BY <1>5, <1>6, <2>1
    <3> QED
      BY <1>5, <1>6, <2>1, <3>1, <3>2, <3>3
  <2>2. CASE i + 1 < n
    <3>1. ((i + 1) % n) - d - 1 = i - d /\ i - d \in -n .. n - 1
      BY <1>2, <2>2
    <3>2. (i - d) % n = IF i - d < 0 THEN i - d + n ELSE i - d
      BY <1>1, <3>1, Zenon
    <3> QED
      BY <1>5, <1>6, <3>1, <3>2
  <2> QED
    BY <2>1, <2>2
<1> QED
  BY <1>3, <1>4, <1>5, <1>6

LEMMA TxStep ==
  ASSUME TxInv, [NetworkNext]_networkVars
  PROVE  /\ TxInv'
         /\ torn' /\ ~torn => late = TX_DESC_COUNT
<1> DEFINE n == TX_DESC_COUNT
<1>n. n \in Nat \ {0}
  BY NetworkAssumption, Zenon
<1> HIDE DEF n
<1>t. /\ late \in 0 .. n /\ tx_index \in 0 .. n - 1 /\ in_flight \subseteq 0 .. n - 1
      /\ \A d \in in_flight : (tx_index - d - 1) % n < late
  BY Zenon DEF TxInv, Age, n
<1>1. CASE in_flight' \subseteq in_flight /\ UNCHANGED <<tx_index, late, torn>>
  BY <1>1, Zenon DEF TxInv, Age
<1>2. ASSUME NEW done \in BOOLEAN, Send(done)
      PROVE  /\ TxInv'
             /\ torn' /\ ~torn => late = TX_DESC_COUNT
  <2>1. torn' /\ ~torn => tx_index \in in_flight
    BY <1>2, Zenon DEF Send
  <2>2. tx_index \in in_flight => late = n
    BY <1>n, <1>t, AgeStep
  <2>3. tx_index' = (tx_index + 1) % n /\ tx_index' \in 0 .. n - 1
    BY <1>2, <1>n, <1>t DEF Send, n
  <2>4. CASE done
    BY <1>2, <1>n, <2>1, <2>2, <2>3, <2>4 DEF Send, TxInv, n
  <2>5. CASE ~done
    <3>1. /\ in_flight' = in_flight \cup {tx_index}
          /\ late' = IF late < n THEN late + 1 ELSE late
      BY <1>2, <2>5, Zenon DEF Send, n
    <3>2. late' \in 0 .. n /\ in_flight' \subseteq 0 .. n - 1
      BY <1>t, <1>n, <3>1
    <3>3. ASSUME NEW d \in in_flight'
          PROVE  (tx_index' - d - 1) % n < late'
      <4>1. CASE d = tx_index
        <5>1. (tx_index' - d - 1) % n = 0
          BY <1>n, <1>t, <2>3, <4>1, AgeStep, Zenon
        <5> QED
          BY <1>n, <1>t, <3>1, <5>1
      <4>2. CASE d \in in_flight /\ d # tx_index
        <5> DEFINE a == (tx_index - d - 1) % n
                   b == (tx_index' - d - 1) % n
        <5>1. d \in 0 .. n - 1 /\ a < late
          BY <1>t, <4>2, Zenon
        <5>2. a \in 0 .. n - 1 /\ (a < n - 1 => b = a + 1)
          BY <1>n, <1>t, <2>3, <5>1, AgeStep, Zenon
        <5>3. b \in 0 .. n - 1
          BY <1>n, <2>3, <5>1
        <5> HIDE DEF a, b
        <5>4. b < late'
          BY <1>n, <1>t, <3>1, <5>1, <5>2, <5>3
        <5> QED
          BY <5>4, Zenon DEF b
      <4> QED
        BY <3>1, <3>3, <4>1, <4>2, Zenon
    <3> QED
      BY <2>1, <2>2, <2>3, <3>2, <3>3, Zenon DEF TxInv, Age, n
  <2> QED
    BY <2>4, <2>5, Zenon
<1> QED
  BY <1>1, <1>2, TxChanges, Zenon

\* A transmit buffer is written under the card only after as many unfinished
\* sends in a row as there are buffers (rtl8139_send_frame).
THEOREM BuffersCorrect == NetworkSpec => BuffersKept
<1>1. NetworkInit => TxInv
  BY NetworkAssumption DEF NetworkInit, TxInv
<1>2. TxInv /\ [NetworkNext]_networkVars => [torn' /\ ~torn => late = TX_DESC_COUNT]_networkVars
  BY TxStep, Zenon
<1> QED
  BY <1>1, <1>2, TxStep, PTL DEF NetworkSpec, BuffersKept

-------------------------------------------------------------------------------
(***************************************************************************)
(* The receive ring, as long as it is steady: the frames that wait lie one *)
(* behind the other between the reader and the writer, numbered in a row,  *)
(* and behind the writer nothing was ever written.                         *)
(***************************************************************************)

\* A frame begins at s, and the next one, if there is one, where it ends.
Entry(s) ==
  LET f == rx_buffer[s].of
  IN  /\ rx_buffer[s].n \in 1 .. came
      /\ f \in Frames /\ f.words % 2 = 0 /\ ~f.big
      /\ s + f.words <= writer
      /\ IF s + f.words = writer THEN rx_buffer[s].n = came
         ELSE rx_buffer[s + f.words].n = rx_buffer[s].n + 1

FirstLap ==
  /\ reader \in 0 .. writer /\ writer \in 0 .. RING - 1
  /\ reader % 2 = 0 /\ writer % 2 = 0
  /\ reader # GAP /\ writer # GAP
  /\ got \in Nat
  /\ \A s \in writer .. BUFFER - 1 : rx_buffer[s] = ZERO
  /\ \A s \in reader .. writer - 1 : rx_buffer[s] = BODY \/ Entry(s)
  /\ IF reader = writer THEN got = came ELSE rx_buffer[reader].n = got + 1

RingInv ==
  /\ came \in Nat
  /\ pc = "start" => reader = 0 /\ writer = 0
  /\ steady => FirstLap

\* The driver looks where the reader is: the fallback for a register that reads
\* 0 is not met, nor is anything lost by rounding.
LEMMA OffsetIs ==
  ASSUME FirstLap
  PROVE  Offset = reader
<1>1. reader \in Nat /\ reader % 2 = 0 /\ reader # GAP
  BY NetworkAssumption DEF FirstLap
<1> QED
  BY <1>1 DEF Offset, Even

\* What the driver finds there: nothing when all frames were taken, else the
\* frame after the last that was, which it takes.
LEMMA FoundNone ==
  ASSUME FirstLap, reader = writer
  PROVE  rx_buffer[Offset] = ZERO /\ Found = {}
<1>1. writer \in writer .. BUFFER - 1
  BY NetworkAssumption DEF FirstLap, BUFFER
<1>2. rx_buffer[Offset] = ZERO
  BY <1>1, OffsetIs, Zenon DEF FirstLap
<1> QED
  BY <1>2 DEF Found, ZERO, BODY

LEMMA FoundNext ==
  ASSUME FirstLap, reader # writer, came \in Nat
  PROVE  /\ Entry(reader) /\ rx_buffer[Offset].n = got + 1
         /\ rx_buffer[Offset] \notin {ZERO, BODY}
         /\ Found = {<<rx_buffer[reader].of, rx_buffer[reader].of.words>>}
         /\ Fits(rx_buffer[reader].of, rx_buffer[reader].of.words)
<1>1. reader \in reader .. writer - 1 /\ got \in Nat /\ rx_buffer[reader].n = got + 1
  BY DEF FirstLap
<1>2. rx_buffer[reader].n # 0
  BY <1>1
<1>3. rx_buffer[reader] # ZERO /\ rx_buffer[reader] # BODY
  BY <1>2 DEF ZERO, BODY
<1>4. Entry(reader)
  BY <1>1, <1>3, Zenon DEF FirstLap
<1>5. Found = {<<rx_buffer[reader].of, rx_buffer[reader].of.words>>}
  BY <1>3, OffsetIs, Zenon DEF Found
<1>6. Fits(rx_buffer[reader].of, rx_buffer[reader].of.words)
  <2>1. reader + rx_buffer[reader].of.words <= writer /\ ~rx_buffer[reader].of.big
    BY <1>4, Zenon DEF Entry
  <2>2. rx_buffer[reader].of.words \in Nat
    BY <1>4, NetworkAssumption DEF Entry
  <2> QED
    BY <2>1, <2>2, OffsetIs, NetworkAssumption DEF Fits, FirstLap, BUFFER
<1> QED
  BY <1>1, <1>3, <1>4, <1>5, <1>6, OffsetIs, Zenon

\* A frame is taken: the reader goes to the next one.
LEMMA ReceiveStep ==
  ASSUME FirstLap, came \in Nat, Receive
  PROVE  FirstLap' /\ got' = got + 1
<1>1. reader # writer
  BY FoundNone, Zenon DEF Receive
<1> DEFINE r == reader + rx_buffer[reader].of.words
           e == rx_buffer[reader]
<1>2. /\ Entry(reader) /\ rx_buffer[Offset].n = got + 1
      /\ Found = {<<e.of, e.of.words>>}
  BY <1>1, FoundNext, Zenon
<1>3. Past(e.of.words)
  BY <1>2 DEF Receive
<1>4. got' = got + 1 /\ UNCHANGED <<rx_buffer, writer, came, steady>>
  BY <1>2, Zenon DEF Receive
<1>5. e.of.words \in Nat /\ e.of.words > GAP /\ e.of.words % 2 = 0 /\ r <= writer
  BY <1>2, NetworkAssumption DEF Entry
<1>6. /\ reader \in Nat /\ writer \in Nat /\ writer < RING /\ reader % 2 = 0
      /\ RING \in Nat /\ PAD \in Nat /\ GAP \in Nat
  BY NetworkAssumption DEF FirstLap
<1> DEFINE w == e.of.words
<1>7. r = reader + w /\ r \in Nat /\ r % 2 = 0 /\ r # GAP
  <2> HIDE DEF e
  <2> HIDE DEF w
  <2>1. w \in Nat /\ w > GAP /\ w % 2 = 0 /\ r = reader + w
    BY <1>5, Zenon DEF w, e
  <2> HIDE DEF r
  <2> QED
    BY <1>6, <2>1
<1>8. reader' = r
  <2>1. MoveTo(r)
    BY <1>3, <1>5, <1>6, <1>7, OffsetIs DEF Past, BUFFER
  <2> HIDE DEF r
  <2>2. Even(r) = r
    BY <1>7 DEF Even
  <2>3. r < RING
    BY <1>5, <1>6, <1>7
  <2>4. r % RING = r
    BY <1>6, <1>7, <2>3
  <2> QED
    BY <2>1, <2>2, <2>4, Zenon DEF MoveTo
<1>9. IF r = writer THEN got' = came' ELSE rx_buffer'[r].n = got' + 1
  BY <1>2, <1>4, OffsetIs, Zenon DEF Entry
<1>10. \A s \in r .. writer - 1 : rx_buffer[s] = BODY \/ Entry(s)
  <2>1. \A s \in r .. writer - 1 : s \in reader .. writer - 1
    BY <1>5, <1>6, <1>7
  <2> QED
    BY <2>1, Zenon DEF FirstLap
<1> HIDE DEF r
<1>11. \A s \in reader' .. writer' - 1 : rx_buffer'[s] = BODY \/ Entry(s)'
  BY <1>4, <1>8, <1>10, Zenon DEF Entry
<1> QED
  BY <1>4, <1>5, <1>7, <1>8, <1>9, <1>11 DEF FirstLap

\* A frame comes: it is put behind those that wait.
LEMMA ArriveStep ==
  ASSUME FirstLap, came \in Nat, NEW f \in Frames, Arrive(f),
         f.words % 2 = 0, ~f.big, writer + f.words < RING
  PROVE  FirstLap'
<1> DEFINE w == f.words
           end == writer + w
<1>1. w \in Nat /\ w > GAP /\ w % 2 = 0
  BY NetworkAssumption
<1>2. /\ reader \in Nat /\ writer \in Nat /\ reader <= writer /\ writer % 2 = 0
      /\ RING \in Nat /\ PAD \in Nat /\ GAP \in Nat /\ GAP > 0
  BY NetworkAssumption DEF FirstLap
<1>3. end < RING /\ UNCHANGED <<reader, got>> /\ came' = came + 1 /\ writer' = end % RING
  BY Zenon DEF Arrive
<1>4. \A s \in 0 .. BUFFER - 1 :
        rx_buffer'[s] = IF s = writer THEN [n |-> came + 1, of |-> f]
                        ELSE IF s \in writer + 1 .. writer + w - 1 THEN BODY
                        ELSE rx_buffer[s]
  BY Zenon DEF Arrive
<1> HIDE DEF w
<1>5. /\ end \in Nat /\ end > writer /\ end % 2 = 0 /\ end # GAP
      /\ end = writer + w
  BY <1>1, <1>2
<1> HIDE DEF end
<1>6. writer' = end
  BY <1>2, <1>3, <1>5
<1>7. \A s \in 0 .. end - 1 : s \in 0 .. BUFFER - 1
  BY <1>2, <1>3, <1>5 DEF BUFFER
<1>8. \A s \in end .. BUFFER - 1 : rx_buffer'[s] = ZERO
  <2> SUFFICES ASSUME NEW s \in end .. BUFFER - 1
               PROVE  rx_buffer'[s] = ZERO
    BY Zenon
  <2>1. s \in 0 .. BUFFER - 1 /\ s # writer /\ s \notin writer + 1 .. writer + w - 1
    BY <1>1, <1>2, <1>5
  <2>2. s \in writer .. BUFFER - 1
    BY <1>2, <1>5
  <2> QED
    BY <1>4, <2>1, <2>2, Zenon DEF FirstLap
<1>9. \A s \in 0 .. writer - 1 : rx_buffer'[s] = rx_buffer[s]
  <2> SUFFICES ASSUME NEW s \in 0 .. writer - 1
               PROVE  rx_buffer'[s] = rx_buffer[s]
    BY Zenon
  <2>1. s \in 0 .. end - 1 /\ s # writer /\ s \notin writer + 1 .. writer + w - 1
    BY <1>2, <1>5
  <2> QED
    BY <1>4, <1>7, <2>1, Zenon
<1>10. rx_buffer'[writer] = [n |-> came + 1, of |-> f]
  <2>1. writer \in 0 .. end - 1
    BY <1>2, <1>5
  <2> QED
    BY <1>4, <1>7, <2>1, Zenon
<1>11. \A s \in reader .. end - 1 : rx_buffer'[s] = BODY \/ Entry(s)'
  <2> SUFFICES ASSUME NEW s \in reader .. end - 1
               PROVE  rx_buffer'[s] = BODY \/ Entry(s)'
    BY Zenon
  <2>1. CASE s = writer
    <3>1. /\ rx_buffer'[s].n = came' /\ rx_buffer'[s].of = f
          /\ s + f.words = writer' /\ came' \in 1 .. came'
      BY <1>3, <1>5, <1>6, <1>10, <2>1 DEF w
    <3>2. s + f.words <= writer'
      BY <1>5, <1>6, <3>1
    <3> QED
      BY <3>1, <3>2, Zenon DEF Entry
  <2>2. CASE s > writer
    <3>1. s \in 0 .. end - 1 /\ s \in writer + 1 .. writer + w - 1 /\ s # writer
      BY <1>1, <1>2, <1>5, <2>2
    <3> QED
      BY <1>4, <1>7, <3>1, Zenon
  <2>3. CASE s < writer
    <3>1. s \in reader .. writer - 1 /\ s \in 0 .. writer - 1
      BY <1>2, <2>3
    <3>2. rx_buffer'[s] = rx_buffer[s]
      BY <1>9, <3>1, Zenon
    <3>3. CASE rx_buffer[s] = BODY
      BY <3>2, <3>3, Zenon
    <3>4. CASE Entry(s)
      <4> DEFINE g == rx_buffer[s].of
                 k == rx_buffer[s].n
                 t == s + g.words
      <4>1. /\ k \in 1 .. came /\ g \in Frames /\ g.words % 2 = 0 /\ ~g.big /\ t <= writer
            /\ IF t = writer THEN k = came ELSE rx_buffer[t].n = k + 1
        BY <3>4, Zenon DEF Entry
      <4>2. g.words \in Nat
        BY <4>1, NetworkAssumption
      <4>3. t \in Nat
        BY <1>2, <3>1, <4>2
      <4> HIDE DEF t
      <4>4. rx_buffer'[t].n = k + 1
        <5>1. CASE t = writer
          BY <1>10, <4>1, <5>1
        <5>2. CASE t # writer
          <6>1. t \in 0 .. writer - 1
            BY <1>2, <4>1, <4>3, <5>2
          <6> QED
            BY <1>9, <4>1, <5>2, <6>1, Zenon
        <5> QED
          BY <5>1, <5>2, Zenon
      <4>5. k \in 1 .. came'
        BY <1>3, <4>1
      <4>8. t <= writer' /\ t # writer'
        BY <1>2, <1>5, <1>6, <4>1, <4>3
      <4>6. rx_buffer'[s].of = g /\ rx_buffer'[s].n = k /\ t = s + g.words
        BY <3>2, Zenon DEF t
      <4> HIDE DEF g, k
      <4>7. Entry(s)'
        BY <4>1, <4>4, <4>5, <4>6, <4>8, Zenon DEF Entry
      <4> QED
        BY <4>7, Zenon
    <3> QED
      BY <3>1, <3>3, <3>4, Zenon DEF FirstLap
  <2> QED
    BY <1>2, <1>5, <2>1, <2>2, <2>3
<1>12. rx_buffer'[reader].n = got + 1
  <2>1. CASE reader = writer
    BY <1>10, <2>1 DEF FirstLap
  <2>2. CASE reader # writer
    <3>1. reader \in 0 .. writer - 1
      BY <1>2, <2>2
    <3> QED
      BY <1>9, <2>2, <3>1, Zenon DEF FirstLap
  <2> QED
    BY <2>1, <2>2, Zenon
<1>13. reader # end /\ reader \in 0 .. end /\ end \in 0 .. RING - 1
  BY <1>2, <1>3, <1>5
<1> QED
  BY <1>3, <1>5, <1>6, <1>8, <1>11, <1>12, <1>13 DEF FirstLap

\* The steps of the driver and of the card, as far as the ring is concerned.
LEMMA RingChanges ==
  ASSUME RingInv, [NetworkNext]_networkVars
  PROVE  \/ /\ UNCHANGED <<reader, writer, rx_buffer, came, got, steady>>
            /\ pc' = "start" => pc = "start"
         \/ \E f \in Frames : Arrive(f) /\ pc # "start" /\ pc' = pc
         \/ Receive /\ pc # "start" /\ pc' = pc
         \/ /\ ReceiveNothing /\ UNCHANGED <<writer, rx_buffer, came, got, steady>>
            /\ pc # "start" /\ pc' # "start"
<1>1. CASE UNCHANGED networkVars
  BY <1>1, Zenon DEF networkVars, start, rx
<1>2. CASE ProcessRx
  BY <1>2, Zenon DEF ProcessRx, start
<1>3. ASSUME NEW found \in BOOLEAN, Begin(found)
      PROVE  UNCHANGED <<reader, writer, rx_buffer, came, got, steady>> /\ pc' # "start"
  BY <1>3, Zenon DEF Begin, Setup, RingInv
<1>4. CASE Discover \/ Request \/ Poll
  BY <1>4, Zenon DEF Discover, Request, Poll, rest
<1>5. CASE OffersPolled \/ AnswersPolled \/ PollReturns
  BY <1>5, Zenon DEF OffersPolled, AnswersPolled, PollReturns, AfterOffers, rest
<1>6. CASE Finished
  BY <1>6, Zenon DEF Finished, start, rx
<1>7. ASSUME NEW f \in Frames, Arrive(f)
      PROVE  pc # "start" /\ pc' = pc
  BY <1>7, Zenon DEF Arrive, start
<1>8. CASE Done
  BY <1>8, Zenon DEF Done, networkVars, start, rx
<1> QED
  BY <1>1, <1>2, <1>3, <1>4, <1>5, <1>6, <1>7, <1>8 DEF NetworkNext, NetworkDriver

\* A poll ends without a frame only when all have been taken.
LEMMA NothingLeft ==
  ASSUME FirstLap, came \in Nat, ReceiveNothing
  PROVE  reader = writer /\ got = came /\ reader' = reader
<1>1. reader = writer
  <2> SUFFICES ASSUME reader # writer
               PROVE  FALSE
    BY Zenon
  <2>1. /\ rx_buffer[Offset] \notin {ZERO, BODY}
        /\ Found = {<<rx_buffer[reader].of, rx_buffer[reader].of.words>>}
        /\ Fits(rx_buffer[reader].of, rx_buffer[reader].of.words)
    BY FoundNext, Zenon
  <2>2. PICK seen \in Found : ~Fits(seen[1], seen[2])
    BY <2>1, Zenon DEF ReceiveNothing
  <2> QED
    BY <2>1, <2>2
<1> QED
  BY <1>1, FoundNone, Zenon DEF ReceiveNothing, FirstLap

\* What makes the card's part steady is seen at once.
LEMMA StaysSteady ==
  ASSUME NEW f \in Frames, Arrive(f), steady'
  PROVE  steady /\ f.words % 2 = 0 /\ ~f.big /\ writer + f.words < RING
<1>1. steady' = (steady /\ f.words % 2 = 0 /\ ~f.big /\ writer + f.words < RING)
  BY Zenon DEF Arrive
<1> QED
  BY <1>1, Zenon

LEMMA RingStep ==
  ASSUME RingInv, [NetworkNext]_networkVars
  PROVE  /\ RingInv'
         /\ steady => got' \in {got, got + 1}
<1>1. CASE /\ UNCHANGED <<reader, writer, rx_buffer, came, got, steady>>
           /\ pc' = "start" => pc = "start"
  BY <1>1, Zenon DEF RingInv, FirstLap, Entry
<1>2. ASSUME NEW f \in Frames, Arrive(f), pc # "start", pc' = pc
      PROVE  RingInv' /\ got' = got
  <2>1. came' \in Nat /\ got' = got
    <3>1. came' = came + 1 /\ got' = got
      BY <1>2, Zenon DEF Arrive
    <3>2. came \in Nat
      BY Zenon DEF RingInv
    <3> QED
      BY <3>1, <3>2
  <2>2. ASSUME steady'
        PROVE  FirstLap'
    BY <1>2, <2>2, StaysSteady, ArriveStep, Zenon DEF RingInv
  <2> QED
    BY <1>2, <2>1, <2>2, Zenon DEF RingInv
<1>3. CASE Receive /\ pc # "start" /\ pc' = pc
  <2>1. UNCHANGED <<came, steady>>
    BY <1>3, Zenon DEF Receive
  <2>2. ASSUME steady
        PROVE  FirstLap' /\ got' = got + 1
    BY <1>3, <2>2, ReceiveStep, Zenon DEF RingInv
  <2> QED
    BY <1>3, <2>1, <2>2, Zenon DEF RingInv
<1>4. CASE /\ ReceiveNothing /\ UNCHANGED <<writer, rx_buffer, came, got, steady>>
           /\ pc # "start" /\ pc' # "start"
  <2>1. ASSUME steady
        PROVE  FirstLap'
    <3>1. FirstLap /\ reader' = reader
      BY <1>4, <2>1, NothingLeft, Zenon DEF RingInv
    <3> QED
      BY <1>4, <3>1, Zenon DEF FirstLap, Entry
  <2> QED
    BY <1>4, <2>1, Zenon DEF RingInv
<1> QED
  BY <1>1, <1>2, <1>3, <1>4, RingChanges, Zenon

LEMMA RingInit ==
  ASSUME NetworkInit
  PROVE  RingInv
<1>1. \A s \in 0 .. BUFFER - 1 : rx_buffer[s] = ZERO
  BY Zenon DEF NetworkInit
<1> QED
  BY <1>1, NetworkAssumption DEF NetworkInit, RingInv, FirstLap

\* As long as the ring is steady, frames are taken in the order they came, each
\* once, and a poll leaves none (rtl8139_receive_packet, rtl8139_process_rx).
THEOREM FramesCorrect == NetworkSpec => FramesInOrder
<1>1. RingInv /\ [NetworkNext]_networkVars =>
        [steady =>
           /\ got' \in {got, got + 1}
           /\ (OffersPolled \/ AnswersPolled \/ PollReturns) => got = came]_networkVars
  <2> SUFFICES ASSUME RingInv, [NetworkNext]_networkVars, steady
               PROVE  /\ got' \in {got, got + 1}
                      /\ (OffersPolled \/ AnswersPolled \/ PollReturns) => got = came
    BY Zenon
  <2>1. ASSUME OffersPolled \/ AnswersPolled \/ PollReturns
        PROVE  got = came
    <3>1. ReceiveNothing
      BY <2>1, Zenon DEF OffersPolled, AnswersPolled, PollReturns
    <3> QED
      BY <3>1, NothingLeft, Zenon DEF RingInv
  <2> QED
    BY <2>1, RingStep, Zenon
<1>2. NetworkInit => RingInv
  BY RingInit
<1> QED
  BY <1>1, <1>2, RingStep, PTL DEF NetworkSpec, FramesInOrder

===============================================================================
