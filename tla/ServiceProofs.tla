------------------------------ MODULE ServiceProofs ------------------------------
(***************************************************************************)
(* Proofs about the background services, for every size of their tables,   *)
(* rings and buffers and for everything that may be copied, printed or     *)
(* played.                                                                 *)
(***************************************************************************)
EXTENDS Spooler, Services, SequenceTheorems, WellFoundedInduction, TLAPS

\* A set of numbers has a least member: what the loops that stop at the first
\* 0 rest on.
LEMMA LeastNat ==
  ASSUME NEW T \in SUBSET Nat, T # {}
  PROVE  \E x \in T : \A y \in T : x <= y
<1> DEFINE R == {ss \in Nat \X Nat : ss[1] < ss[2]}
<1>1. IsWellFoundedOn(R, Nat)
  BY NatLessThanWellFounded, Zenon DEF OpToRel
<1>2. \A x, y \in Nat : x < y => <<x, y>> \in R
  BY Zenon
<1> HIDE DEF R
<1>3. PICK x \in T : \A y \in T : ~(<<y, x>> \in R)
  BY <1>1, WFMin, Zenon
<1>4. ASSUME NEW y \in T PROVE x <= y
  <2>1. x \in Nat /\ y \in Nat
    BY Zenon
  <2>2. ~(y < x)
    BY <1>2, <1>3, <2>1, Zenon
  <2> QED
    BY <2>1, <2>2
<1> QED
  BY <1>4, Zenon

-------------------------------------------------------------------------------
(***************************************************************************)
(* The services that post (Services)                                       *)
(***************************************************************************)

Notes == {"welcome", "indexed", "failed", "keyboard", "mouse", "clipboard"}

ServicesType ==
  /\ notifications \in Seq(Notes)
  /\ disk_index_ready \in BOOLEAN /\ attached \in Nat
  /\ had_keyboard \in BOOLEAN /\ had_mouse \in BOOLEAN
  /\ clipboard_buffer \in [0 .. CLIPBOARD_SIZE - 1 -> Bytes] /\ clipboard_used \in Nat
  /\ clipboard_snapshot \in [0 .. SNAPSHOT_SIZE - 1 -> Bytes]

\* The table never has more entries than places.
WithinTable == Len(notifications) <= MAX_NOTIFICATIONS

ServicesInv == ServicesType /\ WithinTable /\ KnownIsAnnounced

\* A note is in a table, or there was no place for it.
AnnouncedIn(list, note) ==
  Len(list) = MAX_NOTIFICATIONS \/ \E k \in DOMAIN list : list[k] = note

LEMMA PostFacts ==
  ASSUME NEW list \in Seq(Notes), Len(list) <= MAX_NOTIFICATIONS, NEW note \in Notes
  PROVE  /\ Post(list, note) \in Seq(Notes) /\ Len(Post(list, note)) <= MAX_NOTIFICATIONS
         /\ AnnouncedIn(Post(list, note), note)
         /\ \A old : AnnouncedIn(list, old) => AnnouncedIn(Post(list, note), old)
<1> DEFINE n == Len(list)
           new == Append(list, note)
<1>1. MAX_NOTIFICATIONS \in Nat /\ n \in Nat /\ DOMAIN list = 1 .. n /\ n <= MAX_NOTIFICATIONS
  BY ServicesAssumption
<1>2. /\ new \in Seq(Notes) /\ Len(new) = n + 1 /\ DOMAIN new = 1 .. n + 1
      /\ new[n + 1] = note /\ \A k \in 1 .. n : new[k] = list[k]
  BY <1>1
<1>3. Post(list, note) = IF n < MAX_NOTIFICATIONS THEN new ELSE list
  BY Zenon DEF Post
<1>4. \A l, x : AnnouncedIn(l, x) <=> Len(l) = MAX_NOTIFICATIONS \/ \E k \in DOMAIN l : l[k] = x
  BY Zenon DEF AnnouncedIn
<1>5. AnnouncedIn(list, note) \/ n < MAX_NOTIFICATIONS
  <2>1. n = MAX_NOTIFICATIONS \/ n < MAX_NOTIFICATIONS
    <3> HIDE DEF n
    <3> QED
      BY <1>1
  <2> QED
    BY <1>4, <2>1, Zenon
<1>6. n + 1 \in 1 .. n + 1 /\ \A k \in 1 .. n : k \in 1 .. n + 1
  BY <1>1
<1>7. AnnouncedIn(new, note)
  BY <1>2, <1>4, <1>6, Zenon
<1>8. n < MAX_NOTIFICATIONS => n + 1 <= MAX_NOTIFICATIONS /\ n # MAX_NOTIFICATIONS
  <2> HIDE DEF n
  <2> QED
    BY <1>1
<1>9. ASSUME NEW old, AnnouncedIn(list, old), n < MAX_NOTIFICATIONS PROVE AnnouncedIn(new, old)
  <2>1. PICK k \in 1 .. n : list[k] = old
    BY <1>1, <1>4, <1>8, <1>9, Zenon
  <2> QED
    BY <1>2, <1>4, <1>6, <2>1, Zenon
<1> HIDE DEF n, new
<1>10. n = Len(list)
  BY Zenon DEF n
<1> QED
  BY <1>1, <1>2, <1>3, <1>5, <1>7, <1>8, <1>9, <1>10, Zenon

LEMMA InitServicesInv == ServicesInit => ServicesInv
<1> SUFFICES ASSUME ServicesInit PROVE ServicesInv
  BY Zenon
<1>1. ServicesType
  <2>1. notifications \in Seq(Notes)
    BY DEF ServicesInit, Notes
  <2>2. disk_index_ready \in BOOLEAN /\ attached \in Nat /\ had_keyboard \in BOOLEAN /\ had_mouse \in BOOLEAN
    BY Zenon DEF ServicesInit
  <2>3. /\ clipboard_buffer \in [0 .. CLIPBOARD_SIZE - 1 -> Bytes] /\ clipboard_used \in Nat
        /\ clipboard_snapshot \in [0 .. SNAPSHOT_SIZE - 1 -> Bytes]
    BY ServicesAssumption, Zenon DEF ServicesInit
  <2> QED
    BY <2>1, <2>2, <2>3, Zenon DEF ServicesType
<1>2. WithinTable
  BY ServicesAssumption DEF ServicesInit, WithinTable
<1>3. KnownIsAnnounced
  BY Zenon DEF ServicesInit, KnownIsAnnounced
<1> QED
  BY <1>1, <1>2, <1>3, Zenon DEF ServicesInv

\* What a step does to the table decides about what is known; the rest of the
\* state has its type.
LEMMA KeepsKnown ==
  ASSUME ServicesInv, ServicesType',
         WithinTable', \A old : AnnouncedIn(notifications, old) => AnnouncedIn(notifications', old),
         disk_index_ready' => disk_index_ready \/ AnnouncedIn(notifications', "indexed"),
         had_keyboard' => had_keyboard \/ AnnouncedIn(notifications', "keyboard"),
         had_mouse' => had_mouse \/ AnnouncedIn(notifications', "mouse")
  PROVE  ServicesInv'
BY Zenon DEF ServicesInv, KnownIsAnnounced, Announced, AnnouncedIn

LEMMA DiskIndexerStep ==
  ASSUME ServicesInv, NEW readable \in BOOLEAN, DiskIndexer(readable)
  PROVE  ServicesInv'
<1> DEFINE note == IF readable THEN "indexed" ELSE "failed"
<1>1. notifications \in Seq(Notes) /\ Len(notifications) <= MAX_NOTIFICATIONS /\ note \in Notes
  BY Zenon DEF ServicesInv, ServicesType, WithinTable, Notes
<1>2. UNCHANGED <<devices, clipboard, clipboard_snapshot>>
  BY Zenon DEF DiskIndexer
<1>3. CASE disk_index_ready
  BY <1>2, <1>3 DEF DiskIndexer, ServicesInv, ServicesType, WithinTable, KnownIsAnnounced, Announced,
                    devices, clipboard
<1>4. CASE ~disk_index_ready
  <2>1. disk_index_ready' = readable /\ notifications' = Post(notifications, note)
    BY <1>4, Zenon DEF DiskIndexer
  <2> HIDE DEF note
  <2>2. /\ notifications' \in Seq(Notes) /\ Len(notifications') <= MAX_NOTIFICATIONS
        /\ AnnouncedIn(notifications', note)
        /\ \A old : AnnouncedIn(notifications, old) => AnnouncedIn(notifications', old)
    BY <1>1, <2>1, PostFacts, Zenon
  <2>3. ServicesType'
    BY <1>2, <2>1, <2>2, Zenon DEF ServicesInv, ServicesType, devices, clipboard
  <2>4. disk_index_ready' => note = "indexed"
    BY <2>1, Zenon DEF note
  <2> QED
    BY <1>2, <2>2, <2>3, <2>4, KeepsKnown, Zenon DEF WithinTable, devices
<1> QED
  BY <1>3, <1>4, Zenon

LEMMA PollTyped ==
  ASSUME attached \in Nat, NEW found \in 0 .. MAX_HID_DEVICES, UsbPoll(found)
  PROVE  attached' \in Nat
BY ServicesAssumption DEF UsbPoll

LEMMA ShellPollStep ==
  ASSUME ServicesInv, NEW found \in 0 .. MAX_HID_DEVICES, ShellPoll(found)
  PROVE  ServicesInv'
<1>1. attached' \in Nat
  BY PollTyped, Zenon DEF ShellPoll, ServicesInv, ServicesType
<1> QED
  BY <1>1, Zenon DEF ShellPoll, ServicesInv, ServicesType, WithinTable, KnownIsAnnounced, Announced, clipboard

LEMMA InputMonitorStep ==
  ASSUME ServicesInv, NEW found \in 0 .. MAX_HID_DEVICES, InputMonitor(found)
  PROVE  ServicesInv'
<1> DEFINE newKeyboard == HasKeyboard' /\ ~had_keyboard
           newMouse == HasMouse' /\ ~had_mouse
           k == IF newKeyboard THEN Post(notifications, "keyboard") ELSE notifications
<1>1. notifications \in Seq(Notes) /\ Len(notifications) <= MAX_NOTIFICATIONS
  BY Zenon DEF ServicesInv, ServicesType, WithinTable
<1>2. /\ k \in Seq(Notes) /\ Len(k) <= MAX_NOTIFICATIONS
      /\ newKeyboard => AnnouncedIn(k, "keyboard")
      /\ \A old : AnnouncedIn(notifications, old) => AnnouncedIn(k, old)
  <2>1. "keyboard" \in Notes
    BY Zenon DEF Notes
  <2> HIDE DEF newKeyboard
  <2> QED
    BY <1>1, <2>1, PostFacts, Zenon
<1>3. notifications' = IF newMouse THEN Post(k, "mouse") ELSE k
  BY Zenon DEF InputMonitor, NewAnnounced
<1> HIDE DEF k
<1>4. /\ notifications' \in Seq(Notes) /\ Len(notifications') <= MAX_NOTIFICATIONS
      /\ newMouse => AnnouncedIn(notifications', "mouse")
      /\ \A old : AnnouncedIn(k, old) => AnnouncedIn(notifications', old)
  <2>1. "mouse" \in Notes
    BY Zenon DEF Notes
  <2> HIDE DEF newMouse
  <2> QED
    BY <1>2, <1>3, <2>1, PostFacts, Zenon
<1>5. had_keyboard' = HasKeyboard' /\ had_mouse' = HasMouse'
  BY Zenon DEF InputMonitor
<1>6. ServicesType'
  <2>1. attached' \in Nat
    BY PollTyped, Zenon DEF InputMonitor, ServicesInv, ServicesType
  <2>2. had_keyboard' \in BOOLEAN /\ had_mouse' \in BOOLEAN
    BY <1>5, <2>1 DEF HasKeyboard, HasMouse
  <2> QED
    BY <1>4, <2>1, <2>2, Zenon DEF InputMonitor, ServicesInv, ServicesType, clipboard
<1>7. disk_index_ready' = disk_index_ready
  BY Zenon DEF InputMonitor
<1>8. \A old : AnnouncedIn(notifications, old) => AnnouncedIn(notifications', old)
  BY <1>2, <1>4, Zenon
<1>9. had_keyboard' => had_keyboard \/ AnnouncedIn(notifications', "keyboard")
  BY <1>2, <1>4, <1>5, Zenon
<1>10. had_mouse' => had_mouse \/ AnnouncedIn(notifications', "mouse")
  BY <1>4, <1>5, Zenon
<1> QED
  BY <1>4, <1>6, <1>7, <1>8, <1>9, <1>10, KeepsKnown, Zenon DEF WithinTable

LEMMA CopyStep == ASSUME ServicesInv, NEW data \in Data, Copy(data) PROVE ServicesInv'
<1>1. UNCHANGED <<notifications, disk_index_ready, devices, clipboard_snapshot>>
  BY Zenon DEF Copy
<1>2. clipboard_buffer' \in [0 .. CLIPBOARD_SIZE - 1 -> Bytes] /\ clipboard_used' \in Nat
  <2>1. PICK n \in 0 .. CLIPBOARD_SIZE + 1 : data \in [1 .. n -> Bytes]
    BY Zenon DEF Data
  <2>2. n \in Nat /\ Len(data) = n
    BY <2>1, ServicesAssumption
  <2>3. CASE Len(data) = 0 \/ Len(data) > CLIPBOARD_SIZE
    BY <2>3, Zenon DEF Copy, ServicesInv, ServicesType, clipboard
  <2>4. CASE ~(Len(data) = 0 \/ Len(data) > CLIPBOARD_SIZE)
    <3>1. /\ clipboard_buffer' = [i \in 0 .. CLIPBOARD_SIZE - 1 |->
                                   IF i < Len(data) THEN data[i + 1] ELSE clipboard_buffer[i]]
          /\ clipboard_used' = n
      BY <2>2, <2>4, Zenon DEF Copy
    <3>2. \A i \in 0 .. CLIPBOARD_SIZE - 1 : i < n => data[i + 1] \in Bytes
      BY <2>1, <2>2, ServicesAssumption
    <3> QED
      BY <2>2, <3>1, <3>2, Zenon DEF ServicesInv, ServicesType
  <2> QED
    BY <2>3, <2>4, Zenon
<1> QED
  BY <1>1, <1>2, Zenon DEF ServicesInv, ServicesType, WithinTable, KnownIsAnnounced, Announced, devices

LEMMA ClearStep == ServicesInv /\ Clear => ServicesInv'
BY DEF Clear, ServicesInv, ServicesType, WithinTable, KnownIsAnnounced, Announced, devices

LEMMA DaemonStep == ServicesInv /\ ClipboardDaemon => ServicesInv'
<1> SUFFICES ASSUME ServicesInv, ClipboardDaemon PROVE ServicesInv'
  BY Zenon
<1>1. UNCHANGED <<disk_index_ready, devices, clipboard>>
  BY Zenon DEF ClipboardDaemon
<1>2. clipboard_snapshot' \in [0 .. SNAPSHOT_SIZE - 1 -> Bytes]
  <2>1. CASE clipboard_used = 0
    BY <2>1, Zenon DEF ClipboardDaemon, ServicesInv, ServicesType
  <2>2. CASE clipboard_used # 0
    <3>1. clipboard_snapshot' =
            [i \in 0 .. SNAPSHOT_SIZE - 1 |->
               IF i < SNAPSHOT_SIZE - 1 /\ Reads(i) THEN clipboard_buffer[i] ELSE clipboard_snapshot[i]]
      BY <2>2, Zenon DEF ClipboardDaemon
    <3>2. \A i \in 0 .. SNAPSHOT_SIZE - 1 : clipboard_buffer[i] \in Bytes
      BY ServicesAssumption DEF ServicesInv, ServicesType
    <3> QED
      BY <3>1, <3>2, Zenon DEF ServicesInv, ServicesType
  <2> QED
    BY <2>1, <2>2, Zenon
<1>3. /\ notifications' \in Seq(Notes) /\ Len(notifications') <= MAX_NOTIFICATIONS
      /\ \A old : AnnouncedIn(notifications, old) => AnnouncedIn(notifications', old)
  <2>1. notifications \in Seq(Notes) /\ Len(notifications) <= MAX_NOTIFICATIONS /\ "clipboard" \in Notes
    BY Zenon DEF ServicesInv, ServicesType, WithinTable, Notes
  <2>2. notifications' = notifications \/ notifications' = Post(notifications, "clipboard")
    BY Zenon DEF ClipboardDaemon
  <2> QED
    BY <2>1, <2>2, PostFacts, Zenon
<1>4. ServicesType'
  BY <1>1, <1>2, <1>3, Zenon DEF ServicesInv, ServicesType, devices, clipboard
<1> QED
  BY <1>1, <1>3, <1>4, KeepsKnown, Zenon DEF WithinTable, devices

LEMMA ServicesStep == ServicesInv /\ [ServicesNext]_servicesVars => ServicesInv'
<1>1. ServicesInv /\ UNCHANGED servicesVars => ServicesInv'
  BY DEF servicesVars, ServicesInv, ServicesType, WithinTable, KnownIsAnnounced, Announced, devices, clipboard
<1> QED
  BY <1>1, DiskIndexerStep, ShellPollStep, InputMonitorStep, CopyStep, ClearStep, DaemonStep, Zenon DEF ServicesNext

LEMMA ServicesInvariance == ServicesSpec => []ServicesInv
BY InitServicesInv, ServicesStep, PTL DEF ServicesSpec

\* For every size of the notification table and of the device table: what the
\* indexer and the input monitor know was announced, or the table was full.
THEOREM AnnouncedCorrect == ServicesSpec => []KnownIsAnnounced
<1>1. ServicesInv => KnownIsAnnounced
  BY Zenon DEF ServicesInv
<1> QED
  BY <1>1, ServicesInvariance, PTL

-------------------------------------------------------------------------------
(***************************************************************************)
(* The clipboard daemon.  It reads up to the first 0, and so does whoever  *)
(* reads the snapshot.                                                     *)
(***************************************************************************)

\* The text of some bytes ends at n.
EndsAt(bytes, n) ==
  /\ n \in 0 .. SNAPSHOT_SIZE - 1
  /\ \A i \in 0 .. n - 1 : bytes[i] # 0
  /\ n < SNAPSHOT_SIZE - 1 => bytes[n] = 0

LEMMA HasEnd == \A bytes : \E n \in 0 .. SNAPSHOT_SIZE - 1 : EndsAt(bytes, n)
<1> TAKE bytes
<1> DEFINE T == {n \in 0 .. SNAPSHOT_SIZE - 1 : n = SNAPSHOT_SIZE - 1 \/ bytes[n] = 0}
<1>1. SNAPSHOT_SIZE \in Nat /\ SNAPSHOT_SIZE > 0
  BY ServicesAssumption
<1>2. T \in SUBSET Nat /\ SNAPSHOT_SIZE - 1 \in T
  BY <1>1
<1>3. PICK n \in T : \A y \in T : n <= y
  <2> HIDE DEF T
  <2> QED
    BY <1>2, LeastNat, Zenon
<1>4. n \in 0 .. SNAPSHOT_SIZE - 1 /\ (n = SNAPSHOT_SIZE - 1 \/ bytes[n] = 0)
  BY Zenon
<1>5. ASSUME NEW i \in 0 .. n - 1 PROVE bytes[i] # 0
  <2>1. i \in 0 .. SNAPSHOT_SIZE - 1 /\ ~(n <= i)
    BY <1>1, <1>4
  <2> QED
    BY <1>3, <2>1, Zenon
<1> HIDE DEF T
<1>6. n < SNAPSHOT_SIZE - 1 => bytes[n] = 0
  BY <1>1, <1>4
<1> QED
  BY <1>4, <1>5, <1>6, Zenon DEF EndsAt

LEMMA OneEnd ==
  ASSUME NEW bytes, NEW n, NEW m, EndsAt(bytes, n), EndsAt(bytes, m)
  PROVE  n = m
<1>1. /\ SNAPSHOT_SIZE \in Nat /\ n \in Int /\ m \in Int
      /\ 0 <= n /\ n <= SNAPSHOT_SIZE - 1 /\ 0 <= m /\ m <= SNAPSHOT_SIZE - 1
  BY ServicesAssumption DEF EndsAt
<1>2. ASSUME n < m PROVE FALSE
  <2>1. n \in 0 .. m - 1 /\ n < SNAPSHOT_SIZE - 1
    BY <1>1, <1>2
  <2> QED
    BY <2>1, Zenon DEF EndsAt
<1>3. ASSUME m < n PROVE FALSE
  <2>1. m \in 0 .. n - 1 /\ m < SNAPSHOT_SIZE - 1
    BY <1>1, <1>3
  <2> QED
    BY <2>1, Zenon DEF EndsAt
<1> QED
  BY <1>1, <1>2, <1>3

\* The text is the bytes before its end.
LEMMA TextIs ==
  ASSUME NEW bytes, NEW n, EndsAt(bytes, n)
  PROVE  Text(bytes) = [k \in 1 .. n |-> bytes[k - 1]]
<1> DEFINE Ends(m) == (\A i \in 0 .. m - 1 : bytes[i] # 0) /\ (m < SNAPSHOT_SIZE - 1 => bytes[m] = 0)
           end == CHOOSE m \in 0 .. SNAPSHOT_SIZE - 1 : Ends(m)
<1>1. \A m \in 0 .. SNAPSHOT_SIZE - 1 : Ends(m) <=> EndsAt(bytes, m)
  BY Zenon DEF EndsAt
<1>2. n \in 0 .. SNAPSHOT_SIZE - 1 /\ Ends(n)
  BY Zenon DEF EndsAt
<1>3. Text(bytes) = [k \in 1 .. end |-> bytes[k - 1]]
  BY Zenon DEF Text
<1> HIDE DEF Ends
<1>4. end \in 0 .. SNAPSHOT_SIZE - 1 /\ Ends(end)
  BY <1>2, Zenon
<1> HIDE DEF end
<1>5. end = n
  BY <1>1, <1>4, OneEnd, Zenon
<1> QED
  BY <1>3, <1>5, Zenon

\* Two texts are the same if they end together and agree up to there.
LEMMA SameText ==
  ASSUME NEW a, NEW n, EndsAt(a, n), NEW b, NEW m, EndsAt(b, m)
  PROVE  Text(a) = Text(b) <=> n = m /\ \A i \in 0 .. n - 1 : a[i] = b[i]
<1>1. Text(a) = [k \in 1 .. n |-> a[k - 1]] /\ Text(b) = [k \in 1 .. m |-> b[k - 1]]
  BY TextIs, Zenon
<1>2. n \in Nat /\ m \in Nat
  BY ServicesAssumption DEF EndsAt
<1>3. ASSUME Text(a) = Text(b) PROVE n = m /\ \A i \in 0 .. n - 1 : a[i] = b[i]
  <2>1. 1 .. n = 1 .. m
    BY <1>1, <1>3, Zenon
  <2>2. n = m
    <3>1. n \in 1 .. n \/ n = 0
      BY <1>2
    <3>2. m \in 1 .. m \/ m = 0
      BY <1>2
    <3> QED
      BY <1>2, <2>1, <3>1, <3>2
  <2>3. ASSUME NEW i \in 0 .. n - 1 PROVE a[i] = b[i]
    <3>1. i + 1 \in 1 .. n /\ (i + 1) - 1 = i
      BY <1>2
    <3>2. Text(a)[i + 1] = a[i] /\ Text(b)[i + 1] = b[i]
      BY <1>1, <2>2, <3>1, Zenon
    <3> QED
      BY <1>3, <3>2, Zenon
  <2> QED
    BY <2>2, <2>3, Zenon
<1>4. ASSUME n = m, \A i \in 0 .. n - 1 : a[i] = b[i] PROVE Text(a) = Text(b)
  <2>1. \A k \in 1 .. n : k - 1 \in 0 .. n - 1
    BY <1>2
  <2> QED
    BY <1>1, <1>4, <2>1, Zenon
<1> QED
  BY <1>3, <1>4, Zenon

\* What the daemon leaves in the snapshot has the clipboard's text, and it was
\* changed by this if and only if the text was another.
LEMMA DaemonFollows ==
  ASSUME ServicesInv, ClipboardDaemon, clipboard_used # 0
  PROVE  /\ Text(clipboard_snapshot') = Text(clipboard_buffer)
         /\ Changed <=> Text(clipboard_snapshot) # Text(clipboard_buffer)
<1> DEFINE last == SNAPSHOT_SIZE - 1
<1>1. last \in Nat
  BY ServicesAssumption
<1>2. PICK e \in 0 .. last : EndsAt(clipboard_buffer, e)
  BY HasEnd, Zenon
<1>3. /\ e \in Nat /\ e <= last /\ (e < last => clipboard_buffer[e] = 0)
      /\ \A i \in 0 .. e - 1 : clipboard_buffer[i] # 0
  BY <1>1, <1>2 DEF EndsAt
<1>4. ASSUME NEW i \in 0 .. last - 1 PROVE Reads(i) <=> i <= e
  <2>1. CASE i <= e
    <3>1. \A j \in 0 .. i - 1 : j \in 0 .. e - 1
      BY <1>1, <1>3, <2>1
    <3> QED
      BY <1>3, <2>1, <3>1, Zenon DEF Reads
  <2>2. CASE ~(i <= e)
    <3>1. e \in 0 .. i - 1 /\ e < last
      BY <1>1, <1>3, <2>2
    <3> QED
      BY <1>3, <2>2, <3>1, Zenon DEF Reads
  <2> QED
    BY <2>1, <2>2, Zenon
<1>5. clipboard_snapshot' =
        [i \in 0 .. last |-> IF i < last /\ Reads(i) THEN clipboard_buffer[i] ELSE clipboard_snapshot[i]]
  BY Zenon DEF ClipboardDaemon
<1>6. Changed <=> \E i \in 0 .. last - 1 : Reads(i) /\ clipboard_snapshot[i] # clipboard_buffer[i]
  <2>1. last - 1 = SNAPSHOT_SIZE - 2
    BY ServicesAssumption
  <2> QED
    BY <2>1, Zenon DEF Changed
<1>7. PICK d \in 0 .. last : EndsAt(clipboard_snapshot, d)
  BY HasEnd, Zenon
<1>8. \A b, n : EndsAt(b, n) <=> /\ n \in 0 .. last
                                 /\ \A i \in 0 .. n - 1 : b[i] # 0
                                 /\ n < last => b[n] = 0
  BY Zenon DEF EndsAt
<1> HIDE DEF last
<1>9. ASSUME NEW i \in 0 .. last - 1, i <= e PROVE clipboard_snapshot'[i] = clipboard_buffer[i]
  <2>1. i \in 0 .. last /\ i < last
    BY <1>1
  <2> QED
    BY <1>4, <1>5, <1>9, <2>1, Zenon
<1>10. Text(clipboard_snapshot') = Text(clipboard_buffer)
  <2>1. ASSUME NEW i \in 0 .. e - 1 PROVE i \in 0 .. last - 1 /\ i <= e
    BY <1>1, <1>3
  <2>2. e < last => e \in 0 .. last - 1 /\ e <= e
    BY <1>1, <1>3
  <2>3. EndsAt(clipboard_snapshot', e)
    BY <1>3, <1>8, <1>9, <2>1, <2>2, Zenon
  <2>4. \A i \in 0 .. e - 1 : clipboard_snapshot'[i] = clipboard_buffer[i]
    BY <1>9, <2>1, Zenon
  <2> QED
    BY <1>2, <2>3, <2>4, SameText
<1>11. ASSUME ~Changed PROVE Text(clipboard_snapshot) = Text(clipboard_buffer)
  <2>1. ASSUME NEW i \in 0 .. last - 1, i <= e PROVE clipboard_snapshot[i] = clipboard_buffer[i]
    BY <1>4, <1>6, <1>11, <2>1, Zenon
  <2>2. ASSUME NEW i \in 0 .. e - 1 PROVE i \in 0 .. last - 1 /\ i <= e
    BY <1>1, <1>3
  <2>3. e < last => e \in 0 .. last - 1 /\ e <= e
    BY <1>1, <1>3
  <2>4. EndsAt(clipboard_snapshot, e)
    BY <1>3, <1>8, <2>1, <2>2, <2>3, Zenon
  <2> QED
    BY <1>2, <2>1, <2>2, <2>4, SameText
<1>12. ASSUME Changed, Text(clipboard_snapshot) = Text(clipboard_buffer) PROVE FALSE
  <2>1. PICK i \in 0 .. last - 1 : Reads(i) /\ clipboard_snapshot[i] # clipboard_buffer[i]
    BY <1>6, <1>12, Zenon
  <2>2. d = e /\ \A k \in 0 .. d - 1 : clipboard_snapshot[k] = clipboard_buffer[k]
    BY <1>2, <1>7, <1>12, SameText
  <2>3. i <= e
    BY <1>4, <2>1, Zenon
  <2>4. i \in 0 .. e - 1 \/ (i = e /\ e < last)
    BY <1>1, <1>3, <2>1, <2>3
  <2>5. e < last => clipboard_snapshot[e] = 0 /\ clipboard_buffer[e] = 0
    BY <1>2, <1>7, <1>8, <2>2, Zenon
  <2> QED
    BY <2>1, <2>2, <2>4, <2>5, Zenon
<1> QED
  BY <1>10, <1>11, <1>12, Zenon

\* For every size of the snapshot and whatever was on the clipboard before: the
\* daemon's comparison, byte by byte, finds a change exactly when the text is
\* another one.
THEOREM ChangesCorrect == ServicesSpec => AnnouncesChanges
<1> DEFINE Tells == ClipboardDaemon /\ Len(notifications) < MAX_NOTIFICATIONS =>
                      (notifications' # notifications <=> Text(clipboard_snapshot)' # Text(clipboard_snapshot))
<1>1. ServicesInv => Tells
  <2> SUFFICES ASSUME ServicesInv, ClipboardDaemon, Len(notifications) < MAX_NOTIFICATIONS
               PROVE  notifications' # notifications <=> Text(clipboard_snapshot)' # Text(clipboard_snapshot)
    BY Zenon
  <2>0. Text(clipboard_snapshot)' = Text(clipboard_snapshot')
    BY Zenon DEF Text
  <2>1. CASE clipboard_used = 0
    <3>1. clipboard_snapshot' = clipboard_snapshot /\ notifications' = notifications
      BY <2>1, Zenon DEF ClipboardDaemon
    <3> QED
      BY <2>0, <3>1, Zenon
  <2>2. CASE clipboard_used # 0
    <3>1. notifications' = IF Changed THEN Post(notifications, "clipboard") ELSE notifications
      BY <2>2, Zenon DEF ClipboardDaemon
    <3>2. Post(notifications, "clipboard") # notifications
      <4>1. notifications \in Seq(Notes) /\ "clipboard" \in Notes
        BY Zenon DEF ServicesInv, ServicesType, Notes
      <4>2. Len(Append(notifications, "clipboard")) = Len(notifications) + 1 /\ Len(notifications) \in Nat
        BY <4>1
      <4> QED
        BY <4>2 DEF Post
    <3>3. notifications' # notifications <=> Changed
      BY <3>1, <3>2, Zenon
    <3> QED
      BY <2>0, <2>2, <3>3, DaemonFollows, Zenon
  <2> QED
    BY <2>1, <2>2, Zenon
<1>2. ServicesInv => [Tells]_servicesVars
  BY <1>1, Zenon
<1> QED
  BY <1>2, ServicesInvariance, PTL DEF AnnouncesChanges

-------------------------------------------------------------------------------
(***************************************************************************)
(* The spooler's rings (Spooler): their index arithmetic, without "%"      *)
(***************************************************************************)

\* The slot k places after slot i.
Slot(i, k) == IF i + k < SLOTS THEN i + k ELSE i + k - SLOTS

LEMMA SlotsFacts == SLOTS \in Nat /\ SLOTS > 1 /\ SIZE \in Nat /\ SIZE > 0
BY SpoolerAssumption

LEMMA SlotIs ==
  ASSUME NEW i \in Slots, NEW k \in 0 .. SLOTS - 1
  PROVE  (i + k) % SLOTS = Slot(i, k) /\ Slot(i, k) \in Slots
<1>1. SLOTS \in Nat /\ SLOTS > 1 /\ i \in Nat /\ k \in Nat /\ i < SLOTS /\ k < SLOTS
  BY SlotsFacts DEF Slots
<1> DEFINE j == i + k
<1>2. j \in Nat /\ j < 2 * SLOTS
  BY <1>1
<1>3. Slot(i, k) = IF j < SLOTS THEN j ELSE j - SLOTS
  BY <1>1 DEF Slot
<1> HIDE DEF j
<1>4. j % SLOTS = IF j < SLOTS THEN j ELSE j - SLOTS
  <2>1. CASE j < SLOTS
    BY <1>1, <1>2, <2>1
  <2>2. CASE j >= SLOTS
    BY <1>1, <1>2, <2>2
  <2> QED
    BY <1>1, <1>2, <2>1, <2>2
<1>5. Slot(i, k) \in Slots
  BY <1>1, <1>2, <1>3 DEF Slots
<1> QED
  BY <1>3, <1>4, <1>5, Zenon DEF j

LEMMA AfterIs ==
  ASSUME NEW i \in Slots
  PROVE  (i + 1) % SLOTS = Slot(i, 1) /\ Slot(i, 1) \in Slots
<1>1. 1 \in 0 .. SLOTS - 1
  BY SlotsFacts
<1> QED
  BY <1>1, SlotIs, Zenon

LEMMA DistanceIs ==
  ASSUME NEW i \in Slots, NEW j \in Slots
  PROVE  (j - i) % SLOTS = IF j >= i THEN j - i ELSE j - i + SLOTS
<1>1. SLOTS \in Nat /\ SLOTS > 1 /\ i \in Nat /\ j \in Nat /\ i < SLOTS /\ j < SLOTS
  BY SlotsFacts DEF Slots
<1> DEFINE d == j - i
<1>2. d \in Int /\ d < SLOTS /\ -SLOTS < d /\ (j >= i <=> d >= 0)
  BY <1>1
<1> HIDE DEF d
<1>3. d % SLOTS = IF d >= 0 THEN d ELSE d + SLOTS
  <2>1. CASE d >= 0
    BY <1>1, <1>2, <2>1
  <2>2. CASE d < 0
    BY <1>1, <1>2, <2>2
  <2> QED
    BY <1>2, <2>1, <2>2
<1> QED
  BY <1>2, <1>3, Zenon DEF d

\* Adding to a ring that is not full.
LEMMA AddedOne ==
  ASSUME NEW head \in Slots, NEW tail \in Slots, NEW used, used = (tail - head) % SLOTS,
         NEW next, next = Slot(tail, 1)
  PROVE  /\ used \in 0 .. SLOTS - 1 /\ Slot(head, used) = tail
         /\ (IF next = head THEN SLOTS ELSE (next - head) % SLOTS) = used + 1
         /\ \A k \in 0 .. SLOTS - 1 : k # used => Slot(head, k) # tail
<1>1. SLOTS \in Nat /\ SLOTS > 1 /\ head \in Nat /\ tail \in Nat /\ head < SLOTS /\ tail < SLOTS
  BY SlotsFacts DEF Slots
<1>2. used = IF tail >= head THEN tail - head ELSE tail - head + SLOTS
  BY DistanceIs, Zenon
<1>3. used \in 0 .. SLOTS - 1 /\ Slot(head, used) = tail
  BY <1>1, <1>2 DEF Slot
<1>4. \A k \in 0 .. SLOTS - 1 : k # used => Slot(head, k) # tail
  BY <1>1, <1>2 DEF Slot
<1>5. next = IF tail + 1 < SLOTS THEN tail + 1 ELSE 0
  BY <1>1 DEF Slot
<1>6. next \in Slots
  BY AfterIs, Zenon
<1>7. (next - head) % SLOTS = IF next >= head THEN next - head ELSE next - head + SLOTS
  BY <1>6, DistanceIs, Zenon
<1>8. next \in Int /\ used \in Int
  BY <1>1, <1>3, <1>6 DEF Slots
<1>9. (IF next = head THEN SLOTS ELSE IF next >= head THEN next - head ELSE next - head + SLOTS) = used + 1
  BY <1>1, <1>2, <1>5, <1>8
<1> QED
  BY <1>3, <1>4, <1>7, <1>9, Zenon

\* Taking from a ring that is not empty.
LEMMA TakenOne ==
  ASSUME NEW head \in Slots, NEW tail \in Slots, NEW used,
         used = (tail - head) % SLOTS \/ (used = SLOTS /\ head = tail), used # 0,
         NEW next, next = Slot(head, 1)
  PROVE  /\ used \in 1 .. SLOTS /\ Slot(head, 0) = head
         /\ (tail - next) % SLOTS = used - 1
         /\ \A k \in 0 .. SLOTS - 2 : Slot(next, k) = Slot(head, k + 1) /\ Slot(head, k + 1) # head
         /\ Slot(next, SLOTS - 1) = head
<1>1. SLOTS \in Nat /\ SLOTS > 1 /\ head \in Nat /\ tail \in Nat /\ head < SLOTS /\ tail < SLOTS
  BY SlotsFacts DEF Slots
<1>2. \/ used = IF tail >= head THEN tail - head ELSE tail - head + SLOTS
      \/ used = SLOTS /\ head = tail
  BY DistanceIs, Zenon
<1>3. used \in 1 .. SLOTS /\ Slot(head, 0) = head
  BY <1>1, <1>2 DEF Slot
<1>4. next = IF head + 1 < SLOTS THEN head + 1 ELSE 0
  BY <1>1 DEF Slot
<1>5. next \in Slots
  BY AfterIs, Zenon
<1>6. (tail - next) % SLOTS = IF tail >= next THEN tail - next ELSE tail - next + SLOTS
  BY <1>5, DistanceIs, Zenon
<1>7. (IF tail >= next THEN tail - next ELSE tail - next + SLOTS) = used - 1
  <2>1. next \in Int /\ used \in Int
    BY <1>1, <1>3, <1>5 DEF Slots
  <2> QED
    BY <1>1, <1>2, <1>4, <2>1
<1>8. \A k \in 0 .. SLOTS - 2 : Slot(next, k) = Slot(head, k + 1) /\ Slot(head, k + 1) # head
  BY <1>1, <1>4 DEF Slot
<1>9. Slot(next, SLOTS - 1) = head
  BY <1>1, <1>4 DEF Slot
<1> QED
  BY <1>3, <1>6, <1>7, <1>8, <1>9, Zenon

-------------------------------------------------------------------------------
(***************************************************************************)
(* Tones                                                                   *)
(***************************************************************************)

AudioType ==
  /\ audio_queue \in [Slots -> Tones \cup {NONE}]
  /\ audio_head \in Slots /\ audio_tail \in Slots /\ audio_queue_full \in BOOLEAN

AudioUsed == IF audio_queue_full THEN SLOTS ELSE (audio_tail - audio_head) % SLOTS

\* AudioSound, without "%".
AudioAgrees ==
  /\ audio_queue_full => audio_head = audio_tail
  /\ \A k \in 0 .. SLOTS - 1 : k < AudioUsed <=> audio_queue[Slot(audio_head, k)] # NONE

UnplayedRead ==
  /\ Unplayed \in Seq(Tones) /\ Len(Unplayed) = AudioUsed
  /\ \A k \in 1 .. AudioUsed : Unplayed[k] = audio_queue[Slot(audio_head, k - 1)]

LEMMA AudioIs ==
  AudioType => /\ AudioUsed \in 0 .. SLOTS
               /\ AudioSound <=> AudioAgrees
               /\ AudioSound => UnplayedRead
<1> SUFFICES ASSUME AudioType
             PROVE  /\ AudioUsed \in 0 .. SLOTS
                    /\ AudioSound <=> AudioAgrees
                    /\ AudioSound => UnplayedRead
  BY Zenon
<1>1. AudioUsed \in 0 .. SLOTS
  <2>1. (audio_tail - audio_head) % SLOTS =
          IF audio_tail >= audio_head THEN audio_tail - audio_head ELSE audio_tail - audio_head + SLOTS
    BY DistanceIs, Zenon DEF AudioType
  <2>2. /\ audio_head \in Nat /\ audio_tail \in Nat /\ audio_head < SLOTS /\ audio_tail < SLOTS
        /\ SLOTS \in Nat
    BY SlotsFacts DEF AudioType, Slots
  <2>3. (audio_tail - audio_head) % SLOTS \in 0 .. SLOTS
    BY <2>1, <2>2
  <2> QED
    BY <2>2, <2>3 DEF AudioUsed
<1>2. AudioSound <=> AudioAgrees
  <2>1. \A k \in 0 .. SLOTS - 1 : (audio_head + k) % SLOTS = Slot(audio_head, k)
    BY SlotIs, Zenon DEF AudioType
  <2> QED
    BY <2>1, Zenon DEF AudioSound, AudioAgrees, InUse, AudioUsed
<1>3. ASSUME AudioAgrees PROVE UnplayedRead
  <2> DEFINE used == AudioUsed
  <2>1. Unplayed = [k \in 1 .. used |-> audio_queue[(audio_head + k - 1) % SLOTS]]
    BY Zenon DEF Unplayed, InUse, AudioUsed
  <2>2. ASSUME NEW k \in 1 .. used
        PROVE  /\ (audio_head + k - 1) % SLOTS = Slot(audio_head, k - 1)
               /\ audio_queue[Slot(audio_head, k - 1)] \in Tones
    <3> HIDE DEF used
    <3>1. used \in Nat /\ used <= SLOTS /\ SLOTS \in Nat /\ audio_head \in Nat
      BY <1>1, SlotsFacts DEF used, AudioType, Slots
    <3>2. k - 1 \in 0 .. SLOTS - 1 /\ k - 1 < used /\ audio_head + k - 1 = audio_head + (k - 1)
      BY <3>1
    <3>3. (audio_head + (k - 1)) % SLOTS = Slot(audio_head, k - 1) /\ Slot(audio_head, k - 1) \in Slots
      BY <3>2, SlotIs, Zenon DEF AudioType
    <3>4. audio_queue[Slot(audio_head, k - 1)] # NONE
      BY <1>3, <3>2, Zenon DEF AudioAgrees, used
    <3> QED
      BY <3>2, <3>3, <3>4, Zenon DEF AudioType
  <2>3. \A k \in 1 .. used : Unplayed[k] = audio_queue[Slot(audio_head, k - 1)]
    BY <2>1, <2>2, Zenon
  <2>4. \A k \in 1 .. used : audio_queue[(audio_head + k - 1) % SLOTS] \in Tones
    BY <2>2, Zenon
  <2>5. used \in Nat
    BY <1>1, SlotsFacts
  <2> HIDE DEF used
  <2>6. Unplayed \in Seq(Tones) /\ Len(Unplayed) = used
    BY <2>1, <2>4, <2>5
  <2> QED
    BY <2>3, <2>6, Zenon DEF UnplayedRead, used
<1> QED
  BY <1>1, <1>2, <1>3, Zenon

LEMMA AudioTypeStep == AudioType /\ [Next]_vars => AudioType'
<1> SUFFICES ASSUME AudioType, [Next]_vars PROVE AudioType'
  BY Zenon
<1>1. ASSUME UNCHANGED audio PROVE AudioType'
  BY <1>1, Zenon DEF AudioType, audio
<1>2. ASSUME NEW text \in Texts, SpoolPrint(text) PROVE AudioType'
  BY <1>1, <1>2, Zenon DEF SpoolPrint
<1>3. ASSUME NEW tone \in Tones, SpoolAudioTone(tone) PROVE AudioType'
  <2>1. (audio_tail + 1) % SLOTS \in Slots
    BY AfterIs, Zenon DEF AudioType
  <2>2. ((audio_tail + 1) % SLOTS = audio_head) \in BOOLEAN
    BY Zenon
  <2>3. audio_head' = audio_head
    BY <1>3, Zenon DEF SpoolAudioTone
  <2>4. \/ UNCHANGED <<audio_queue, audio_tail, audio_queue_full>>
        \/ /\ audio_queue' = [audio_queue EXCEPT ![audio_tail] = tone]
           /\ audio_tail' = (audio_tail + 1) % SLOTS
           /\ audio_queue_full' = (audio_queue_full \/ (audio_tail + 1) % SLOTS = audio_head)
    BY <1>3, Zenon DEF SpoolAudioTone
  <2> QED
    BY <2>1, <2>2, <2>3, <2>4, Zenon DEF AudioType
<1>4. ASSUME AudioSpoolerService PROVE AudioType'
  <2>1. (audio_head + 1) % SLOTS \in Slots
    BY AfterIs, Zenon DEF AudioType
  <2> QED
    BY <1>4, <2>1, Zenon DEF AudioSpoolerService, PlayTone, AudioType
<1>5. CASE UNCHANGED vars
  BY <1>1, <1>5, Zenon DEF vars
<1> QED
  BY <1>2, <1>3, <1>4, <1>5, Zenon DEF Next

\* spool_audio_tone, in a ring that is sound and not full, adds at the end.
LEMMA ToneAdded ==
  ASSUME AudioType, AudioType', AudioSound, ~audio_queue_full, NEW tone \in Tones, SpoolAudioTone(tone)
  PROVE  AudioSound' /\ A!Put(tone)
<1> DEFINE used == AudioUsed
           next == Slot(audio_tail, 1)
<1>1. /\ AudioAgrees /\ UnplayedRead /\ used \in 0 .. SLOTS
      /\ audio_head \in Slots /\ audio_tail \in Slots /\ SLOTS \in Nat
  BY AudioIs, SlotsFacts, Zenon DEF AudioType
<1>2. (audio_tail + 1) % SLOTS = next
  BY <1>1, AfterIs, Zenon
<1>3. /\ audio_queue' = [audio_queue EXCEPT ![audio_tail] = tone]
      /\ audio_tail' = next /\ audio_head' = audio_head /\ played' = NONE
  BY <1>2, Zenon DEF SpoolAudioTone
<1>4. audio_queue_full' <=> next = audio_head
  BY <1>2, Zenon DEF SpoolAudioTone
<1>5. used = (audio_tail - audio_head) % SLOTS
  BY Zenon DEF AudioUsed
<1>6. /\ used \in 0 .. SLOTS - 1 /\ Slot(audio_head, used) = audio_tail
      /\ (IF next = audio_head THEN SLOTS ELSE (next - audio_head) % SLOTS) = used + 1
      /\ \A k \in 0 .. SLOTS - 1 : k # used => Slot(audio_head, k) # audio_tail
  <2> HIDE DEF used, next
  <2> QED
    BY <1>1, <1>5, AddedOne DEF next
<1>7. AudioUsed' = used + 1
  <2>1. AudioUsed' = IF next = audio_head THEN SLOTS ELSE (next - audio_head) % SLOTS
    BY <1>3, <1>4, Zenon DEF AudioUsed
  <2> QED
    BY <1>6, <2>1, Zenon
<1> HIDE DEF used, next
<1>8. ASSUME NEW k \in 0 .. SLOTS - 1
      PROVE  /\ Slot(audio_head, k) \in Slots
             /\ audio_queue'[Slot(audio_head, k)] = IF k = used THEN tone ELSE audio_queue[Slot(audio_head, k)]
  <2>1. Slot(audio_head, k) \in Slots
    BY <1>1, SlotIs, Zenon
  <2> QED
    BY <1>1, <1>3, <1>6, <2>1, Zenon DEF AudioType
<1>9. AudioAgrees'
  <2>1. ASSUME NEW k \in 0 .. SLOTS - 1
        PROVE  k < used + 1 <=> audio_queue'[Slot(audio_head, k)] # NONE
    <3>1. k < used + 1 <=> k = used \/ k < used
      BY <1>1, <1>6
    <3>2. k < used <=> audio_queue[Slot(audio_head, k)] # NONE
      BY <1>1, Zenon DEF AudioAgrees, used
    <3>3. tone # NONE
      BY SpoolerAssumption, Zenon
    <3>4. CASE k = used
      BY <1>8, <3>1, <3>3, <3>4, Zenon
    <3>5. CASE k # used
      BY <1>8, <3>1, <3>2, <3>5, Zenon
    <3> QED
      BY <3>4, <3>5, Zenon
  <2>2. \A k : Slot(audio_head, k)' = Slot(audio_head, k)
    BY <1>3, Zenon DEF Slot
  <2>3. audio_queue_full' => audio_head' = audio_tail'
    BY <1>3, <1>4, Zenon
  <2> QED
    BY <1>7, <2>1, <2>2, <2>3, Zenon DEF AudioAgrees
<1>10. AudioSound' /\ UnplayedRead'
  BY <1>9, AudioIs, PTL
<1>11. /\ Unplayed \in Seq(Tones) /\ Len(Unplayed) = used
       /\ \A k \in 1 .. used : Unplayed[k] = audio_queue[Slot(audio_head, k - 1)]
  BY <1>1, Zenon DEF UnplayedRead, used
<1>12. /\ Unplayed' \in Seq(Tones) /\ Len(Unplayed') = used + 1
       /\ \A k \in 1 .. used + 1 : Unplayed'[k] = audio_queue'[Slot(audio_head, k - 1)]
  <2>1. \A k : Slot(audio_head, k)' = Slot(audio_head, k)
    BY <1>3 DEF Slot
  <2> QED
    BY <1>3, <1>7, <1>10, <2>1, Zenon DEF UnplayedRead, Slot
<1>13. \A k \in 1 .. used : Unplayed'[k] = Unplayed[k]
  <2>1. \A k \in 1 .. used : k \in 1 .. used + 1 /\ k - 1 \in 0 .. SLOTS - 1 /\ k - 1 # used
    BY <1>1, <1>6
  <2> QED
    BY <1>8, <1>11, <1>12, <2>1, Zenon
<1>14. Unplayed'[used + 1] = tone
  <2>1. used + 1 \in 1 .. used + 1 /\ (used + 1) - 1 = used
    BY <1>6
  <2> QED
    BY <1>6, <1>8, <1>12, <2>1, Zenon
<1>15. Unplayed' = Append(Unplayed, tone)
  <2>1. Append(Unplayed, tone) \in Seq(Tones)
    BY <1>11
  <2>2. /\ Len(Append(Unplayed, tone)) = used + 1
        /\ \A k \in 1 .. used : Append(Unplayed, tone)[k] = Unplayed[k]
        /\ Append(Unplayed, tone)[used + 1] = tone
    BY <1>11, AppendProperties
  <2>3. \A k \in 1 .. used + 1 : k \in 1 .. used \/ k = used + 1
    BY <1>6
  <2>4. \A k \in 1 .. used + 1 : Unplayed'[k] = Append(Unplayed, tone)[k]
    BY <1>13, <1>14, <2>2, <2>3, Zenon
  <2> QED
    BY <1>12, <2>1, <2>2, <2>4, SeqEqual, Zenon
<1>16. Len(Unplayed) < SLOTS
  BY <1>1, <1>6, <1>11
<1> QED
  BY <1>3, <1>10, <1>15, <1>16, Zenon DEF A!Put

\* The service takes the first tone of a ring that is sound, or finds none.
LEMMA ToneTaken ==
  ASSUME AudioType, AudioType', AudioSound, PlayTone
  PROVE  AudioSound' /\ A!Take
<1> DEFINE used == AudioUsed
           next == Slot(audio_head, 1)
<1>1. /\ AudioAgrees /\ UnplayedRead /\ used \in 0 .. SLOTS
      /\ audio_head \in Slots /\ audio_tail \in Slots /\ SLOTS \in Nat /\ SLOTS > 1
  BY AudioIs, SlotsFacts, Zenon DEF AudioType
<1>2. /\ Unplayed \in Seq(Tones) /\ Len(Unplayed) = used
      /\ \A k \in 1 .. used : Unplayed[k] = audio_queue[Slot(audio_head, k - 1)]
  BY <1>1, Zenon DEF UnplayedRead
<1>3. ToneDue <=> used # 0
  <2>1. 0 \in 0 .. SLOTS - 1 /\ Slot(audio_head, 0) = audio_head
    BY <1>1 DEF Slot, Slots
  <2>2. 0 < used <=> ToneDue
    BY <1>1, <2>1, Zenon DEF AudioAgrees, ToneDue
  <2> HIDE DEF used
  <2> QED
    BY <1>1, <2>2
<1>4. CASE ~ToneDue
  <2>1. UNCHANGED <<audio_queue, audio_head, audio_tail, audio_queue_full>> /\ played' = NONE
    BY <1>4, Zenon DEF PlayTone
  <2>2. Unplayed' = Unplayed /\ AudioSound'
    BY <2>1, Zenon DEF Unplayed, AudioSound, InUse
  <2>3. Unplayed = << >>
    BY <1>2, <1>3, <1>4, EmptySeq, Zenon
  <2> QED
    BY <2>1, <2>2, <2>3, Zenon DEF A!Take
<1>5. CASE ToneDue
  <2>1. /\ played' = audio_queue[audio_head]
        /\ audio_queue' = [audio_queue EXCEPT ![audio_head] = NONE]
        /\ audio_head' = (audio_head + 1) % SLOTS
        /\ audio_queue_full' = FALSE /\ audio_tail' = audio_tail
    BY <1>5, Zenon DEF PlayTone
  <2>2. audio_head' = next
    BY <1>1, <2>1, AfterIs, Zenon
  <2>3. used = (audio_tail - audio_head) % SLOTS \/ (used = SLOTS /\ audio_head = audio_tail)
    BY <1>1, Zenon DEF AudioUsed, AudioAgrees
  <2>4. /\ used \in 1 .. SLOTS /\ Slot(audio_head, 0) = audio_head
        /\ (audio_tail - next) % SLOTS = used - 1
        /\ \A k \in 0 .. SLOTS - 2 :
             Slot(next, k) = Slot(audio_head, k + 1) /\ Slot(audio_head, k + 1) # audio_head
        /\ Slot(next, SLOTS - 1) = audio_head
    <3>1. next = Slot(audio_head, 1) /\ used # 0
      BY <1>3, <1>5, Zenon
    <3> HIDE DEF used, next
    <3> QED
      BY <1>1, <2>3, <3>1, TakenOne
  <2>5. AudioUsed' = used - 1
    BY <2>1, <2>2, <2>4, Zenon DEF AudioUsed
  <2> HIDE DEF used, next
  <2>6. ASSUME NEW k \in 0 .. SLOTS - 2
        PROVE  audio_queue'[Slot(next, k)] = audio_queue[Slot(audio_head, k + 1)]
    <3>1. k + 1 \in 0 .. SLOTS - 1
      BY <1>1
    <3>2. Slot(audio_head, k + 1) \in Slots
      BY <1>1, <3>1, SlotIs, Zenon
    <3> QED
      BY <2>1, <2>4, <3>2, Zenon DEF AudioType
  <2>7. audio_queue'[Slot(next, SLOTS - 1)] = NONE
    BY <1>1, <2>1, <2>4, Zenon DEF AudioType
  <2>8. \A k : Slot(audio_head, k)' = Slot(next, k)
    BY <2>2, Zenon DEF Slot
  <2>9. AudioAgrees'
    <3>1. ASSUME NEW k \in 0 .. SLOTS - 1
          PROVE  k < used - 1 <=> audio_queue'[Slot(next, k)] # NONE
      <4>1. CASE k = SLOTS - 1
        BY <1>1, <2>4, <2>7, <4>1
      <4>2. CASE k # SLOTS - 1
        <5>1. k \in 0 .. SLOTS - 2 /\ k + 1 \in 0 .. SLOTS - 1 /\ (k < used - 1 <=> k + 1 < used)
          BY <1>1, <2>4, <4>2
        <5>2. k + 1 < used <=> audio_queue[Slot(audio_head, k + 1)] # NONE
          BY <1>1, <5>1, Zenon DEF AudioAgrees, used
        <5> QED
          BY <2>6, <5>1, <5>2, Zenon
      <4> QED
        BY <4>1, <4>2, Zenon
    <3> QED
      BY <2>1, <2>5, <2>8, <3>1, Zenon DEF AudioAgrees
  <2>10. AudioSound' /\ UnplayedRead'
    BY <2>9, AudioIs, PTL
  <2>11. /\ Unplayed' \in Seq(Tones) /\ Len(Unplayed') = used - 1
         /\ \A k \in 1 .. used - 1 : Unplayed'[k] = audio_queue'[Slot(next, k - 1)]
    BY <2>2, <2>5, <2>10, Zenon DEF UnplayedRead, Slot
  <2>12. used - 1 \in Nat /\ used \in Nat /\ used # 0
    BY <1>1, <2>4
  <2>13. Unplayed # << >>
    BY <1>2, <2>12, EmptySeq, Zenon DEF used
  <2>14. /\ Head(Unplayed) = Unplayed[1] /\ Tail(Unplayed) \in Seq(Tones) /\ Len(Tail(Unplayed)) = used - 1
         /\ \A k \in 1 .. used - 1 : Tail(Unplayed)[k] = Unplayed[k + 1]
    BY <1>2, <2>13, HeadTailProperties DEF used
  <2>15. Unplayed' = Tail(Unplayed)
    <3>1. ASSUME NEW k \in 1 .. used - 1 PROVE Unplayed'[k] = Unplayed[k + 1]
      <4>1. k - 1 \in 0 .. SLOTS - 2 /\ (k - 1) + 1 = k /\ k + 1 \in 1 .. used /\ (k + 1) - 1 = k
        BY <1>1, <2>4, <2>12
      <4>2. Unplayed[k + 1] = audio_queue[Slot(audio_head, k)]
        BY <1>2, <4>1, Zenon DEF used
      <4>3. audio_queue'[Slot(next, k - 1)] = audio_queue[Slot(audio_head, k)]
        BY <2>6, <4>1, Zenon
      <4> QED
        BY <2>11, <4>2, <4>3, Zenon
    <3> QED
      BY <2>11, <2>14, <3>1, SeqEqual, Zenon
  <2>16. played' = Head(Unplayed)
    <3>1. 1 \in 1 .. used /\ 1 - 1 = 0
      BY <2>12
    <3> QED
      BY <1>2, <2>1, <2>4, <2>14, <3>1, Zenon DEF used
  <2> QED
    BY <2>10, <2>13, <2>15, <2>16, Zenon DEF A!Take
<1> QED
  BY <1>4, <1>5, Zenon

\* For every number of slots and all tones, in any interleaving of callers with
\* the service: the audio ring is a queue until somebody adds to it when it is
\* full.
THEOREM PlaysCorrect == Spec => PlaysInOrder
<1> DEFINE Calls == {t \in Tones : SpoolAudioTone(t)}
           Good == \/ Calls # {} /\ audio_queue_full
                   \/ /\ AudioSound'
                      /\ A!Next \/ UNCHANGED <<Unplayed, played>>
                      /\ \A t \in Calls : A!Put(t)
<1>1. Init => AudioType
  <2>1. 0 \in Slots
    BY SlotsFacts DEF Slots
  <2> QED
    BY <2>1, Zenon DEF Init, AudioType
<1>2. AudioType /\ AudioType' /\ [Next]_vars => [AudioSound => Good]_vars
  <2> SUFFICES ASSUME AudioType, AudioType', Next, AudioSound PROVE Good
    BY Zenon
  <2>1. CASE \E t \in Tones : SpoolAudioTone(t)
    <3>1. CASE audio_queue_full
      BY <2>1, <3>1, Zenon
    <3>2. CASE ~audio_queue_full
      <4>1. \A t \in Tones : SpoolAudioTone(t) => AudioSound' /\ A!Put(t)
        BY <3>2, ToneAdded, Zenon
      <4>2. AudioSound' /\ A!Next
        BY <2>1, <4>1, Zenon DEF A!Next
      <4> QED
        BY <4>1, <4>2, Zenon
    <3> QED
      BY <3>1, <3>2, Zenon
  <2>2. CASE ~ \E t \in Tones : SpoolAudioTone(t)
    <3>1. Calls = {}
      BY <2>2, Zenon
    <3>2. ASSUME NEW text \in Texts, SpoolPrint(text)
          PROVE  AudioSound' /\ UNCHANGED <<Unplayed, played>>
      <4>1. UNCHANGED <<audio_queue, audio_head, audio_tail, audio_queue_full, played>>
        BY <3>2, Zenon DEF SpoolPrint, audio
      <4> QED
        BY <4>1, Zenon DEF AudioSound, Unplayed, InUse
    <3>3. ASSUME AudioSpoolerService PROVE AudioSound' /\ A!Next
      BY <3>3, ToneTaken, Zenon DEF AudioSpoolerService, A!Next
    <3> QED
      BY <2>2, <3>1, <3>2, <3>3, Zenon DEF Next
  <2> QED
    BY <2>1, <2>2, Zenon
<1>3. Spec => []AudioType
  BY <1>1, AudioTypeStep, PTL DEF Spec
<1> QED
  BY <1>2, <1>3, PTL DEF Spec, PlaysInOrder

-------------------------------------------------------------------------------
(***************************************************************************)
(* Texts that follow each other.  FlattenSeq is recursive: what it gives   *)
(* is by induction on the number of texts.                                 *)
(***************************************************************************)

\* Induction over 0 .. n, with a set in the place of a property.
LEMMA UpTo ==
  ASSUME NEW n \in Nat, NEW T, 0 \in T, \A i \in 0 .. n - 1 : i \in T => i + 1 \in T
  PROVE  \A i \in 0 .. n : i \in T
<1> DEFINE Bad == {i \in 0 .. n : i \notin T}
<1> SUFFICES ASSUME Bad # {} PROVE FALSE
  BY Zenon
<1>1. PICK m \in Bad : \A y \in Bad : m <= y
  <2> Bad \in SUBSET Nat
    OBVIOUS
  <2> HIDE DEF Bad
  <2> QED
    BY LeastNat, Zenon
<1>2. m \in 0 .. n /\ m \notin T
  BY Zenon
<1>3. m # 0
  BY <1>2, Zenon
<1>4. m - 1 \in 0 .. n - 1 /\ m - 1 \in 0 .. n /\ (m - 1) + 1 = m /\ ~(m <= m - 1)
  BY <1>2, <1>3
<1>5. m - 1 \in T
  BY <1>1, <1>4, Zenon
<1> QED
  BY <1>2, <1>4, <1>5, Zenon

\* What FlattenSeq has of the first texts, as an equation.
IsFlat(f, s, n) == f = [i \in 0 .. n |-> IF i = 0 THEN << >> ELSE f[i - 1] \o s[i]]

LEMMA FlatExists == ASSUME NEW s PROVE \A n \in Nat : \E f : IsFlat(f, s, n)
<1> DEFINE T == {n \in Nat : ~ \E f : IsFlat(f, s, n)}
<1> SUFFICES ASSUME T # {} PROVE FALSE
  BY Zenon
<1>1. PICK n \in T : \A y \in T : n <= y
  <2> T \in SUBSET Nat
    BY Zenon
  <2> HIDE DEF T
  <2> QED
    BY LeastNat, Zenon
<1>2. n \in Nat /\ ~ \E f : IsFlat(f, s, n)
  BY Zenon
<1>3. CASE n = 0
  <2> DEFINE f == [i \in 0 .. 0 |-> << >>]
  <2>1. \A i \in 0 .. 0 : i = 0
    OBVIOUS
  <2>2. f = [i \in 0 .. 0 |-> IF i = 0 THEN << >> ELSE f[i - 1] \o s[i]]
    BY <2>1, Zenon
  <2> QED
    BY <1>2, <1>3, <2>2, Zenon DEF IsFlat
<1>4. CASE n # 0
  <2>1. n - 1 \in Nat /\ n - 1 \notin T
    BY <1>1, <1>2, <1>4
  <2>2. PICK f : IsFlat(f, s, n - 1)
    BY <2>1, Zenon
  <2> DEFINE last == f[n - 1] \o s[n]
             g == [i \in 0 .. n |-> IF i = n THEN last ELSE f[i]]
  <2>3. ASSUME NEW i \in 0 .. n
        PROVE  g[i] = IF i = 0 THEN << >> ELSE g[i - 1] \o s[i]
    <3>1. i = n \/ (i \in 0 .. n - 1 /\ i # n)
      BY <1>2
    <3>2. i # 0 => i - 1 \in 0 .. n /\ i - 1 # n
      BY <1>2
    <3>3. i # 0 => g[i - 1] = f[i - 1]
      BY <3>2, Zenon
    <3>4. CASE i = n
      <4>1. g[i] = last
        BY <3>4, Zenon
      <4> QED
        BY <1>4, <3>3, <3>4, <4>1, Zenon
    <3>5. CASE i \in 0 .. n - 1 /\ i # n
      <4>1. f[i] = IF i = 0 THEN << >> ELSE f[i - 1] \o s[i]
        BY <2>2, <3>5, Zenon DEF IsFlat
      <4>2. g[i] = f[i]
        BY <3>5, Zenon
      <4> QED
        BY <3>3, <4>1, <4>2, Zenon
    <3> QED
      BY <3>1, <3>4, <3>5, Zenon
  <2>4. g = [i \in 0 .. n |-> IF i = 0 THEN << >> ELSE g[i - 1] \o s[i]]
    <3> DEFINE h == [i \in 0 .. n |-> IF i = 0 THEN << >> ELSE g[i - 1] \o s[i]]
    <3>1. g = [i \in 0 .. n |-> g[i]] /\ h = [i \in 0 .. n |-> h[i]]
      OBVIOUS
    <3>2. \A i \in 0 .. n : g[i] = h[i]
      BY <2>3, Zenon
    <3> QED
      BY <3>1, <3>2, Zenon
  <2> QED
    BY <1>2, <2>4, Zenon DEF IsFlat
<1> QED
  BY <1>3, <1>4, Zenon

\* The texts of s, one after the other: f[i] are the first i of them.
Joins(f, s) ==
  /\ f[0] = << >>
  /\ \A i \in 0 .. Len(s) - 1 : f[i + 1] = f[i] \o s[i + 1]
  /\ FlattenSeq(s) = f[Len(s)]

LEMMA FlattenIs ==
  ASSUME NEW S, NEW s \in Seq(S)
  PROVE  \E f : Joins(f, s)
<1> DEFINE n == Len(s)
           f == CHOOSE g : IsFlat(g, s, n)
<1>1. n \in Nat
  OBVIOUS
<1>2. FlattenSeq(s) = f[n]
  BY Zenon DEF FlattenSeq, IsFlat
<1>3. IsFlat(f, s, n)
  <2>1. \E g : IsFlat(g, s, n)
    BY <1>1, FlatExists, Zenon
  <2> HIDE DEF n
  <2> QED
    BY <2>1, Zenon
<1> HIDE DEF n, f
<1>4. \A i \in 0 .. n : f[i] = IF i = 0 THEN << >> ELSE f[i - 1] \o s[i]
  BY <1>3, Zenon DEF IsFlat
<1>5. f[0] = << >>
  <2>1. 0 \in 0 .. n
    BY <1>1
  <2> QED
    BY <1>4, <2>1, Zenon
<1>6. ASSUME NEW i \in 0 .. n - 1 PROVE f[i + 1] = f[i] \o s[i + 1]
  <2>1. i + 1 \in 0 .. n /\ i + 1 # 0 /\ (i + 1) - 1 = i
    BY <1>1
  <2> QED
    BY <1>4, <2>1, Zenon
<1>7. Joins(f, s)
  BY <1>2, <1>5, <1>6, Zenon DEF Joins, n
<1> QED
  BY <1>7, Zenon

LEMMA JoinsTyped ==
  ASSUME NEW S, NEW s \in Seq(Seq(S)), NEW f, Joins(f, s)
  PROVE  \A i \in 0 .. Len(s) : f[i] \in Seq(S)
<1> DEFINE n == Len(s)
           T == {i \in 0 .. n : f[i] \in Seq(S)}
<1>1. n \in Nat /\ \A i \in 1 .. n : s[i] \in Seq(S)
  <2>1. n \in Nat
    OBVIOUS
  <2>2. \A i \in 1 .. n : s[i] \in Seq(S)
    BY ElementOfSeq, Zenon
  <2> HIDE DEF n
  <2> QED
    BY <2>1, <2>2, Zenon
<1>2. f[0] = << >> /\ \A i \in 0 .. n - 1 : f[i + 1] = f[i] \o s[i + 1]
  BY Zenon DEF Joins
<1> HIDE DEF n
<1>3. 0 \in T
  <2>1. 0 \in 0 .. n /\ << >> \in Seq(S)
    BY <1>1
  <2> QED
    BY <1>2, <2>1, Zenon
<1>4. ASSUME NEW i \in 0 .. n - 1, i \in T PROVE i + 1 \in T
  <2>1. i + 1 \in 1 .. n /\ i + 1 \in 0 .. n
    BY <1>1
  <2>2. s[i + 1] \in Seq(S) /\ f[i] \in Seq(S)
    BY <1>1, <1>4, <2>1, Zenon
  <2>3. f[i] \o s[i + 1] \in Seq(S)
    BY <2>2, ConcatProperties, Zenon
  <2> QED
    BY <1>2, <2>1, <2>3, Zenon
<1> HIDE DEF T
<1>5. \A i \in 0 .. n : i \in T
  BY <1>1, <1>3, <1>4, UpTo, Zenon
<1> QED
  BY <1>5, Zenon DEF T, n

LEMMA FlattenTyped ==
  ASSUME NEW S, NEW s \in Seq(Seq(S))
  PROVE  FlattenSeq(s) \in Seq(S)
<1>1. PICK f : Joins(f, s)
  BY FlattenIs, Zenon
<1>2. \A i \in 0 .. Len(s) : f[i] \in Seq(S)
  BY <1>1, JoinsTyped, Zenon
<1>3. FlattenSeq(s) = f[Len(s)]
  BY <1>1, Zenon DEF Joins
<1>4. Len(s) \in 0 .. Len(s)
  BY LenProperties
<1> QED
  BY <1>2, <1>3, <1>4, Zenon

\* A text more.
LEMMA FlattenAppend ==
  ASSUME NEW S, NEW s \in Seq(Seq(S)), NEW x \in Seq(S)
  PROVE  FlattenSeq(Append(s, x)) = FlattenSeq(s) \o x
<1> DEFINE n == Len(s)
           t == Append(s, x)
<1>1. /\ n \in Nat /\ t \in Seq(Seq(S)) /\ Len(t) = n + 1
      /\ t[n + 1] = x /\ \A i \in 1 .. n : t[i] = s[i]
  BY AppendProperties
<1> HIDE DEF n, t
<1>2. PICK g : Joins(g, t)
  BY <1>1, FlattenIs, Zenon
<1>3. /\ g[0] = << >> /\ FlattenSeq(t) = g[n + 1]
      /\ \A i \in 0 .. n : g[i + 1] = g[i] \o t[i + 1]
  <2>1. (n + 1) - 1 = n
    BY <1>1
  <2> QED
    BY <1>1, <1>2, <2>1, Zenon DEF Joins
<1>4. PICK f : Joins(f, s)
  BY FlattenIs, Zenon
<1>5. /\ f[0] = << >> /\ FlattenSeq(s) = f[n]
      /\ \A i \in 0 .. n - 1 : f[i + 1] = f[i] \o s[i + 1]
  BY <1>4, Zenon DEF Joins, n
<1> DEFINE T == {i \in 0 .. n : g[i] = f[i]}
<1>6. 0 \in T
  <2>1. 0 \in 0 .. n
    BY <1>1
  <2> QED
    BY <1>3, <1>5, <2>1, Zenon
<1>7. ASSUME NEW i \in 0 .. n - 1, i \in T PROVE i + 1 \in T
  <2>1. i \in 0 .. n /\ i + 1 \in 0 .. n /\ i + 1 \in 1 .. n
    BY <1>1
  <2>2. g[i + 1] = g[i] \o t[i + 1] /\ t[i + 1] = s[i + 1] /\ g[i] = f[i]
    BY <1>1, <1>3, <1>7, <2>1, Zenon
  <2> QED
    BY <1>5, <2>1, <2>2, Zenon
<1> HIDE DEF T
<1>8. \A i \in 0 .. n : i \in T
  BY <1>1, <1>6, <1>7, UpTo, Zenon
<1>9. n \in 0 .. n
  BY <1>1
<1>10. g[n] = f[n] /\ g[n + 1] = g[n] \o x
  BY <1>1, <1>3, <1>8, <1>9, Zenon DEF T
<1> QED
  BY <1>3, <1>5, <1>10, Zenon DEF t

\* A concatenation starts with its first part.
LEMMA TailConcat ==
  ASSUME NEW S, NEW a \in Seq(S), NEW b \in Seq(S), a # << >>
  PROVE  /\ a \o b # << >> /\ Head(a \o b) = Head(a)
         /\ Tail(a \o b) = Tail(a) \o b
<1> DEFINE c == a \o b
           n == Len(a)
           m == Len(b)
<1>1. n \in Nat /\ m \in Nat /\ n # 0
  BY LenProperties, EmptySeq, Zenon
<1>2. /\ c \in Seq(S) /\ Len(c) = n + m
      /\ \A i \in 1 .. n + m : c[i] = IF i <= n THEN a[i] ELSE b[i - n]
  BY ConcatProperties, Zenon
<1> HIDE DEF c
<1>3. c # << >>
  <2>1. Len(c) # 0
    <3> HIDE DEF n, m
    <3> QED
      BY <1>1, <1>2
  <2> QED
    BY <1>2, <2>1, EmptySeq, Zenon
<1>4. /\ Head(c) = c[1] /\ Tail(c) \in Seq(S) /\ Len(Tail(c)) = Len(c) - 1
      /\ \A i \in 1 .. Len(Tail(c)) : Tail(c)[i] = c[i + 1]
  BY <1>2, <1>3, HeadTailProperties
<1>5. /\ Head(a) = a[1] /\ Tail(a) \in Seq(S) /\ Len(Tail(a)) = n - 1
      /\ \A i \in 1 .. Len(Tail(a)) : Tail(a)[i] = a[i + 1]
  BY HeadTailProperties
<1> DEFINE d == Tail(a) \o b
<1>6. /\ d \in Seq(S) /\ Len(d) = Len(Tail(a)) + m
      /\ \A i \in 1 .. Len(Tail(a)) + m :
           d[i] = IF i <= Len(Tail(a)) THEN Tail(a)[i] ELSE b[i - Len(Tail(a))]
  BY <1>5, ConcatProperties, Zenon
<1> HIDE DEF d, n, m
<1>7. /\ Len(Tail(c)) = (n - 1) + m /\ Len(d) = (n - 1) + m
      /\ \A i \in 1 .. (n - 1) + m : Tail(c)[i] = c[i + 1]
      /\ \A i \in 1 .. n - 1 : Tail(a)[i] = a[i + 1]
      /\ \A i \in 1 .. (n - 1) + m : d[i] = IF i <= n - 1 THEN Tail(a)[i] ELSE b[i - (n - 1)]
  <2>1. (n + m) - 1 = (n - 1) + m
    BY <1>1
  <2> QED
    BY <1>2, <1>4, <1>5, <1>6, <2>1, Zenon
<1>8. ASSUME NEW i \in 1 .. (n - 1) + m PROVE Tail(c)[i] = d[i]
  <2>1. i + 1 \in 1 .. n + m /\ (i + 1 <= n <=> i <= n - 1) /\ (i + 1) - n = i - (n - 1)
    BY <1>1
  <2>2. i <= n - 1 => i \in 1 .. n - 1
    BY <1>1
  <2> QED
    BY <1>2, <1>7, <2>1, <2>2, Zenon
<1>9. Tail(c) = d
  BY <1>4, <1>6, <1>7, <1>8, SeqEqual, Zenon
<1>10. Head(c) = Head(a)
  <2>1. 1 \in 1 .. n + m /\ 1 <= n
    BY <1>1
  <2> QED
    BY <1>2, <1>4, <1>5, <2>1, Zenon
<1> QED
  BY <1>3, <1>9, <1>10, Zenon DEF c, d

\* A character less, of the first text.
LEMMA FlattenTail ==
  ASSUME NEW S, NEW s \in Seq(Seq(S)), Len(s) # 0, s[1] # << >>,
         NEW t \in Seq(Seq(S)), Len(t) = Len(s), t[1] = Tail(s[1]),
         \A i \in 2 .. Len(s) : t[i] = s[i]
  PROVE  /\ FlattenSeq(s) # << >> /\ Head(FlattenSeq(s)) = Head(s[1])
         /\ FlattenSeq(t) = Tail(FlattenSeq(s))
<1> DEFINE n == Len(s)
<1>1. /\ n \in Nat /\ n # 0 /\ Len(t) = n
      /\ \A i \in 1 .. n : s[i] \in Seq(S) /\ t[i] \in Seq(S)
  BY LenProperties, ElementOfSeq, Zenon
<1>2. PICK f : Joins(f, s)
  BY FlattenIs, Zenon
<1>3. PICK g : Joins(g, t)
  BY FlattenIs, Zenon
<1>4. \A i \in 0 .. n : f[i] \in Seq(S)
  BY <1>2, JoinsTyped, Zenon
<1>5. /\ f[0] = << >> /\ FlattenSeq(s) = f[n]
      /\ \A i \in 0 .. n - 1 : f[i + 1] = f[i] \o s[i + 1]
  BY <1>2, Zenon DEF Joins
<1>6. /\ g[0] = << >> /\ FlattenSeq(t) = g[n]
      /\ \A i \in 0 .. n - 1 : g[i + 1] = g[i] \o t[i + 1]
  BY <1>3, Zenon DEF Joins
<1> DEFINE Has(i) == f[i] # << >> /\ Head(f[i]) = Head(s[1]) /\ g[i] = Tail(f[i])
           T == {i \in 0 .. n : i = 0 \/ Has(i)}
<1>a. (\A i \in 2 .. n : t[i] = s[i]) /\ s[1] # << >> /\ t[1] = Tail(s[1])
  BY Zenon
<1> HIDE DEF n
<1>7. 0 \in T
  BY <1>1
<1>8. ASSUME NEW i \in 0 .. n - 1, i \in T PROVE i + 1 \in T
  <2>1. i \in 0 .. n /\ i + 1 \in 0 .. n /\ i + 1 \in 1 .. n
    BY <1>1
  <2>2. s[i + 1] \in Seq(S) /\ t[i + 1] \in Seq(S) /\ f[i] \in Seq(S)
    BY <1>1, <1>4, <2>1, Zenon
  <2>3. f[i + 1] = f[i] \o s[i + 1] /\ g[i + 1] = g[i] \o t[i + 1]
    BY <1>5, <1>6, Zenon
  <2>4. CASE i = 0
    <3>1. f[1] = s[1] /\ g[1] = t[1]
      <4>1. i + 1 = 1
        BY <2>4
      <4>2. f[1] = << >> \o s[1] /\ g[1] = << >> \o t[1]
        BY <1>5, <1>6, <2>3, <2>4, <4>1, Zenon
      <4>3. << >> \o s[1] = s[1] /\ << >> \o t[1] = t[1]
        BY <2>2, <4>1, ConcatEmptySeq, Zenon
      <4> QED
        BY <4>2, <4>3, Zenon
    <3>2. Has(1)
      BY <1>a, <3>1, Zenon
    <3> QED
      BY <2>1, <2>4, <3>2
  <2>5. CASE i # 0
    <3>1. Has(i)
      BY <1>8, <2>5, Zenon
    <3>2. /\ f[i] \o s[i + 1] # << >> /\ Head(f[i] \o s[i + 1]) = Head(f[i])
          /\ Tail(f[i] \o s[i + 1]) = Tail(f[i]) \o s[i + 1]
      BY <2>2, <3>1, TailConcat, Zenon
    <3>3. t[i + 1] = s[i + 1]
      <4>1. i + 1 \in 2 .. n
        BY <2>1, <2>5
      <4> QED
        BY <1>a, <4>1, Zenon
    <3>4. Has(i + 1)
      BY <2>3, <3>1, <3>2, <3>3, Zenon
    <3> HIDE DEF Has
    <3> QED
      BY <2>1, <3>4, Zenon
  <2> QED
    BY <2>4, <2>5, Zenon
<1> HIDE DEF T
<1>9. \A i \in 0 .. n : i \in T
  BY <1>1, <1>7, <1>8, UpTo, Zenon
<1>10. n \in 0 .. n
  BY <1>1
<1>11. Has(n)
  BY <1>1, <1>9, <1>10, Zenon DEF T
<1> QED
  BY <1>5, <1>6, <1>11, Zenon

\* An empty text less, at the beginning.
LEMMA FlattenSkip ==
  ASSUME NEW S, NEW s \in Seq(Seq(S)), Len(s) # 0, s[1] = << >>
  PROVE  FlattenSeq(Tail(s)) = FlattenSeq(s)
<1> DEFINE n == Len(s)
           t == Tail(s)
<1>1. n \in Nat /\ n # 0 /\ n - 1 \in Nat
  BY LenProperties
<1>2. t \in Seq(Seq(S)) /\ Len(t) = n - 1 /\ \A i \in 1 .. n - 1 : t[i] = s[i + 1]
  <2>1. s # << >>
    BY EmptySeq, Zenon
  <2> QED
    BY <2>1, HeadTailProperties, Zenon
<1>3. PICK f : Joins(f, s)
  BY FlattenIs, Zenon
<1>4. /\ f[0] = << >> /\ FlattenSeq(s) = f[n]
      /\ \A i \in 0 .. n - 1 : f[i + 1] = f[i] \o s[i + 1]
  BY <1>3, Zenon DEF Joins
<1>a. s[1] = << >>
  BY Zenon
<1> HIDE DEF n, t
<1>5. PICK g : Joins(g, t)
  BY <1>2, FlattenIs, Zenon
<1>6. /\ g[0] = << >> /\ FlattenSeq(t) = g[n - 1]
      /\ \A i \in 0 .. (n - 1) - 1 : g[i + 1] = g[i] \o t[i + 1]
  BY <1>2, <1>5, Zenon DEF Joins
<1> DEFINE T == {i \in 0 .. n - 1 : g[i] = f[i + 1]}
<1>7. 0 \in T
  <2>1. 0 \in 0 .. n - 1
    BY <1>1
  <2>2. f[0 + 1] = << >> \o << >>
    <3>1. f[0 + 1] = f[0] \o s[0 + 1]
      BY <1>4, <2>1, Zenon
    <3>2. 0 + 1 = 1
      OBVIOUS
    <3> QED
      BY <1>4, <1>a, <3>1, <3>2, Zenon
  <2>3. << >> \o << >> = << >>
    BY ConcatEmptySeq
  <2> QED
    BY <1>6, <2>1, <2>2, <2>3, Zenon
<1>8. ASSUME NEW i \in 0 .. (n - 1) - 1, i \in T PROVE i + 1 \in T
  <2>1. i \in 0 .. n - 1 /\ i + 1 \in 0 .. n - 1 /\ i + 1 \in 1 .. n - 1
    BY <1>1
  <2>2. f[(i + 1) + 1] = f[i + 1] \o s[(i + 1) + 1] /\ t[i + 1] = s[(i + 1) + 1]
    BY <1>2, <1>4, <2>1, Zenon
  <2> QED
    BY <1>6, <1>8, <2>1, <2>2, Zenon
<1> HIDE DEF T
<1>9. \A i \in 0 .. n - 1 : i \in T
  BY <1>1, <1>7, <1>8, UpTo, Zenon
<1>10. n - 1 \in 0 .. n - 1 /\ (n - 1) + 1 = n
  BY <1>1
<1> QED
  BY <1>4, <1>6, <1>9, <1>10, Zenon DEF T, t

-------------------------------------------------------------------------------
(***************************************************************************)
(* Texts in slots                                                          *)
(***************************************************************************)

\* A slot's last byte is never written with anything but 0.
SlotType == {slot \in [0 .. SIZE - 1 -> Chars \cup {0}] : slot[SIZE - 1] = 0}

\* The text from an offset ends at e.
StopsAt(slot, offset, e) ==
  e \in offset .. SIZE - 1 /\ slot[e] = 0 /\ \A j \in offset .. e - 1 : slot[j] # 0

LEMMA HasStop ==
  ASSUME NEW slot \in SlotType, NEW offset \in 0 .. SIZE - 1
  PROVE  \E e \in offset .. SIZE - 1 : StopsAt(slot, offset, e)
<1> DEFINE T == {e \in offset .. SIZE - 1 : slot[e] = 0}
<1>1. SIZE \in Nat /\ SIZE > 0 /\ offset \in Nat /\ offset <= SIZE - 1
  BY SlotsFacts
<1>2. SIZE - 1 \in T /\ T \in SUBSET Nat
  BY <1>1 DEF SlotType
<1>3. PICK e \in T : \A y \in T : e <= y
  <2> HIDE DEF T
  <2> QED
    BY <1>2, LeastNat, Zenon
<1>4. e \in offset .. SIZE - 1 /\ slot[e] = 0
  BY Zenon
<1>5. ASSUME NEW j \in offset .. e - 1 PROVE slot[j] # 0
  <2>1. j \in offset .. SIZE - 1 /\ ~(e <= j)
    BY <1>1, <1>4
  <2> QED
    BY <1>3, <2>1, Zenon
<1> QED
  BY <1>4, <1>5, Zenon DEF StopsAt

LEMMA OneStop ==
  ASSUME NEW slot, NEW offset \in Nat, NEW e, NEW d, StopsAt(slot, offset, e), StopsAt(slot, offset, d)
  PROVE  e = d
<1>1. e \in Int /\ d \in Int /\ offset <= e /\ offset <= d
  BY SlotsFacts DEF StopsAt
<1>2. ASSUME e < d PROVE FALSE
  <2>1. e \in offset .. d - 1
    BY <1>1, <1>2
  <2> QED
    BY <2>1, Zenon DEF StopsAt
<1>3. ASSUME d < e PROVE FALSE
  <2>1. d \in offset .. e - 1
    BY <1>1, <1>3
  <2> QED
    BY <2>1, Zenon DEF StopsAt
<1> QED
  BY <1>1, <1>2, <1>3

LEMMA TextFromIs ==
  ASSUME NEW slot, NEW offset \in Nat, NEW e, StopsAt(slot, offset, e)
  PROVE  TextFrom(slot, offset) = [k \in 1 .. e - offset |-> slot[offset + k - 1]]
<1> DEFINE Stops(i) == slot[i] = 0 /\ \A j \in offset .. i - 1 : slot[j] # 0
           end == CHOOSE i \in offset .. SIZE - 1 : Stops(i)
<1>1. \A i \in offset .. SIZE - 1 : Stops(i) <=> StopsAt(slot, offset, i)
  BY Zenon DEF StopsAt
<1>2. e \in offset .. SIZE - 1 /\ Stops(e)
  BY Zenon DEF StopsAt
<1>3. TextFrom(slot, offset) = [k \in 1 .. end - offset |-> slot[offset + k - 1]]
  BY Zenon DEF TextFrom
<1> HIDE DEF Stops
<1>4. end \in offset .. SIZE - 1 /\ Stops(end)
  BY <1>2, Zenon
<1> HIDE DEF end
<1>5. end = e
  BY <1>1, <1>4, OneStop, Zenon
<1> QED
  BY <1>3, <1>5, Zenon

LEMMA TextFromTyped ==
  ASSUME NEW slot \in SlotType, NEW offset \in 0 .. SIZE - 1
  PROVE  TextFrom(slot, offset) \in Seq(Chars)
<1>1. PICK e \in offset .. SIZE - 1 : StopsAt(slot, offset, e)
  BY HasStop, Zenon
<1>2. offset \in Nat /\ e \in Nat /\ e - offset \in Nat /\ SIZE \in Nat /\ e <= SIZE - 1
  BY SlotsFacts
<1>3. TextFrom(slot, offset) = [k \in 1 .. e - offset |-> slot[offset + k - 1]]
  BY <1>1, <1>2, TextFromIs
<1>4. ASSUME NEW k \in 1 .. e - offset PROVE slot[offset + k - 1] \in Chars
  <2>1. offset + k - 1 \in offset .. e - 1 /\ offset + k - 1 \in 0 .. SIZE - 1
    BY <1>2
  <2> QED
    BY <1>1, <2>1, Zenon DEF StopsAt, SlotType
<1> DEFINE n == e - offset
<1>5. n \in Nat
  BY <1>2, Zenon
<1> HIDE DEF n
<1>6. [k \in 1 .. n |-> slot[offset + k - 1]] \in Seq(Chars)
  BY <1>4, <1>5 DEF n
<1> QED
  BY <1>3, <1>6, Zenon DEF n

\* What is left of a text before one of its characters, and after it.
LEMMA TextFromNext ==
  ASSUME NEW slot \in SlotType, NEW offset \in 0 .. SIZE - 1, slot[offset] # 0
  PROVE  /\ offset + 1 \in 0 .. SIZE - 1
         /\ TextFrom(slot, offset) # << >> /\ Head(TextFrom(slot, offset)) = slot[offset]
         /\ TextFrom(slot, offset + 1) = Tail(TextFrom(slot, offset))
<1> DEFINE s == TextFrom(slot, offset)
           t == TextFrom(slot, offset + 1)
<1>1. PICK e \in offset .. SIZE - 1 : StopsAt(slot, offset, e)
  BY HasStop, Zenon
<1>2. offset \in Nat /\ e \in Nat /\ e # offset /\ SIZE \in Nat
  BY <1>1, SlotsFacts DEF StopsAt
<1>3. e \in offset + 1 .. SIZE - 1 /\ offset + 1 \in 0 .. SIZE - 1 /\ offset + 1 \in Nat
  BY <1>2
<1>4. StopsAt(slot, offset + 1, e)
  <2>1. \A j \in offset + 1 .. e - 1 : j \in offset .. e - 1
    BY <1>2
  <2> QED
    BY <1>1, <1>3, <2>1, Zenon DEF StopsAt
<1> DEFINE n == e - offset
<1>5. n \in Nat /\ n > 0 /\ e - (offset + 1) = n - 1
  BY <1>2, <1>3
<1>6. s = [k \in 1 .. n |-> slot[offset + k - 1]]
  BY <1>1, <1>2, TextFromIs
<1>7. t = [k \in 1 .. n - 1 |-> slot[(offset + 1) + k - 1]]
  <2>1. t = [k \in 1 .. e - (offset + 1) |-> slot[(offset + 1) + k - 1]]
    BY <1>3, <1>4, TextFromIs, Zenon
  <2> HIDE DEF t, n
  <2> QED
    BY <1>5, <2>1, Zenon
<1>8. s \in Seq(Chars) /\ t \in Seq(Chars)
  BY <1>3, TextFromTyped, Zenon
<1> HIDE DEF n, s, t
<1>9. Len(s) = n /\ Len(t) = n - 1
  BY <1>5, <1>6, <1>7
<1>10. s # << >>
  BY <1>5, <1>9, EmptySeq
<1>11. /\ Head(s) = s[1] /\ Tail(s) \in Seq(Chars) /\ Len(Tail(s)) = n - 1
       /\ \A k \in 1 .. n - 1 : Tail(s)[k] = s[k + 1]
  BY <1>8, <1>9, <1>10, HeadTailProperties
<1>12. Head(s) = slot[offset]
  <2>1. 1 \in 1 .. n /\ offset + 1 - 1 = offset
    BY <1>2, <1>5
  <2> QED
    BY <1>6, <1>11, <2>1, Zenon
<1>13. ASSUME NEW k \in 1 .. n - 1 PROVE Tail(s)[k] = t[k]
  <2>1. k + 1 \in 1 .. n /\ offset + (k + 1) - 1 = (offset + 1) + k - 1
    BY <1>2, <1>5
  <2> QED
    BY <1>6, <1>7, <1>11, <2>1, Zenon
<1>14. t = Tail(s)
  BY <1>8, <1>9, <1>11, <1>13, SeqEqual
<1> QED
  BY <1>3, <1>10, <1>12, <1>14, Zenon DEF s, t

LEMMA TextFromEnd ==
  ASSUME NEW slot \in SlotType, NEW offset \in 0 .. SIZE - 1, slot[offset] = 0
  PROVE  TextFrom(slot, offset) = << >>
<1>1. offset \in Nat /\ SIZE \in Nat
  BY SlotsFacts
<1>2. StopsAt(slot, offset, offset)
  <2>1. \A j : j \notin offset .. offset - 1
    BY <1>1
  <2>2. offset \in offset .. SIZE - 1
    BY <1>1
  <2> QED
    BY <2>1, <2>2, Zenon DEF StopsAt
<1>3. TextFrom(slot, offset) = [k \in 1 .. offset - offset |-> slot[offset + k - 1]]
  BY <1>1, <1>2, TextFromIs
<1>4. TextFrom(slot, offset) \in Seq(Chars)
  BY TextFromTyped, Zenon
<1>5. offset - offset = 0
  BY <1>1
<1>6. Len(TextFrom(slot, offset)) = 0
  BY <1>3, <1>5
<1> QED
  BY <1>4, <1>6, EmptySeq, Zenon

LEMMA TruncateTyped ==
  ASSUME NEW text \in Seq(Chars)
  PROVE  /\ Truncate(text) \in Seq(Chars) /\ Len(Truncate(text)) \in 0 .. SIZE - 1
<1> DEFINE n == IF Len(text) < SIZE - 1 THEN Len(text) ELSE SIZE - 1
<1>1. Truncate(text) = SubSeq(text, 1, n)
  BY Zenon DEF Truncate
<1>2. Len(text) \in Nat
  BY LenProperties, Zenon
<1>3. n \in Nat /\ n <= Len(text) /\ n <= SIZE - 1
  BY <1>2, SlotsFacts
<1> HIDE DEF n
<1>4. ASSUME NEW i \in 1 .. n PROVE text[i] \in Chars
  <2>1. i \in 1 .. Len(text)
    BY <1>2, <1>3
  <2> QED
    BY <2>1, ElementOfSeq, Zenon
<1>5. SubSeq(text, 1, n) = [i \in 1 .. n |-> text[i]]
  BY <1>2, <1>3
<1>6. SubSeq(text, 1, n) \in Seq(Chars) /\ Len(SubSeq(text, 1, n)) = n
  BY <1>3, <1>4, <1>5
<1> QED
  BY <1>1, <1>3, <1>6, SlotsFacts

\* A slot reads back what was written into it, whatever it held before.
LEMMA WrittenReads ==
  ASSUME NEW slot \in SlotType, NEW text \in Seq(Chars)
  PROVE  Written(slot, text) \in SlotType /\ TextFrom(Written(slot, text), 0) = Truncate(text)
<1> DEFINE kept == Truncate(text)
           n == Len(kept)
           new == Written(slot, text)
<1>1. kept \in Seq(Chars) /\ n \in Nat /\ n <= SIZE - 1 /\ SIZE \in Nat /\ SIZE > 0
  <2>1. kept \in Seq(Chars) /\ n \in 0 .. SIZE - 1
    BY TruncateTyped, Zenon
  <2> HIDE DEF kept, n
  <2> QED
    BY <2>1, SlotsFacts
<1>2. \A i \in 1 .. n : kept[i] \in Chars /\ kept[i] # 0
  BY <1>1, ElementOfSeq, SpoolerAssumption
<1>3. new = [i \in 0 .. SIZE - 1 |-> IF i < n THEN kept[i + 1] ELSE IF i = n THEN 0 ELSE slot[i]]
  BY Zenon DEF Written
<1> HIDE DEF kept, n, new
<1>4. new \in SlotType
  <2>1. ASSUME NEW i \in 0 .. SIZE - 1, i < n PROVE kept[i + 1] \in Chars
    <3>1. i + 1 \in 1 .. n
      BY <1>1, <2>1
    <3> QED
      BY <1>2, <3>1, Zenon
  <2>2. new \in [0 .. SIZE - 1 -> Chars \cup {0}]
    BY <1>3, <2>1, Zenon DEF SlotType
  <2>3. SIZE - 1 \in 0 .. SIZE - 1 /\ ~(SIZE - 1 < n)
    BY <1>1
  <2>4. new[SIZE - 1] = 0
    BY <1>3, <2>3, Zenon DEF SlotType
  <2> QED
    BY <2>2, <2>4, Zenon DEF SlotType
<1>5. StopsAt(new, 0, n)
  <2>1. n \in 0 .. SIZE - 1 /\ ~(n < n)
    BY <1>1
  <2>2. ASSUME NEW j \in 0 .. n - 1 PROVE new[j] # 0
    <3>1. j \in 0 .. SIZE - 1 /\ j < n /\ j + 1 \in 1 .. n
      BY <1>1
    <3> QED
      BY <1>2, <1>3, <3>1, Zenon
  <2> QED
    BY <1>3, <2>1, <2>2, Zenon DEF StopsAt
<1>6. TextFrom(new, 0) = [k \in 1 .. n - 0 |-> new[0 + k - 1]]
  BY <1>5, TextFromIs
<1>7. TextFrom(new, 0) = [k \in 1 .. n |-> new[k - 1]]
  <2>1. n - 0 = n /\ \A k \in 1 .. n : 0 + k - 1 = k - 1
    BY <1>1
  <2> QED
    BY <1>6, <2>1, Zenon
<1>8. TextFrom(new, 0) \in Seq(Chars)
  <2>1. 0 \in 0 .. SIZE - 1
    BY <1>1
  <2> QED
    BY <1>4, <2>1, TextFromTyped, Zenon
<1>9. Len(TextFrom(new, 0)) = n
  BY <1>1, <1>7
<1>10. ASSUME NEW k \in 1 .. n PROVE TextFrom(new, 0)[k] = kept[k]
  <2>1. k - 1 \in 0 .. SIZE - 1 /\ k - 1 < n /\ (k - 1) + 1 = k
    BY <1>1
  <2> QED
    BY <1>3, <1>7, <2>1, Zenon
<1>11. TextFrom(new, 0) = kept
  BY <1>1, <1>8, <1>9, <1>10, SeqEqual, Zenon DEF n
<1> QED
  BY <1>4, <1>11, Zenon DEF new, kept

-------------------------------------------------------------------------------
(***************************************************************************)
(* The print ring                                                          *)
(***************************************************************************)

\* A text of which a part is printed is in use: the ring is not empty then.
PrintInv ==
  /\ print_queue \in [Slots -> SlotType]
  /\ print_head \in Slots /\ print_tail \in Slots /\ print_queue_full \in BOOLEAN
  /\ print_offset \in 0 .. SIZE - 1
  /\ print_offset # 0 /\ print_head = print_tail => print_queue_full

PrintUsed == IF print_queue_full THEN SLOTS ELSE (print_tail - print_head) % SLOTS

\* What is left of the text that is k-th to be printed.
Left(k) == TextFrom(print_queue[Slot(print_head, k - 1)], IF k = 1 THEN print_offset ELSE 0)

Pending == [k \in 1 .. PrintUsed |-> Left(k)]

PendingRead ==
  /\ PrintUsed \in 0 .. SLOTS /\ Unprinted = FlattenSeq(Pending)
  /\ Pending \in Seq(Seq(Chars)) /\ Len(Pending) = PrintUsed
  /\ \A k \in 1 .. PrintUsed : Pending[k] = Left(k)

LEMMA PrintIs == PrintInv => PendingRead
<1> SUFFICES ASSUME PrintInv PROVE PendingRead
  OBVIOUS
<1> DEFINE used == PrintUsed
<1>1. used \in 0 .. SLOTS
  <2>1. (print_tail - print_head) % SLOTS =
          IF print_tail >= print_head THEN print_tail - print_head ELSE print_tail - print_head + SLOTS
    BY DistanceIs, Zenon DEF PrintInv
  <2>2. /\ print_head \in Nat /\ print_tail \in Nat /\ print_head < SLOTS /\ print_tail < SLOTS
        /\ SLOTS \in Nat
    BY SlotsFacts DEF PrintInv, Slots
  <2>3. (print_tail - print_head) % SLOTS \in 0 .. SLOTS
    BY <2>1, <2>2
  <2> QED
    BY <2>2, <2>3 DEF PrintUsed
<1>2. used \in Nat /\ used <= SLOTS /\ SLOTS \in Nat /\ print_head \in Nat
  BY <1>1, SlotsFacts DEF PrintInv, Slots
<1>3. Unprinted =
        FlattenSeq([k \in 1 .. used |->
                      TextFrom(print_queue[(print_head + k - 1) % SLOTS], IF k = 1 THEN print_offset ELSE 0)])
  BY Zenon DEF Unprinted, InUse, PrintUsed
<1> HIDE DEF used
<1>4. ASSUME NEW k \in 1 .. used
      PROVE  /\ (print_head + k - 1) % SLOTS = Slot(print_head, k - 1)
             /\ Slot(print_head, k - 1) \in Slots
  <2>1. k - 1 \in 0 .. SLOTS - 1 /\ print_head + k - 1 = print_head + (k - 1)
    BY <1>2
  <2> QED
    BY <2>1, SlotIs, Zenon DEF PrintInv
<1>5. [k \in 1 .. used |->
         TextFrom(print_queue[(print_head + k - 1) % SLOTS], IF k = 1 THEN print_offset ELSE 0)] = Pending
  BY <1>4, Zenon DEF Pending, Left, used
<1>6. ASSUME NEW k \in 1 .. used PROVE Left(k) \in Seq(Chars)
  <2>1. print_queue[Slot(print_head, k - 1)] \in SlotType
    BY <1>4, Zenon DEF PrintInv
  <2>2. (IF k = 1 THEN print_offset ELSE 0) \in 0 .. SIZE - 1
    BY SlotsFacts DEF PrintInv
  <2> QED
    BY <2>1, <2>2, TextFromTyped, Zenon DEF Left
<1>7. Pending = [k \in 1 .. used |-> Left(k)]
  BY Zenon DEF Pending, used
<1>8. Pending \in Seq(Seq(Chars)) /\ Len(Pending) = used /\ \A k \in 1 .. used : Pending[k] = Left(k)
  BY <1>2, <1>6, <1>7
<1> QED
  BY <1>1, <1>3, <1>5, <1>8, Zenon DEF PendingRead, used

LEMMA InitPrintInv == Init => PrintInv
<1> SUFFICES ASSUME Init PROVE PrintInv
  OBVIOUS
<1>1. 0 \in Slots /\ 0 \in 0 .. SIZE - 1 /\ SIZE - 1 \in 0 .. SIZE - 1
  BY SlotsFacts DEF Slots
<1>2. [i \in 0 .. SIZE - 1 |-> 0] \in SlotType
  BY <1>1, Zenon DEF SlotType
<1>3. print_queue \in [Slots -> SlotType]
  BY <1>2, Zenon DEF Init
<1> QED
  BY <1>1, <1>3, Zenon DEF Init, PrintInv

LEMMA TextsTyped == \A text \in Texts : text \in Seq(Chars)
BY SpoolerAssumption, Zenon

LEMMA SpoolPrintStep ==
  ASSUME PrintInv, NEW text \in Texts, SpoolPrint(text)
  PROVE  PrintInv'
<1> DEFINE next == (print_tail + 1) % SLOTS
<1>1. next \in Slots
  BY AfterIs, Zenon DEF PrintInv
<1>2. print_head' = print_head /\ print_offset' = print_offset
  BY Zenon DEF SpoolPrint
<1>3. CASE UNCHANGED <<print_queue, print_tail, print_queue_full>>
  BY <1>2, <1>3, Zenon DEF PrintInv
<1>4. CASE /\ print_queue' = [print_queue EXCEPT ![print_tail] = Written(@, text)]
           /\ print_tail' = next
           /\ print_queue_full' = (print_queue_full \/ next = print_head)
  <2> HIDE DEF next
  <2>1. Written(print_queue[print_tail], text) \in SlotType
    BY TextsTyped, WrittenReads, Zenon DEF PrintInv
  <2>2. print_queue' \in [Slots -> SlotType]
    BY <1>4, <2>1, Zenon DEF PrintInv
  <2>3. print_queue_full' \in BOOLEAN /\ (print_tail' = print_head => print_queue_full')
    BY <1>4, Zenon
  <2> QED
    BY <1>1, <1>2, <1>4, <2>2, <2>3, Zenon DEF PrintInv
<1> QED
  BY <1>3, <1>4, Zenon DEF SpoolPrint

LEMMA PrintCharStep ==
  ASSUME PrintInv, PrintChar, UNCHANGED print_tail
  PROVE  PrintInv'
<1> DEFINE slot == print_queue[print_head]
<1>1. slot \in SlotType /\ print_offset \in 0 .. SIZE - 1
  BY Zenon DEF PrintInv
<1>2. CASE ~PrintDue
  BY <1>2, Zenon DEF PrintChar, PrintInv
<1>3. CASE PrintDue /\ slot[print_offset] # 0
  <2>1. /\ print_offset' = print_offset + 1
        /\ UNCHANGED <<print_queue, print_head, print_queue_full>>
    BY <1>3, Zenon DEF PrintChar
  <2>2. print_offset + 1 \in 0 .. SIZE - 1
    BY <1>1, <1>3, TextFromNext, Zenon
  <2>3. print_head = print_tail => print_queue_full
    BY <1>3, Zenon DEF PrintDue, PrintInv
  <2> QED
    BY <2>1, <2>2, <2>3, Zenon DEF PrintInv
<1>4. CASE PrintDue /\ slot[print_offset] = 0
  <2>1. NextText
    BY <1>4, Zenon DEF PrintChar
  <2>2. /\ print_queue' = [print_queue EXCEPT ![print_head] = [slot EXCEPT ![0] = 0]]
        /\ print_head' = (print_head + 1) % SLOTS /\ print_offset' = 0 /\ print_queue_full' = FALSE
    BY <2>1, Zenon DEF NextText
  <2>3. [slot EXCEPT ![0] = 0] \in SlotType
    BY <1>1, SlotsFacts DEF SlotType
  <2>4. print_queue' \in [Slots -> SlotType]
    BY <2>2, <2>3, Zenon DEF PrintInv
  <2>5. print_head' \in Slots
    BY <2>2, AfterIs, Zenon DEF PrintInv
  <2>6. 0 \in 0 .. SIZE - 1
    BY SlotsFacts
  <2> QED
    BY <2>2, <2>4, <2>5, <2>6, Zenon DEF PrintInv
<1> QED
  BY <1>2, <1>3, <1>4, Zenon

LEMMA PrintStep == PrintInv /\ [Next]_vars => PrintInv'
<1> SUFFICES ASSUME PrintInv, [Next]_vars PROVE PrintInv'
  OBVIOUS
<1>1. ASSUME UNCHANGED print PROVE PrintInv'
  BY <1>1, Zenon DEF PrintInv, print
<1>2. ASSUME NEW text \in Texts, SpoolPrint(text) PROVE PrintInv'
  BY <1>2, SpoolPrintStep, Zenon
<1>3. ASSUME NEW tone \in Tones, SpoolAudioTone(tone) PROVE PrintInv'
  BY <1>1, <1>3, Zenon DEF SpoolAudioTone
<1>4. ASSUME AudioSpoolerService PROVE PrintInv'
  BY <1>4, PrintCharStep, Zenon DEF AudioSpoolerService
<1>5. CASE UNCHANGED vars
  BY <1>1, <1>5, Zenon DEF vars
<1> QED
  BY <1>2, <1>3, <1>4, <1>5 DEF Next

\* spool_print, in a ring that is not full, adds the text at the end.
LEMMA TextWritten ==
  ASSUME PrintInv, PrintInv', ~print_queue_full, NEW text \in Texts, SpoolPrint(text)
  PROVE  PrintSound' /\ P!Write(Truncate(text))
<1> DEFINE used == PrintUsed
           next == Slot(print_tail, 1)
           kept == Truncate(text)
<1>1. /\ used \in 0 .. SLOTS /\ Unprinted = FlattenSeq(Pending)
      /\ Pending \in Seq(Seq(Chars)) /\ Len(Pending) = used
      /\ \A k \in 1 .. used : Pending[k] = Left(k)
  BY PrintIs, Zenon DEF PendingRead
<1>2. print_head \in Slots /\ print_tail \in Slots /\ SLOTS \in Nat /\ SLOTS > 1
  BY SlotsFacts, Zenon DEF PrintInv
<1>3. (print_tail + 1) % SLOTS = next
  BY <1>2, AfterIs, Zenon
<1>4. /\ print_queue' = [print_queue EXCEPT ![print_tail] = Written(@, text)]
      /\ print_tail' = next /\ print_head' = print_head /\ print_offset' = print_offset
      /\ serial' = NONE
  BY <1>3, Zenon DEF SpoolPrint
<1>5. print_queue_full' <=> next = print_head
  BY <1>3, Zenon DEF SpoolPrint
<1>6. used = (print_tail - print_head) % SLOTS
  BY Zenon DEF PrintUsed
<1>7. /\ used \in 0 .. SLOTS - 1 /\ Slot(print_head, used) = print_tail
      /\ (IF next = print_head THEN SLOTS ELSE (next - print_head) % SLOTS) = used + 1
      /\ \A k \in 0 .. SLOTS - 1 : k # used => Slot(print_head, k) # print_tail
  <2>1. next = Slot(print_tail, 1)
    BY Zenon
  <2> HIDE DEF used, next
  <2> QED
    BY <1>2, <1>6, <2>1, AddedOne
<1>8. PrintUsed' = used + 1
  <2>1. PrintUsed' = IF next = print_head THEN SLOTS ELSE (next - print_head) % SLOTS
    BY <1>4, <1>5, Zenon DEF PrintUsed
  <2> QED
    BY <1>7, <2>1, Zenon
<1>9. PrintSound'
  BY <1>4, <1>5, Zenon DEF PrintSound
<1>10. /\ Unprinted' = FlattenSeq(Pending') /\ Pending' \in Seq(Seq(Chars))
       /\ Len(Pending') = used + 1 /\ \A k \in 1 .. used + 1 : Pending'[k] = Left(k)'
  <2>1. PendingRead'
    BY PrintIs, PTL
  <2> QED
    BY <1>8, <2>1, Zenon DEF PendingRead
<1>11. kept \in Seq(Chars) /\ TextFrom(Written(print_queue[print_tail], text), 0) = kept
  <2>1. text \in Seq(Chars) /\ print_queue[print_tail] \in SlotType
    BY <1>2, TextsTyped, Zenon DEF PrintInv
  <2> QED
    BY <2>1, TruncateTyped, WrittenReads, Zenon
<1> HIDE DEF used, next, kept
<1>12. used \in Nat /\ used <= SLOTS - 1
  BY <1>2, <1>7
<1>13. ASSUME NEW k \in 1 .. used + 1
       PROVE  /\ Slot(print_head, k - 1) \in Slots
              /\ Left(k)' = TextFrom(print_queue'[Slot(print_head, k - 1)], IF k = 1 THEN print_offset ELSE 0)
  <2>1. k - 1 \in 0 .. SLOTS - 1
    BY <1>2, <1>12
  <2>2. Slot(print_head, k - 1) \in Slots
    BY <1>2, <2>1, SlotIs, Zenon
  <2> QED
    BY <1>4, <2>2, Zenon DEF Left, Slot
<1>14. ASSUME NEW k \in 1 .. used PROVE Left(k)' = Left(k)
  <2>1. k \in 1 .. used + 1 /\ k - 1 \in 0 .. SLOTS - 1 /\ k - 1 # used
    BY <1>2, <1>12
  <2>2. Slot(print_head, k - 1) \in Slots /\ Slot(print_head, k - 1) # print_tail
    BY <1>7, <1>13, <2>1
  <2>3. print_queue'[Slot(print_head, k - 1)] = print_queue[Slot(print_head, k - 1)]
    BY <1>4, <2>2, Zenon DEF PrintInv
  <2> QED
    BY <1>13, <2>1, <2>3, Zenon DEF Left
<1>15. ASSUME NEW k \in 1 .. used + 1, k = used + 1 PROVE Left(k)' = kept
  <2>1. k - 1 = used
    BY <1>12, <1>15
  <2>2. print_queue'[print_tail] = Written(print_queue[print_tail], text)
    BY <1>2, <1>4, Zenon DEF PrintInv
  <2>3. k = 1 => print_offset = 0
    <3>1. k = 1 => used = 0
      BY <2>1
    <3>2. used = 0 => print_head = print_tail
      <4>1. print_head \in Nat /\ print_head < SLOTS
        BY <1>2 DEF Slots
      <4>2. Slot(print_head, 0) = print_head
        BY <1>2, <4>1 DEF Slot
      <4> QED
        BY <1>7, <4>2, Zenon
    <3> QED
      BY <3>1, <3>2, Zenon DEF PrintInv
  <2>4. (IF k = 1 THEN print_offset ELSE 0) = 0
    BY <2>3, Zenon
  <2> QED
    BY <1>7, <1>11, <1>13, <2>1, <2>2, <2>4
<1>16. Pending' = Append(Pending, kept)
  <2>1. /\ Append(Pending, kept) \in Seq(Seq(Chars)) /\ Len(Append(Pending, kept)) = used + 1
        /\ \A k \in 1 .. used : Append(Pending, kept)[k] = Pending[k]
        /\ Append(Pending, kept)[used + 1] = kept
    BY <1>1, <1>11, AppendProperties DEF used
  <2>2. ASSUME NEW k \in 1 .. used + 1 PROVE Pending'[k] = Append(Pending, kept)[k]
    <3>1. k \in 1 .. used \/ k = used + 1
      BY <1>12
    <3>2. CASE k \in 1 .. used
      <4>1. Append(Pending, kept)[k] = Left(k)
        BY <1>1, <2>1, <3>2, Zenon DEF used
      <4> QED
        BY <1>10, <1>14, <3>2, <4>1, Zenon
    <3>3. CASE k = used + 1
      BY <1>10, <1>15, <2>1, <3>3, Zenon
    <3> QED
      BY <3>1, <3>2, <3>3, Zenon
  <2> QED
    BY <1>10, <2>1, <2>2, SeqEqual
<1>17. Unprinted' = Unprinted \o kept
  <2>1. FlattenSeq(Append(Pending, kept)) = FlattenSeq(Pending) \o kept
    BY <1>1, <1>11, FlattenAppend, Zenon
  <2> QED
    BY <1>1, <1>10, <1>16, <2>1, Zenon
<1> QED
  BY <1>4, <1>9, <1>17, Zenon DEF P!Write, kept

\* A ring has something to print if and only if it has an entry.
LEMMA DueIs ==
  ASSUME PrintInv, PrintSound
  PROVE  PrintDue <=> PrintUsed # 0
<1>1. /\ print_head \in Nat /\ print_tail \in Nat /\ print_head < SLOTS /\ print_tail < SLOTS
      /\ SLOTS \in Nat /\ SLOTS > 1
  BY SlotsFacts DEF PrintInv, Slots
<1>2. (print_tail - print_head) % SLOTS =
        IF print_tail >= print_head THEN print_tail - print_head ELSE print_tail - print_head + SLOTS
  BY DistanceIs, Zenon DEF PrintInv
<1>3. (print_tail - print_head) % SLOTS = 0 <=> print_head = print_tail
  BY <1>1, <1>2
<1>4. CASE print_queue_full
  BY <1>1, <1>4 DEF PrintDue, PrintUsed
<1>5. CASE ~print_queue_full
  <2>1. PrintUsed = 0 <=> print_head = print_tail
    BY <1>3, <1>5, Zenon DEF PrintUsed
  <2>2. PrintDue <=> print_head # print_tail
    BY <1>5, Zenon DEF PrintDue, PrintInv
  <2> QED
    BY <2>1, <2>2, Zenon
<1> QED
  BY <1>4, <1>5, Zenon

\* The service prints the first character that is left, or moves on from a text
\* that has none.
LEMMA CharPrinted ==
  ASSUME PrintInv, PrintInv', PrintSound, PrintChar, UNCHANGED print_tail
  PROVE  PrintSound' /\ P!Next
<1> DEFINE used == PrintUsed
           slot == print_queue[print_head]
<1>1. /\ used \in 0 .. SLOTS /\ Unprinted = FlattenSeq(Pending)
      /\ Pending \in Seq(Seq(Chars)) /\ Len(Pending) = used
      /\ \A k \in 1 .. used : Pending[k] = Left(k)
  BY PrintIs, Zenon DEF PendingRead
<1>2. /\ print_head \in Slots /\ print_tail \in Slots /\ SLOTS \in Nat /\ SLOTS > 1
      /\ slot \in SlotType /\ print_offset \in 0 .. SIZE - 1 /\ print_queue \in [Slots -> SlotType]
  BY SlotsFacts, Zenon DEF PrintInv
<1>3. /\ Unprinted' = FlattenSeq(Pending') /\ Pending' \in Seq(Seq(Chars))
      /\ Len(Pending') = PrintUsed' /\ \A k \in 1 .. PrintUsed' : Pending'[k] = Left(k)'
  <2>1. PendingRead'
    BY PrintIs, PTL
  <2> QED
    BY <2>1, Zenon DEF PendingRead
<1>4. CASE ~PrintDue
  <2>1. /\ serial' = NONE
        /\ UNCHANGED <<print_queue, print_head, print_tail, print_offset, print_queue_full>>
    BY <1>4, Zenon DEF PrintChar
  <2>2. PrintSound' /\ Unprinted' = Unprinted
    BY <2>1 DEF PrintSound, Unprinted, InUse, TextFrom
  <2> QED
    BY <2>1, <2>2, Zenon DEF P!Next, P!Wait
<1>5. PrintDue => used # 0
  BY DueIs, Zenon
<1> DEFINE first == Pending[1]
<1>6. ASSUME PrintDue
      PROVE  used \in Nat /\ used # 0 /\ used <= SLOTS /\ first = TextFrom(slot, print_offset)
  <2>1. used \in Nat /\ used # 0 /\ used <= SLOTS /\ 1 \in 1 .. used
    <3> HIDE DEF used
    <3> QED
      BY <1>1, <1>2, <1>5, <1>6
  <2>2. Slot(print_head, 1 - 1) = print_head
    BY <1>2 DEF Slot, Slots
  <2>3. Left(1) = TextFrom(slot, print_offset)
    BY <2>2, Zenon DEF Left
  <2> QED
    BY <1>1, <2>1, <2>3, Zenon
<1>7. CASE PrintDue /\ slot[print_offset] # 0
  <2>1. /\ serial' = slot[print_offset] /\ print_offset' = print_offset + 1
        /\ UNCHANGED <<print_queue, print_head, print_tail, print_queue_full>>
    BY <1>7, Zenon DEF PrintChar
  <2>2. PrintUsed' = used /\ PrintSound'
    BY <2>1, Zenon DEF PrintUsed, PrintSound
  <2>3. /\ first # << >> /\ Head(first) = slot[print_offset]
        /\ TextFrom(slot, print_offset + 1) = Tail(first)
    BY <1>2, <1>6, <1>7, TextFromNext
  <2>4. used \in Nat /\ used # 0
    BY <1>6, <1>7, Zenon
  <2> HIDE DEF used
  <2>5. 1 \in 1 .. used
    BY <2>4
  <2>6. Pending'[1] = Tail(first)
    <3>1. ASSUME NEW k \in 1 .. used, k = 1 PROVE Left(k)' = TextFrom(slot, print_offset + 1)
      <4>1. Slot(print_head, k - 1) = print_head
        BY <1>2, <3>1 DEF Slot, Slots
      <4> QED
        BY <2>1, <3>1, <4>1, Zenon DEF Left, Slot
    <3> QED
      BY <1>3, <2>2, <2>3, <2>5, <3>1, Zenon
  <2>7. ASSUME NEW k \in 2 .. used PROVE Pending'[k] = Pending[k]
    <3>1. k \in 1 .. used /\ k # 1
      BY <2>4
    <3>2. Left(k)' = Left(k)
      BY <2>1, <3>1, Zenon DEF Left, Slot
    <3>3. Pending'[k] = Left(k)'
      BY <1>3, <2>2, <3>1, Zenon
    <3>4. Pending[k] = Left(k)
      BY <1>1, <3>1, Zenon DEF used
    <3> QED
      BY <3>2, <3>3, <3>4, Zenon
  <2>8. Len(Pending) = used /\ Len(Pending') = used
    BY <1>1, <1>3, <2>2, Zenon DEF used
  <2>9. /\ FlattenSeq(Pending) # << >> /\ Head(FlattenSeq(Pending)) = Head(first)
        /\ FlattenSeq(Pending') = Tail(FlattenSeq(Pending))
    <3>1. Pending \in Seq(Seq(Chars)) /\ Len(Pending) # 0 /\ Pending[1] # << >>
      BY <1>1, <2>3, <2>4, <2>8, Zenon
    <3>2. /\ Pending' \in Seq(Seq(Chars)) /\ Len(Pending') = Len(Pending)
          /\ Pending'[1] = Tail(Pending[1])
      BY <1>3, <2>6, <2>8, Zenon
    <3>3. \A k \in 2 .. Len(Pending) : Pending'[k] = Pending[k]
      BY <2>7, <2>8, Zenon
    <3> QED
      BY <3>1, <3>2, <3>3, FlattenTail
  <2>10. P!Emit
    BY <1>1, <1>3, <2>1, <2>3, <2>9, Zenon DEF P!Emit
  <2> QED
    BY <2>2, <2>10, Zenon DEF P!Next
<1>8. CASE PrintDue /\ slot[print_offset] = 0
  <2> DEFINE next == Slot(print_head, 1)
  <2>1. serial' = NONE /\ NextText
    BY <1>8, Zenon DEF PrintChar
  <2>2. /\ print_queue' = [print_queue EXCEPT ![print_head] = [slot EXCEPT ![0] = 0]]
        /\ print_head' = next /\ print_tail' = print_tail
        /\ print_offset' = 0 /\ print_queue_full' = FALSE
    BY <1>2, <2>1, AfterIs, Zenon DEF NextText
  <2>3. PrintSound'
    BY <2>2, Zenon DEF PrintSound
  <2>4. used = (print_tail - print_head) % SLOTS \/ (used = SLOTS /\ print_head = print_tail)
    BY Zenon DEF PrintUsed, PrintSound
  <2>5. /\ used \in 1 .. SLOTS /\ (print_tail - next) % SLOTS = used - 1
        /\ \A k \in 0 .. SLOTS - 2 :
             Slot(next, k) = Slot(print_head, k + 1) /\ Slot(print_head, k + 1) # print_head
    <3>1. next = Slot(print_head, 1) /\ used # 0
      BY <1>6, <1>8, Zenon
    <3> HIDE DEF used, next
    <3> QED
      BY <1>2, <2>4, <3>1, TakenOne
  <2>6. PrintUsed' = used - 1
    BY <2>2, <2>5, Zenon DEF PrintUsed
  <2>7. first = << >>
    BY <1>2, <1>6, <1>8, TextFromEnd, Zenon
  <2> HIDE DEF used, next
  <2>8. used \in Nat /\ used # 0 /\ used <= SLOTS
    BY <1>2, <2>5
  <2>9. ASSUME NEW k \in 1 .. used - 1, NEW l \in 1 .. used, l = k + 1 PROVE Left(k)' = Left(l)
    <3>1. k - 1 \in 0 .. SLOTS - 2 /\ (k - 1) + 1 = l - 1 /\ l - 1 \in 0 .. SLOTS - 1 /\ l # 1
      BY <1>2, <2>8, <2>9
    <3>2. Slot(next, k - 1) = Slot(print_head, l - 1) /\ Slot(print_head, l - 1) # print_head
      BY <2>5, <3>1, Zenon
    <3>3. Slot(print_head, l - 1) \in Slots
      BY <1>2, <3>1, SlotIs, Zenon
    <3>4. print_queue'[Slot(print_head, l - 1)] = print_queue[Slot(print_head, l - 1)]
      BY <1>2, <2>2, <3>2, <3>3, Zenon
    <3>5. Left(k)' = TextFrom(print_queue'[Slot(next, k - 1)], 0)
      <4>1. Left(k)' = TextFrom(print_queue'[Slot(next, k - 1)], IF k = 1 THEN print_offset' ELSE 0)
        BY <2>2, Zenon DEF Left, Slot
      <4> QED
        BY <2>2, <4>1, Zenon
    <3>6. Left(l) = TextFrom(print_queue[Slot(print_head, l - 1)], 0)
      BY <3>1, Zenon DEF Left
    <3> QED
      BY <3>2, <3>4, <3>5, <3>6
  <2>10. Pending' = Tail(Pending)
    <3>1. Len(Pending) = used /\ Pending # << >>
      BY <1>1, <2>8, EmptySeq, Zenon DEF used
    <3>2. /\ Tail(Pending) \in Seq(Seq(Chars)) /\ Len(Tail(Pending)) = used - 1
          /\ \A k \in 1 .. used - 1 : Tail(Pending)[k] = Pending[k + 1]
      BY <1>1, <3>1, HeadTailProperties, Zenon
    <3>3. ASSUME NEW k \in 1 .. used - 1 PROVE Pending'[k] = Tail(Pending)[k]
      <4>1. k + 1 \in 1 .. used
        BY <2>8
      <4>2. PICK l \in 1 .. used : l = k + 1
        BY <4>1, Zenon
      <4>3. Pending[l] = Left(l)
        BY <1>1, <4>2, Zenon DEF used
      <4>4. Pending'[k] = Left(k)'
        BY <1>3, <2>6, <3>3
      <4>5. Left(k)' = Left(l)
        BY <2>9, <4>2, Zenon
      <4> QED
        BY <3>2, <4>2, <4>3, <4>4, <4>5
    <3> QED
      BY <1>3, <2>6, <3>2, <3>3, SeqEqual
  <2>11. FlattenSeq(Tail(Pending)) = FlattenSeq(Pending)
    <3>1. Len(Pending) # 0
      BY <1>1, <2>8, Zenon DEF used
    <3> QED
      BY <1>1, <2>7, <3>1, FlattenSkip, Zenon
  <2>12. P!Wait
    BY <1>1, <1>3, <2>1, <2>10, <2>11 DEF P!Wait
  <2> QED
    BY <2>3, <2>12, Zenon DEF P!Next
<1> QED
  BY <1>4, <1>7, <1>8, Zenon

\* For every number and size of slots and all texts, in any interleaving of
\* callers with the service: texts, cut to their slots, come out whole and in
\* order, until somebody adds to the ring when it is full.
THEOREM PrintsCorrect == Spec => PrintsInOrder
<1> DEFINE Calls == {t \in Texts : SpoolPrint(t)}
           Good == \/ Calls # {} /\ print_queue_full
                   \/ /\ PrintSound'
                      /\ P!Next \/ UNCHANGED <<Unprinted, serial>>
                      /\ \A t \in Calls : P!Write(Truncate(t))
<1>1. PrintInv /\ PrintInv' /\ [Next]_vars => [PrintSound => Good]_vars
  <2> SUFFICES ASSUME PrintInv, PrintInv', Next, PrintSound PROVE Good
    BY Zenon
  <2>1. CASE \E t \in Texts : SpoolPrint(t)
    <3>1. CASE print_queue_full
      BY <2>1, <3>1, Zenon
    <3>2. CASE ~print_queue_full
      <4>1. \A t \in Texts : SpoolPrint(t) => PrintSound' /\ P!Write(Truncate(t))
        BY <3>2, TextWritten, Zenon
      <4>2. PrintSound' /\ P!Next
        BY <2>1, <4>1, Zenon DEF P!Next
      <4> QED
        BY <4>1, <4>2, Zenon
    <3> QED
      BY <3>1, <3>2, Zenon
  <2>2. CASE ~ \E t \in Texts : SpoolPrint(t)
    <3>1. Calls = {}
      BY <2>2
    <3>2. ASSUME NEW tone \in Tones, SpoolAudioTone(tone)
          PROVE  PrintSound' /\ UNCHANGED <<Unprinted, serial>>
      <4>1. UNCHANGED <<print_queue, print_head, print_tail, print_offset, print_queue_full, serial>>
        BY <3>2, Zenon DEF SpoolAudioTone, print
      <4> QED
        BY <4>1 DEF PrintSound, Unprinted, InUse, TextFrom
    <3>3. ASSUME AudioSpoolerService PROVE PrintSound' /\ P!Next
      BY <3>3, CharPrinted, Zenon DEF AudioSpoolerService
    <3> QED
      BY <2>2, <3>1, <3>2, <3>3, Zenon DEF Next
  <2> QED
    BY <2>1, <2>2, Zenon
<1>2. Spec => []PrintInv
  BY InitPrintInv, PrintStep, PTL DEF Spec
<1> QED
  BY <1>1, <1>2, PTL DEF Spec, PrintsInOrder

===============================================================================
