-------------------------- MODULE FileOutputProofs --------------------------
(***************************************************************************)
(* FileOutput, for any options, clients, sizes and number of pictures and  *)
(* restarts: the ring buffer keeps its bound and the most recent pictures. *)
(***************************************************************************)
EXTENDS FileOutput, FiniteSetTheorems, WellFoundedInduction, TLAPS

(* Where the threads can be; who owns db.                                  *)
WorkerPlaces == {"loop", "wait", "lock", "fit", "copy", "save", "tidy", "dead"}
TakerPlaces  == {"idle", "lock", "fit", "copy", "save"}

PlaceInv ==
  /\ pc \in [Threads -> WorkerPlaces \cup TakerPlaces]
  /\ pc[Worker] \in WorkerPlaces /\ \A t \in Takers : pc[t] \in TakerPlaces
  /\ \A t \in Threads : pc[t] \in {"fit", "copy"} => db = t

(* The worker saves no more pictures than there were.                      *)
CounterInv ==
  /\ latest \in [id : 0..MaxPicture, size : Sizes \cup {0}]
  /\ pc[Worker] \in {"lock", "fit", "copy", "save"} => counter < latest.id
  /\ counter <= latest.id

(* Names are given out in their order, and never twice.                    *)
FolderInv ==
  /\ IsFiniteSet(folder)
  /\ \A f \in folder : f.time <= now /\ (f.time = now => f.number < counter)
  /\ \A f, g \in folder : f.age < g.age <=> Precedes(f, g)
  /\ \A f, g \in folder : f.age = g.age => f = g

(* How many pictures there are since the folder was tidied up.             *)
Spare == IF exceed <= 0 THEN 0 ELSE counter % (exceed + 1)

RingInv ==
  /\ size \in Int /\ exceed \in Int
  /\ size >= 0 /\ counter > 0 /\ ~slip /\ pc[Worker] \notin {"tidy", "dead"} =>
       Cardinality(folder) <= size + Spare

IInv == TypeOK /\ PlaceInv /\ CounterInv /\ FolderInv /\ RingInv
-----------------------------------------------------------------------------
(* A finite set has an element of greatest value. *)
Above(v, F, f) == {g \in F : v[g] > v[f]}

(* Of finitely many numbers one is greatest. *)
LEMMA Greatest ==
  ASSUME NEW F, IsFiniteSet(F), F # {}, NEW v \in [F -> Int]
  PROVE  \E f \in F : \A g \in F : v[g] <= v[f]
<1> DEFINE T == {Above(v, F, f) : f \in F}
<1>1. T \subseteq FiniteSubsetsOf(F)
  <2>1. \A f \in F : Above(v, F, f) \in SUBSET F
    BY DEF Above
  <2>2. FiniteSubsetsOf(F) = SUBSET F
    BY FS_FiniteSubsetsOfFinite
  <2>3. QED  BY <2>1, <2>2
<1>2. T # {}
  <2>1. PICK f \in F : TRUE
    OBVIOUS
  <2>2. Above(v, F, f) \in T
    BY <2>1
  <2>3. QED  BY <2>2
<1>3. PICK A \in T : \A B \in T : <<B, A>> \notin StrictSubsetOrdering(F)
  <2> HIDE DEF T
  <2>1. QED  BY <1>1, <1>2, FS_StrictSubsetOrderingWellFounded, WFMin
<1>4. PICK f \in F : A = Above(v, F, f)
  BY <1>3
<1>5. ASSUME NEW g \in F, v[g] > v[f] PROVE FALSE
  <2>1. Above(v, F, g) \in T
    OBVIOUS
  <2>2. v[f] \in Int /\ v[g] \in Int /\ \A h \in F : v[h] \in Int
    OBVIOUS
  <2>3. Above(v, F, g) \subseteq A /\ A \subseteq F
    BY <1>4, <1>5, <2>2 DEF Above
  <2>4. g \in A /\ g \notin Above(v, F, g)
    BY <1>4, <1>5, <2>2 DEF Above
  <2>5. <<Above(v, F, g), A>> \in StrictSubsetOrdering(F)
    BY <2>3, <2>4 DEF StrictSubsetOrdering
  <2>6. QED  BY <1>3, <2>1, <2>5
<1>6. QED  BY <1>5

(* The largest picture is one of the sizes. *)
LEMMA MaxSize == Max(Sizes) \in Nat /\ \A n \in Sizes : n <= Max(Sizes)
<1> DEFINE v == [n \in Sizes |-> n]
<1>1. v \in [Sizes -> Int]
  BY FileOutputAssumption
<1>2. \E m \in Sizes : \A n \in Sizes : v[n] <= v[m]
  <2> HIDE DEF v
  <2>1. QED  BY <1>1, FileOutputAssumption, Greatest
<1>3. \E m \in Sizes : \A n \in Sizes : m >= n
  BY <1>2, FileOutputAssumption
<1>4. Max(Sizes) \in Sizes /\ \A n \in Sizes : Max(Sizes) >= n
  BY <1>3 DEF Max
<1>5. QED  BY <1>4, FileOutputAssumption

(* The input's picture is no larger than the largest. *)
LEMMA LatestFits ==
  ASSUME CounterInv
  PROVE  latest.size \in 0..Max(Sizes)
<1>1. latest.size \in Sizes \cup {0}
  BY DEF CounterInv
<1>2. Max(Sizes) \in Nat
  BY MaxSize
<1>3. CASE latest.size \in Sizes
  <2>1. latest.size \in Nat
    BY <1>3, FileOutputAssumption
  <2>2. latest.size <= Max(Sizes)
    BY <1>3, MaxSize
  <2>3. QED  BY <1>2, <2>1, <2>2
<1>4. CASE latest.size = 0
  BY <1>2, <1>4
<1>5. QED  BY <1>1, <1>3, <1>4

(* The excess that a folder may have is not negative. *)
LEMMA MaxOfTwo ==
  ASSUME NEW e \in Int
  PROVE  Max({e, 0}) \in Int /\ Max({e, 0}) >= e /\ Max({e, 0}) >= 0
<1>1. \E x \in {e, 0} : \A y \in {e, 0} : x >= y
  <2>1. CASE e >= 0
    BY <2>1
  <2>2. CASE e < 0
    BY <2>2
  <2>3. QED  BY <2>1, <2>2
<1>2. Max({e, 0}) \in {e, 0} /\ \A y \in {e, 0} : Max({e, 0}) >= y
  BY <1>1 DEF Max
<1>3. QED  BY <1>2

(* Counting from one deletion to the next. *)
LEMMA CountOn ==
  ASSUME NEW n \in Nat, NEW m \in Nat \ {0}
  PROVE  /\ n % m \in 0..(m - 1)
         /\ (n + 1) % m = 0 \/ (n + 1) % m = (n % m) + 1
<1> DEFINE q == n \div m
           k == ((n + 1) \div m) - q
           r == n % m
           s == (n + 1) % m
<1>1. q \in Int /\ r \in 0..(m - 1) /\ n = (m * q) + r
  OBVIOUS
<1>2. k \in Int /\ s \in 0..(m - 1) /\ n + 1 = (m * (q + k)) + s
  OBVIOUS
<1> HIDE DEF q, k, r, s
<1>3. m * (q + k) = (m * q) + (m * k)
  BY <1>1, <1>2
<1>4. m * k = r + 1 - s
  BY <1>1, <1>2, <1>3
<1>5. CASE k <= -1
  <2>1. m * k <= -m
    BY <1>2, <1>5
  <2>2. QED  BY <1>1, <1>2, <1>4, <2>1
<1>6. CASE k = 0
  BY <1>1, <1>2, <1>4, <1>6 DEF r, s
<1>7. CASE k >= 1
  <2>1. m * k >= m
    BY <1>2, <1>7
  <2>2. s = 0
    BY <1>1, <1>2, <1>4, <2>1
  <2>3. QED  BY <1>1, <2>2 DEF r, s
<1>8. QED  BY <1>2, <1>5, <1>6, <1>7
-----------------------------------------------------------------------------
(* Each step keeps the types of the variables, *)
LEMMA TypeStep ==
  ASSUME TypeOK, PlaceInv, CounterInv, FolderInv, RingInv, Next
  PROVE  TypeOK'
<1> USE FileOutputAssumption, MaxSize
    DEF PlaceInv, CounterInv, options, buffer, disk, At
<1>1. CASE Restart
  BY <1>1 DEF TypeOK, Restart, None, Empty, Cells
<1>2. CASE Tick
  BY <1>2 DEF TypeOK, Tick
<1>3. CASE Publish
  BY <1>3 DEF TypeOK, Publish
<1>4. CASE Wait
  BY <1>4 DEF TypeOK, Wait
<1>5. CASE Append
  BY <1>5 DEF TypeOK, Append
<1>6. CASE Save
  <2>1. /\ counter < MaxPicture /\ counter \in Nat /\ now \in 1..MaxTime /\ born \in Nat
        /\ folder \subseteq [time : 0..MaxTime, number : 0..(MaxOld + MaxPicture), age : 1..born]
    BY <1>6 DEF TypeOK, Save
  <2>2. counter' \in 0..MaxPicture /\ born' \in {born, born + 1}
    BY <1>6, <2>1 DEF Save
  <2>3. folder' \subseteq folder \cup {[time |-> now, number |-> counter, age |-> born']}
    BY <1>6 DEF Save
  <2>4. born' = born + 1 \/ folder' = folder
    BY <1>6 DEF Save
  <2>5. folder' \subseteq [time : 0..MaxTime, number : 0..(MaxOld + MaxPicture), age : 1..born']
    BY <2>1, <2>2, <2>3, <2>4
  <2>6. db' = db /\ (db = Worker => pc'[Worker] = "dead") /\ \A t \in Takers : pc'[t] = pc[t]
    BY <1>6 DEF TypeOK, Save, Threads
  <2>7. QED  BY <1>6, <2>2, <2>5, <2>6 DEF TypeOK, Save, Threads
<1>7. CASE Tidy
  BY <1>7 DEF TypeOK, Tidy
<1>8. CASE Stop
  BY <1>8 DEF TypeOK, Stop, Threads
<1>9. ASSUME NEW t \in Takers, Command(t) \/ TakerSaves(t) PROVE TypeOK'
  BY <1>9 DEF TypeOK, Command, TakerSaves, Threads
<1>10. ASSUME NEW t \in Threads, Lock(t) PROVE TypeOK'
  BY <1>10 DEF TypeOK, Lock
<1>11. ASSUME NEW t \in Threads, Fit(t) PROVE TypeOK'
  <2>1. max_frame_size' \in 0..(Max(Sizes) + Slack) /\ room' \in 0..(Max(Sizes) + Slack)
    <3>1. latest.size \in 0..Max(Sizes)
      BY LatestFits
    <3>2. max_frame_size' \in {max_frame_size, latest.size + Slack} /\ room' \in {room, max_frame_size'}
      BY <1>11 DEF Fit
    <3>3. room \in 0..(Max(Sizes) + Slack) /\ max_frame_size \in 0..(Max(Sizes) + Slack)
      BY DEF TypeOK
    <3>4. QED  BY <3>1, <3>2, <3>3
  <2>2. db' \in {db, Nobody} /\ (db' = db => db' = Nobody \/ pc'[db] \in {"fit", "copy", "dead"})
    BY <1>11 DEF TypeOK, Fit, Threads
  <2>3. QED  BY <1>11, <2>1, <2>2 DEF TypeOK, Fit
<1>12. ASSUME NEW t \in Threads, Copy(t) PROVE TypeOK'
  BY <1>12 DEF TypeOK, Copy, Cells
<1>13. QED
  BY <1>1, <1>2, <1>3, <1>4, <1>5, <1>6, <1>7, <1>8, <1>9, <1>10, <1>11, <1>12 DEF Next

(* ... the places of the threads and the count of pictures.                *)
LEMMA PlaceStep ==
  ASSUME TypeOK, PlaceInv, CounterInv, Next
  PROVE  PlaceInv' /\ CounterInv'
<1> USE FileOutputAssumption
    DEF PlaceInv, CounterInv, TypeOK, WorkerPlaces, TakerPlaces, Threads, options, buffer, disk, At
<1>1. CASE Restart
  BY <1>1 DEF Restart, AtRest, Rest, None
<1>2. CASE Tick
  BY <1>2 DEF Tick
<1>3. CASE Publish
  BY <1>3 DEF Publish
<1>4. CASE Wait
  BY <1>4 DEF Wait
<1>5. CASE Append
  BY <1>5 DEF Append
<1>6. CASE Save
  BY <1>6 DEF Save
<1>7. CASE Tidy
  BY <1>7 DEF Tidy
<1>8. CASE Stop
  BY <1>8 DEF Stop
<1>9. ASSUME NEW t \in Takers, Command(t) \/ TakerSaves(t) PROVE PlaceInv' /\ CounterInv'
  BY <1>9 DEF Command, TakerSaves
<1>10. ASSUME NEW t \in Threads, Lock(t) PROVE PlaceInv' /\ CounterInv'
  BY <1>10 DEF Lock
<1>11. ASSUME NEW t \in Threads, Fit(t) PROVE PlaceInv' /\ CounterInv'
  BY <1>11 DEF Fit
<1>12. ASSUME NEW t \in Threads, Copy(t) PROVE PlaceInv' /\ CounterInv'
  BY <1>12 DEF Copy
<1>13. QED
  BY <1>1, <1>2, <1>3, <1>4, <1>5, <1>6, <1>7, <1>8, <1>9, <1>10, <1>11, <1>12 DEF Next
-----------------------------------------------------------------------------
(* The names in the folder: the next one is later than all of them. *)
LEMMA FolderStep ==
  ASSUME TypeOK, PlaceInv, CounterInv, FolderInv, Next
  PROVE  FolderInv'
<1>1. counter \in Nat /\ now \in Nat /\ born \in Nat
  BY FileOutputAssumption DEF TypeOK
<1>2. folder \subseteq [time : Nat, number : Nat, age : 1..born]
  BY FileOutputAssumption DEF TypeOK
<1>3. CASE Save
  <2>1. CASE folder' = folder
    BY <1>1, <1>2, <1>3, <2>1 DEF FolderInv, Save, Precedes
  <2>2. CASE folder' # folder
    <3> DEFINE new == [time |-> now, number |-> counter, age |-> born + 1]
    <3>1. folder' = folder \cup {new}
      <4>1. \A f \in folder : <<f.time, f.number>> # <<now, counter>>
        BY <1>1, <1>2 DEF FolderInv
      <4>2. QED  BY <1>3, <2>2, <4>1 DEF Save
    <3>2. IsFiniteSet(folder')
      BY <3>1, FS_AddElement DEF FolderInv
    <3>3. \A f \in folder : Precedes(f, new) /\ ~Precedes(new, f) /\ f.age < new.age
      BY <1>1, <1>2 DEF FolderInv, Precedes
    <3>4. ~Precedes(new, new)
      BY <1>1 DEF Precedes
    <3>5. now' = now /\ counter' = counter + 1
      BY <1>3 DEF Save
    <3>6. \A f \in folder' : f.time <= now' /\ (f.time = now' => f.number < counter')
      BY <1>1, <1>2, <3>1, <3>5 DEF FolderInv
    <3>7. \A f, g \in folder' : f.age < g.age <=> Precedes(f, g)
      <4>1. SUFFICES ASSUME NEW f \in folder', NEW g \in folder'
                     PROVE  f.age < g.age <=> Precedes(f, g)
        OBVIOUS
      <4> HIDE DEF new
      <4>2. new.age = born + 1 /\ \A h \in folder : h.age \in 1..born
        BY <1>2 DEF new
      <4>3. CASE f \in folder /\ g \in folder
        BY <4>3 DEF FolderInv
      <4>4. CASE f \in folder /\ g = new
        BY <3>3, <4>4
      <4>5. CASE f = new /\ g \in folder
        BY <1>1, <3>3, <4>2, <4>5
      <4>6. CASE f = new /\ g = new
        BY <1>1, <3>4, <4>2, <4>6
      <4>7. QED  BY <3>1, <4>3, <4>4, <4>5, <4>6
    <3>8. \A f, g \in folder' : f.age = g.age => f = g
      BY <1>1, <1>2, <3>1 DEF FolderInv
    <3> HIDE DEF new
    <3>9. QED  BY <3>2, <3>6, <3>7, <3>8 DEF FolderInv
  <2>3. QED  BY <2>1, <2>2
<1>4. CASE Tidy
  <2>1. folder' \subseteq folder /\ now' = now /\ counter' = counter
    BY <1>4 DEF Tidy
  <2>2. IsFiniteSet(folder')
    BY <2>1, FS_Subset DEF FolderInv
  <2>3. QED  BY <2>1, <2>2 DEF FolderInv, Precedes
<1>5. CASE Restart
  BY <1>1, <1>2, <1>5 DEF Restart, FolderInv, Precedes
<1>6. CASE Tick
  <2>1. folder' = folder /\ now' = now + 1
    BY <1>6 DEF Tick, disk
  <2>2. \A f \in folder' : f.time <= now' /\ (f.time = now' => f.number < counter')
    BY <1>1, <1>2, <2>1 DEF FolderInv
  <2>3. QED  BY <2>1, <2>2 DEF FolderInv
<1>7. CASE UNCHANGED disk /\ now' = now
  BY <1>7 DEF disk, FolderInv, Precedes
<1>8. Save \/ Tidy \/ Restart \/ Tick \/ (UNCHANGED disk /\ now' = now)
  BY DEF Next, Publish, Wait, Append, Stop, Command, TakerSaves, Lock, Fit, Copy
<1>9. QED  BY <1>3, <1>4, <1>5, <1>6, <1>7, <1>8

(* Of the files that are followed by fewer than size there are no more     *)
(* than size.                                                              *)
Followers(f) == {g \in folder : Precedes(f, g)}

(* What is not doomed is no more than the ring holds. *)
LEMMA Survivors ==
  ASSUME TypeOK, FolderInv, size \in Nat
  PROVE  Cardinality(folder \ Doomed(size)) <= size
<1> DEFINE S == folder \ Doomed(size)
           v == [f \in S |-> -f.age]
<1>1. IsFiniteSet(S) /\ S \subseteq folder
  BY FS_Subset DEF FolderInv
<1>2. CASE S = {}
  BY <1>2, FS_EmptySet
<1>3. CASE S # {}
  <2>1. v \in [S -> Int]
    BY <1>1 DEF TypeOK
  <2>2. \E f \in S : \A g \in S : v[g] <= v[f]
    <3> HIDE DEF S, v
    <3>1. QED  BY <1>1, <1>3, <2>1, Greatest
  <2>3. PICK f \in S : \A g \in S : v[g] <= v[f]
    BY <2>2
  <2>4. \A g \in S : f.age <= g.age
    BY <1>1, <2>3 DEF TypeOK
  <2>5. S \ {f} \subseteq Followers(f)
    BY <1>1, <2>4 DEF FolderInv, TypeOK, Followers
  <2>6. Cardinality(Followers(f)) < size
    <3>1. IsFiniteSet(Followers(f))
      BY FS_Subset DEF FolderInv, Followers
    <3>2. Cardinality(Followers(f)) \in Nat
      BY <3>1, FS_CardinalityType
    <3>3. ~(Cardinality(Followers(f)) >= size)
      BY <1>1 DEF Doomed, Followers
    <3>4. QED  BY <3>2, <3>3
  <2>7. Cardinality(S \ {f}) <= Cardinality(Followers(f))
    BY <2>5, FS_Subset DEF FolderInv, Followers
  <2>8. Cardinality(S \ {f}) = Cardinality(S) - 1
    <3> HIDE DEF S
    <3>1. QED  BY <1>1, <2>3, FS_RemoveElement
  <2>9. Cardinality(S) \in Nat /\ Cardinality(Followers(f)) \in Nat
    <3>1. IsFiniteSet(Followers(f))
      BY FS_Subset DEF FolderInv, Followers
    <3>2. QED  BY <1>1, <3>1, FS_CardinalityType
  <2>10. QED  BY <2>6, <2>7, <2>8, <2>9
<1>4. QED  BY <1>2, <1>3

(* Between two deletions there are at most exceed new pictures. *)
LEMMA SpareFew ==
  ASSUME counter \in Nat, exceed \in Int
  PROVE  Spare \in Nat /\ Spare <= Max({exceed, 0})
<1>1. CASE exceed <= 0
  BY <1>1, MaxOfTwo DEF Spare
<1>2. CASE exceed > 0
  <2> DEFINE m == exceed + 1
  <2>1. m \in Nat \ {0} /\ m - 1 = exceed
    BY <1>2
  <2>2. Spare = counter % m
    BY <1>2 DEF Spare
  <2> HIDE DEF m
  <2>3. counter % m \in 0..(m - 1)
    BY <2>1, CountOn
  <2>4. Max({exceed, 0}) \in Int /\ Max({exceed, 0}) >= exceed
    BY MaxOfTwo
  <2>5. QED  BY <2>1, <2>2, <2>3, <2>4
<1>3. QED  BY <1>1, <1>2

(* The bound on the folder: a picture that is saved is a spare one or the  *)
(* reason to tidy up, after which at most size are left.                   *)
LEMMA RingStep ==
  ASSUME TypeOK, PlaceInv, CounterInv, FolderInv, FolderInv', RingInv, Next
  PROVE  RingInv'
<1>1. size' = size /\ exceed' = exceed
  BY DEF Next, Restart, Tick, Publish, Wait, Append, Save, Tidy, Stop, Command, TakerSaves,
         Lock, Fit, Copy, options
<1>2. counter \in Nat
  BY DEF TypeOK
<1>3. Cardinality(folder) \in Nat /\ Cardinality(folder') \in Nat
  BY FS_CardinalityType DEF FolderInv
<1>4. pc \in [Threads -> WorkerPlaces \cup TakerPlaces] /\ Worker \in Threads
  BY DEF PlaceInv, Threads
<1>5. CASE Restart
  BY <1>1, <1>5 DEF Restart, RingInv
<1>6. CASE Save
  <2>1. SUFFICES ASSUME size >= 0, ~slip', pc'[Worker] \notin {"tidy", "dead"}
                 PROVE  Cardinality(folder') <= size + Spare'
    BY <1>1 DEF RingInv
  <2>2. /\ pc[Worker] = "save" /\ ~slip /\ counter' = counter + 1 /\ ~Due(counter')
        /\ folder' = {f \in folder : <<f.time, f.number>> # <<now, counter>>}
                       \cup {[time |-> now, number |-> counter, age |-> born']}
    BY <1>4, <1>6, <2>1 DEF Save, At
  <2>3. exceed > 0 /\ counter > 0 /\ (counter + 1) % (exceed + 1) # 0
    BY <1>2, <2>2 DEF Due, RingInv
  <2>4. Cardinality(folder) <= size + Spare
    BY <2>1, <2>2, <2>3 DEF RingInv
  <2>5. Cardinality(folder') <= Cardinality(folder) + 1
    <3> DEFINE Others == {f \in folder : <<f.time, f.number>> # <<now, counter>>}
    <3>1. IsFiniteSet(Others) /\ Cardinality(Others) <= Cardinality(folder)
      BY FS_Subset DEF FolderInv
    <3>2. Cardinality(Others) \in Nat
      BY <3>1, FS_CardinalityType
    <3> HIDE DEF Others
    <3>3. Cardinality(folder') \in {Cardinality(Others), Cardinality(Others) + 1}
      <4>1. folder' = Others \cup {[time |-> now, number |-> counter, age |-> born']}
        BY <2>2 DEF Others
      <4>2. QED  BY <3>1, <4>1, FS_AddElement
    <3>4. QED  BY <1>3, <3>1, <3>2, <3>3
  <2>6. Spare = counter % (exceed + 1) /\ Spare' = (counter + 1) % (exceed + 1)
    BY <1>1, <2>2, <2>3 DEF Spare, RingInv
  <2>7. Spare' = Spare + 1 /\ Spare \in Int
    <3>1. exceed + 1 \in Nat \ {0}
      BY <2>3 DEF RingInv
    <3>2. /\ counter % (exceed + 1) \in 0..exceed
          /\ (counter + 1) % (exceed + 1) \in {0, (counter % (exceed + 1)) + 1}
      <4> DEFINE m == exceed + 1
      <4>1. m - 1 = exceed
        BY <3>1, <2>3 DEF RingInv
      <4> HIDE DEF m
      <4>2. m \in Nat \ {0}
        BY <3>1 DEF m
      <4>3. counter % m \in 0..(m - 1) /\ ((counter + 1) % m = 0 \/ (counter + 1) % m = (counter % m) + 1)
        BY <1>2, <4>2, CountOn
      <4>4. QED  BY <4>1, <4>3 DEF m
    <3>3. QED  BY <2>3, <2>6, <3>2
  <2>8. size \in Int
    BY DEF RingInv
  <2>9. QED  BY <1>3, <2>4, <2>5, <2>7, <2>8
<1>7. CASE Tidy
  <2>1. SUFFICES ASSUME size >= 0, ~slip'
                 PROVE  Cardinality(folder') <= size + Spare'
    BY <1>1 DEF RingInv
  <2>2. size \in Nat
    BY <2>1 DEF RingInv
  <2>3. folder' = folder \ Doomed(size)
    BY <1>7, <2>1 DEF Tidy
  <2>4. Cardinality(folder') <= size
    BY <2>2, <2>3, Survivors
  <2>5. Spare' \in Nat
    <3>1. Spare' = Spare /\ exceed \in Int
      BY <1>1, <1>7 DEF RingInv, Tidy, Spare
    <3>2. QED  BY <1>2, <3>1, SpareFew
  <2>6. QED  BY <1>3, <2>2, <2>4, <2>5
<1>8. CASE UNCHANGED disk /\ (pc[Worker] \in {"tidy", "dead"} => pc'[Worker] \in {"tidy", "dead"})
  BY <1>1, <1>8 DEF disk, RingInv, Spare
<1>9. Restart \/ Save \/ Tidy \/ (UNCHANGED disk /\ (pc[Worker] \in {"tidy", "dead"} => pc'[Worker] \in {"tidy", "dead"}))
  BY <1>4, FileOutputAssumption
     DEF Next, Tick, Publish, Wait, Append, Stop, Command, TakerSaves, Lock, Fit, Copy, At, disk
<1>10. QED  BY <1>5, <1>6, <1>7, <1>8, <1>9
-----------------------------------------------------------------------------
(* IInv holds when the program starts, whatever earlier runs left behind ... *)
LEMMA InitInv == Init => IInv
<1> SUFFICES ASSUME Init PROVE IInv
  OBVIOUS
<1>1. /\ born \in 0..MaxOld /\ size \in Int /\ exceed \in Int
      /\ folder = {[time |-> 0, number |-> i - 1, age |-> i] : i \in 1..born}
  BY FileOutputAssumption DEF Init
<1>2. IsFiniteSet(folder)
  <2> DEFINE file == [i \in 1..born |-> [time |-> 0, number |-> i - 1, age |-> i]]
  <2>1. file \in Surjection(1..born, folder)
    BY <1>1 DEF Surjection
  <2>2. IsFiniteSet(1..born)
    BY <1>1, FS_Interval, FileOutputAssumption
  <2> HIDE DEF file
  <2>3. QED  BY <2>1, <2>2, FS_Surjection
<1>3. TypeOK
  <2>1. folder \subseteq [time : 0..MaxTime, number : 0..(MaxOld + MaxPicture), age : 1..born]
    BY <1>1, FileOutputAssumption
  <2>2. now \in 1..MaxTime
    BY FileOutputAssumption DEF Init
  <2>3. QED
    BY <1>1, <2>1, <2>2, MaxSize, FileOutputAssumption DEF Init, TypeOK, None, Empty, Cells, Threads
<1>4. PlaceInv
  BY FileOutputAssumption
     DEF Init, PlaceInv, AtRest, Rest, WorkerPlaces, TakerPlaces, Threads
<1>5. CounterInv
  BY FileOutputAssumption DEF Init, CounterInv, None, AtRest, Rest, Threads
<1>6. FolderInv
  <2>1. /\ now = 1 /\ counter = 0
        /\ \A f \in folder : f.time = 0 /\ f.age \in 1..born /\ f.number = f.age - 1
                             /\ f = [time |-> 0, number |-> f.number, age |-> f.age]
    BY <1>1 DEF Init
  <2>2. QED  BY <1>1, <1>2, <2>1 DEF FolderInv, Precedes
<1>7. RingInv
  BY <1>1 DEF Init, RingInv
<1>8. QED  BY <1>3, <1>4, <1>5, <1>6, <1>7 DEF IInv

(* ... and of a state in which nothing has changed. *)
LEMMA StutterInv == IInv /\ UNCHANGED vars => IInv'
<1> SUFFICES ASSUME IInv, UNCHANGED vars PROVE IInv'
  OBVIOUS
<1> USE DEF vars, options, buffer, disk
<1>1. TypeOK'
  BY DEF IInv, TypeOK, Threads, Cells
<1>2. PlaceInv' /\ CounterInv'
  BY DEF IInv, PlaceInv, CounterInv
<1>3. FolderInv'
  BY DEF IInv, FolderInv
<1>4. RingInv'
  BY DEF IInv, RingInv, Spare
<1>5. QED  BY <1>1, <1>2, <1>3, <1>4 DEF IInv

(* The worker's counter, the names in the folder and what was tidied up    *)
(* belong together, whatever fails and however often the program runs.     *)
THEOREM Invariance == Spec => []IInv
<1>1. IInv /\ [Next]_vars => IInv'
  <2>1. SUFFICES ASSUME IInv, Next PROVE IInv'
    BY StutterInv
  <2>2. TypeOK'
    BY <2>1, TypeStep DEF IInv
  <2>3. PlaceInv' /\ CounterInv'
    BY <2>1, PlaceStep DEF IInv
  <2>4. FolderInv'
    BY <2>1, FolderStep DEF IInv
  <2>5. RingInv'
    BY <2>1, <2>4, RingStep DEF IInv
  <2>6. QED  BY <2>2, <2>3, <2>4, <2>5 DEF IInv
<1>2. QED  BY InitInv, <1>1, PTL DEF Spec

(* Every variable of the file plugin keeps its type, its buffer the bound. *)
THEOREM TypeCorrect == Spec => []TypeOK
<1>1. IInv => TypeOK
  BY DEF IInv
<1>2. QED  BY <1>1, Invariance, PTL

(* The folder has no more than size to size + exceed pictures once the     *)
(* program has saved one: output_file's maintain_ringbuffer.               *)
THEOREM RingBoundedHolds == Spec => []RingBounded
<1>1. ASSUME IInv PROVE RingBounded
  <2>1. SUFFICES ASSUME size >= 0, counter > 0, pc[Worker] \in {"loop", "wait", "lock"}, ~slip
                 PROVE  Cardinality(folder) <= size + Max({exceed, 0})
    BY DEF RingBounded
  <2>2. size \in Int /\ exceed \in Int /\ counter \in Nat /\ Cardinality(folder) \in Nat
    BY <1>1, FS_CardinalityType DEF IInv, RingInv, TypeOK, FolderInv
  <2>3. Cardinality(folder) <= size + Spare
    BY <1>1, <2>1 DEF IInv, RingInv
  <2>4. Spare \in Nat /\ Spare <= Max({exceed, 0}) /\ Max({exceed, 0}) \in Int
    BY <2>2, SpareFew, MaxOfTwo
  <2>5. QED  BY <2>2, <2>3, <2>4
<1>2. QED  BY <1>1, Invariance, PTL

(* A picture goes only when size younger ones stay: the youngest picture   *)
(* that is doomed is followed by as many, and none of those is doomed.     *)
LEMMA DoomedKeepFollowers ==
  ASSUME TypeOK, FolderInv, size \in Int, NEW gone \in SUBSET Doomed(size), NEW f \in gone
  PROVE  Cardinality({g \in folder \ gone : g.age > f.age}) >= size
<1> DEFINE D == Doomed(size)
           v == [g \in D |-> g.age]
           Kept == {g \in folder \ gone : g.age > f.age}
<1>1. D \subseteq folder /\ IsFiniteSet(D) /\ f \in D
  <2>1. D \subseteq folder
    BY DEF Doomed
  <2>2. QED  BY <2>1, FS_Subset DEF FolderInv
<1>2. \A g \in folder : g.age \in Int
  BY DEF TypeOK
<1>3. \E y \in D : \A g \in D : v[g] <= v[y]
  <2>1. v \in [D -> Int]
    BY <1>1, <1>2
  <2> HIDE DEF D, v
  <2>2. QED  BY <1>1, <2>1, Greatest
<1>4. PICK y \in D : \A g \in D : g.age <= y.age
  BY <1>3
<1>5. Cardinality(Followers(y)) >= size
  BY <1>4 DEF Doomed, Followers
<1>6. Followers(y) \subseteq Kept
  <2>1. ASSUME NEW g \in Followers(y) PROVE g \in Kept
    <3>1. g \in folder /\ y.age < g.age
      BY <1>1, <1>4, <2>1 DEF Followers, FolderInv
    <3>2. g \notin D
      BY <1>1, <1>2, <1>4, <3>1
    <3>3. g.age > f.age
      BY <1>1, <1>2, <1>4, <3>1
    <3>4. QED  BY <3>1, <3>2, <3>3
  <2>2. QED  BY <2>1
<1>7. IsFiniteSet(Kept) /\ Kept \subseteq folder
  BY FS_Subset DEF FolderInv
<1>8. Cardinality(Followers(y)) <= Cardinality(Kept)
  <2> HIDE DEF Kept
  <2>1. QED  BY <1>6, <1>7, FS_Subset
<1>9. Cardinality(Followers(y)) \in Nat /\ Cardinality(Kept) \in Nat
  <2>1. IsFiniteSet(Followers(y))
    BY FS_Subset DEF FolderInv, Followers
  <2> HIDE DEF Kept
  <2>2. QED  BY <1>7, <2>1, FS_CardinalityType
<1>10. Cardinality(Kept) >= size
  <2> HIDE DEF Kept
  <2>1. QED  BY <1>5, <1>8, <1>9
<1>11. QED  BY <1>10

(* Only the oldest pictures are deleted, and only when a size is set,      *)
(* whichever run saved them: the order of the names is that in which the   *)
(* pictures were saved.                                                    *)
THEOREM KeepsMostRecentHolds == Spec => KeepsMostRecent
<1> DEFINE Kept == \A f \in folder \ folder' :
                     size >= 0 /\ Cardinality({g \in folder' : g.age > f.age}) >= size
<1>1. ASSUME IInv, Next PROVE Kept
  <2>1. CASE Tidy
    <3>1. PICK gone \in SUBSET Doomed(size) : folder' = folder \ gone
      BY <2>1 DEF Tidy
    <3>2. \A f \in folder \ folder' : f \in gone
      BY <3>1
    <3>3. (folder \ folder' # {}) => size >= 0
      <4>1. size \in Int
        BY <1>1 DEF IInv, RingInv
      <4>2. size < 0 => gone = {}
        BY <3>1 DEF Doomed
      <4>3. QED  BY <3>2, <4>1, <4>2
    <3>4. QED  BY <1>1, <3>1, <3>2, <3>3, DoomedKeepFollowers DEF IInv, RingInv
  <2>2. CASE Save
    <3>1. \A f \in folder : <<f.time, f.number>> # <<now, counter>>
      BY <1>1, FileOutputAssumption DEF IInv, FolderInv, TypeOK
    <3>2. folder \subseteq folder'
      BY <2>2, <3>1 DEF Save
    <3>3. QED  BY <3>2
  <2>3. CASE folder' = folder
    BY <2>3
  <2>4. QED
    BY <1>1, <2>1, <2>2, <2>3
       DEF Next, Restart, Tick, Publish, Wait, Append, Stop, Command, TakerSaves, Lock, Fit, Copy,
           disk
<1>2. IInv /\ [Next]_vars => [Kept]_folder
  <2>1. UNCHANGED vars => UNCHANGED folder
    BY DEF vars, disk
  <2> HIDE DEF Kept
  <2>2. QED  BY <1>1, <2>1
<1>3. QED  BY <1>2, Invariance, PTL DEF KeepsMostRecent, Spec
=============================================================================
